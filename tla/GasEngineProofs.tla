-------------------------- MODULE GasEngineProofs ---------------------------
(***************************************************************************)
(* Proofs about GasEngine, for all limits, fees and numbers of bumps.      *)
(***************************************************************************)
EXTENDS GasEngine, TLAPS

(* A percentage is a natural number no greater than the exact one. *)
LEMMA PercentOf ==
    ASSUME NEW v \in Nat, NEW pct \in Nat
    PROVE  /\ Percent(v, pct) \in Nat
           /\ 100 * Percent(v, pct) <= v * pct
           /\ v * pct < 100 * Percent(v, pct) + 100
<1>1. v * pct \in Nat
  OBVIOUS
<1> QED
  BY <1>1 DEF Percent

(* Rounding down keeps the order. *)
LEMMA PercentMonotone ==
    ASSUME NEW v \in Nat, NEW w \in Nat, NEW pct \in Nat, v <= w
    PROVE  Percent(v, pct) <= Percent(w, pct)
<1>1. v * pct <= w * pct
  OBVIOUS
<1>2. v * pct \in Nat /\ w * pct \in Nat
  OBVIOUS
<1> QED
  BY <1>1, <1>2 DEF Percent

LEMMA BumpPercentType ==
    ASSUME NEW n \in Nat
    PROVE  BumpPercent(n) \in Nat /\ BumpPercent(n) <= 100
BY DEF BumpPercent

(* BumpGas keeps the type of the transaction and raises each fee by the    *)
(* percentage of the bump.                                                 *)
LEMMA BumpedFees ==
    ASSUME NEW n \in Nat, NEW D, NEW cur \in [D -> Nat]
    PROVE  /\ BumpGas(cur, n) \in [D -> Nat]
           /\ \A f \in D : BumpGas(cur, n)[f] =
                             cur[f] + Percent(cur[f], BumpPercent(n))
<1>1. BumpGas(cur, n) = [f \in D |-> cur[f] + Percent(cur[f], BumpPercent(n))]
  BY DEF BumpGas, bumpBigInt
<1>2. \A f \in D : cur[f] + Percent(cur[f], BumpPercent(n)) \in Nat
  <2> SUFFICES ASSUME NEW f \in D
               PROVE  cur[f] + Percent(cur[f], BumpPercent(n)) \in Nat
    OBVIOUS
  <2>1. cur[f] \in Nat /\ BumpPercent(n) \in Nat
    BY BumpPercentType
  <2>2. Percent(cur[f], BumpPercent(n)) \in Nat
    BY <2>1, PercentOf
  <2> QED
    BY <2>1, <2>2
<1> QED
  BY <1>1, <1>2

-----------------------------------------------------------------------------
(* The first attempt *)

(* A limit that is set is a number, so clamp returns one. *)
LEMMA ClampType ==
    ASSUME NEW v \in Nat, NEW min \in Limit, NEW max \in Limit
    PROVE  clamp(v, min, max) \in Nat
BY DEF clamp, Limit

LEMMA ChainLimits ==
    ASSUME chain \in Limits
    PROVE  /\ chain.minPriority \in Limit /\ chain.maxPriority \in Limit
           /\ chain.minMaxFee \in Limit /\ chain.maxMaxFee \in Limit
BY GasAssumption

(* Whatever the limits, the estimate has both fees, the tip not above the  *)
(* maximum.                                                                *)
LEMMA DynamicEstimate ==
    ASSUME chain \in Limits,
           NEW p \in Priorities, NEW b \in Nat, NEW t \in Nat
    PROVE  /\ estimateEIP1559(p, b, t) \in [Dynamic -> Nat]
           /\ estimateEIP1559(p, b, t)["priorityFee"]
                <= estimateEIP1559(p, b, t)["maxFee"]
<1> DEFINE wanted == Percent(t, TipMultiplier[p])
           tip    == clamp(wanted, chain.minPriority, chain.maxPriority)
           made   == Percent(b, FeeMultiplier[p]) + wanted
           fee    == clamp(made, chain.minMaxFee, chain.maxMaxFee)
           most   == AtLeast(fee, tip)
<1>1. TipMultiplier[p] \in Nat /\ FeeMultiplier[p] \in Nat
  BY DEF Priorities, TipMultiplier, FeeMultiplier
<1>2. wanted \in Nat /\ Percent(b, FeeMultiplier[p]) \in Nat
  BY <1>1, PercentOf
<1>3. made \in Nat
  BY <1>2
<1>4. tip \in Nat /\ fee \in Nat
  BY <1>2, <1>3, ChainLimits, ClampType
<1>5. most \in Nat /\ tip <= most
  BY <1>4 DEF AtLeast
<1>6. estimateEIP1559(p, b, t) = [f \in Dynamic |-> IF f = "maxFee" THEN most ELSE tip]
  BY DEF estimateEIP1559
<1> QED
  BY <1>4, <1>5, <1>6 DEF Dynamic

LEMMA LegacyEstimate ==
    ASSUME chain \in Limits, NEW g \in Nat
    PROVE  estimateLegacy(g) \in [Legacy -> Nat]
BY ChainLimits, ClampType DEF estimateLegacy

-----------------------------------------------------------------------------
(* The inductive invariant: the type, and the bounds that every bump keeps *)
(* together with the fees it starts from.                                  *)
Inv == TypeOK /\ TipBelowMaxFee /\ BumpsCostAtMost

(* A first attempt with fees of either type satisfies the invariant. *)
LEMMA FirstAttemptInv ==
    ASSUME Inv, NEW e \in Fees, FirstAttempt(e),
           DOMAIN e = Dynamic => e["priorityFee"] <= e["maxFee"]
    PROVE  Inv'
<1>1. TypeOK'
  BY DEF Inv, TypeOK, FirstAttempt
<1>2. TipBelowMaxFee'
  BY DEF TipBelowMaxFee, FirstAttempt
<1>3. \A f \in DOMAIN e : e[f] \in Nat
  BY DEF Fees
<1>4. BumpsCostAtMost'
  BY <1>3 DEF BumpsCostAtMost, FirstAttempt, CostFactor
<1> QED
  BY <1>1, <1>2, <1>4 DEF Inv

(* Fees are a function of numbers over their domain. *)
LEMMA FeesDomain ==
    ASSUME NEW e \in Fees
    PROVE  e \in [DOMAIN e -> Nat] /\ DOMAIN e \in {Dynamic, Legacy}
BY DEF Fees

(* One bump multiplies the bound of 1.000 ... 6.071 as CostFactor says. *)
LEMMA CostStep ==
    ASSUME NEW n \in 1..5, NEW v \in Nat, NEW o \in Nat,
           1000 * v <= CostFactor[n] * o
    PROVE  1000 * (v + Percent(v, BumpPercent(n))) <= CostFactor[n + 1] * o
<1>1. n \in {1, 2, 3, 4, 5}
  OBVIOUS
<1>2. CASE n = 1
  <2>1. BumpPercent(n) = 15
    BY <1>2 DEF BumpPercent
  <2>2. CostFactor[n] = 1000 /\ CostFactor[n + 1] = 1150
    BY <1>2 DEF CostFactor
  <2>3. Percent(v, 15) \in Nat /\ 100 * Percent(v, 15) <= v * 15
    BY PercentOf
  <2> QED
    BY <2>1, <2>2, <2>3
<1>3. CASE n = 2
  <2>1. BumpPercent(n) = 30
    BY <1>3 DEF BumpPercent
  <2>2. CostFactor[n] = 1150 /\ CostFactor[n + 1] = 1495
    BY <1>3 DEF CostFactor
  <2>3. Percent(v, 30) \in Nat /\ 100 * Percent(v, 30) <= v * 30
    BY PercentOf
  <2> QED
    BY <2>1, <2>2, <2>3
<1>4. CASE n = 3
  <2>1. BumpPercent(n) = 45
    BY <1>4 DEF BumpPercent
  <2>2. CostFactor[n] = 1495 /\ CostFactor[n + 1] = 2168
    BY <1>4 DEF CostFactor
  <2>3. Percent(v, 45) \in Nat /\ 100 * Percent(v, 45) <= v * 45
    BY PercentOf
  <2> QED
    BY <2>1, <2>2, <2>3
<1>5. CASE n = 4
  <2>1. BumpPercent(n) = 60
    BY <1>5 DEF BumpPercent
  <2>2. CostFactor[n] = 2168 /\ CostFactor[n + 1] = 3469
    BY <1>5 DEF CostFactor
  <2>3. Percent(v, 60) \in Nat /\ 100 * Percent(v, 60) <= v * 60
    BY PercentOf
  <2> QED
    BY <2>1, <2>2, <2>3
<1>6. CASE n = 5
  <2>1. BumpPercent(n) = 75
    BY <1>6 DEF BumpPercent
  <2>2. CostFactor[n] = 3469 /\ CostFactor[n + 1] = 6071
    BY <1>6 DEF CostFactor
  <2>3. Percent(v, 75) \in Nat /\ 100 * Percent(v, 75) <= v * 75
    BY PercentOf
  <2> QED
    BY <2>1, <2>2, <2>3
<1> QED
  BY <1>1, <1>2, <1>3, <1>4, <1>5, <1>6

LEMMA BumpInv ==
    ASSUME Inv, Bump
    PROVE  Inv'
<1>1. attempts \in Nat /\ attempts' = attempts + 1 /\ first' = first /\ chain' = chain
  BY DEF Inv, TypeOK, Bump
<1>2. fees \in [DOMAIN fees -> Nat] /\ DOMAIN fees \in {Dynamic, Legacy}
  BY FeesDomain DEF Inv, TypeOK
<1>3. fees' = BumpGas(fees, attempts)
  BY DEF Bump
<1>4. /\ fees' \in [DOMAIN fees -> Nat]
      /\ \A f \in DOMAIN fees :
           fees'[f] = fees[f] + Percent(fees[f], BumpPercent(attempts))
  BY <1>1, <1>2, <1>3, BumpedFees
<1>5. TypeOK'
  <2>1. fees' \in Fees
    BY <1>2, <1>4 DEF Fees
  <2> QED
    BY <1>1, <2>1 DEF Inv, TypeOK
<1>6. TipBelowMaxFee'
  <2> SUFFICES ASSUME DOMAIN fees' = Dynamic
               PROVE  fees'["priorityFee"] <= fees'["maxFee"]
    BY DEF TipBelowMaxFee
  <2>1. DOMAIN fees = Dynamic
    BY <1>4
  <2>2. fees["priorityFee"] \in Nat /\ fees["maxFee"] \in Nat
    BY <1>2, <2>1 DEF Dynamic
  <2>3. fees["priorityFee"] <= fees["maxFee"]
    BY <2>1 DEF Inv, TipBelowMaxFee
  <2>4. BumpPercent(attempts) \in Nat
    BY <1>1, BumpPercentType
  <2>5. Percent(fees["priorityFee"], BumpPercent(attempts))
          <= Percent(fees["maxFee"], BumpPercent(attempts))
    BY <2>2, <2>3, <2>4, PercentMonotone
  <2>6. /\ Percent(fees["priorityFee"], BumpPercent(attempts)) \in Nat
        /\ Percent(fees["maxFee"], BumpPercent(attempts)) \in Nat
    BY <2>2, <2>4, PercentOf
  <2>7. /\ fees'["priorityFee"] = fees["priorityFee"]
             + Percent(fees["priorityFee"], BumpPercent(attempts))
        /\ fees'["maxFee"] = fees["maxFee"]
             + Percent(fees["maxFee"], BumpPercent(attempts))
    BY <1>4, <2>1 DEF Dynamic
  <2> QED
    BY <2>2, <2>3, <2>5, <2>6, <2>7
<1>7. BumpsCostAtMost'
  <2> SUFFICES ASSUME attempts' \in 1..6
               PROVE  /\ DOMAIN fees' = DOMAIN first
                      /\ \A f \in DOMAIN fees :
                           1000 * fees'[f] <= CostFactor[attempts + 1] * first[f]
    BY <1>1, <1>4 DEF BumpsCostAtMost
  <2>1. attempts \in 1..5
    BY <1>1, GasAssumption DEF Bump
  <2>2. /\ DOMAIN fees = DOMAIN first
        /\ \A f \in DOMAIN fees : 1000 * fees[f] <= CostFactor[attempts] * first[f]
    BY <2>1 DEF Inv, BumpsCostAtMost
  <2>3. DOMAIN fees' = DOMAIN first
    BY <1>4, <2>2
  <2>4. ASSUME NEW f \in DOMAIN fees
        PROVE  1000 * fees'[f] <= CostFactor[attempts + 1] * first[f]
    <3>1. fees[f] \in Nat
      BY <1>2
    <3>2. first[f] \in Nat
      BY <2>2, FeesDomain DEF Inv, TypeOK
    <3>3. 1000 * fees[f] <= CostFactor[attempts] * first[f]
      BY <2>2
    <3>4. 1000 * (fees[f] + Percent(fees[f], BumpPercent(attempts)))
            <= CostFactor[attempts + 1] * first[f]
      BY <2>1, <3>1, <3>2, <3>3, CostStep
    <3> QED
      BY <1>4, <3>4
  <2> QED
    BY <2>3, <2>4
<1> QED
  BY <1>5, <1>6, <1>7 DEF Inv

-----------------------------------------------------------------------------
(* Theorems *)

(* What an estimate is made of. *)
LEMMA EstimateCases ==
    ASSUME TypeOK, EstimateDynamic \/ EstimateLegacy
    PROVE  \/ \E p \in Priorities, b \in Nat, t \in Nat :
                 FirstAttempt(estimateEIP1559(p, b, t))
           \/ \E g \in Nat : FirstAttempt(estimateLegacy(g))
<1>1. CASE EstimateDynamic
  BY <1>1, GasAssumption DEF EstimateDynamic
<1>2. CASE EstimateLegacy
  BY <1>2, GasAssumption DEF EstimateLegacy
<1> QED
  BY <1>1, <1>2

LEMMA StepInv ==
    ASSUME Inv, [Next]_vars
    PROVE  Inv'
<1>1. CASE EstimateDynamic \/ EstimateLegacy
  <2> USE DEF Inv
  <2>1. chain \in Limits
    BY DEF TypeOK
  <2>2. CASE \E p \in Priorities, b \in Nat, t \in Nat :
               FirstAttempt(estimateEIP1559(p, b, t))
    <3>1. PICK p \in Priorities, b \in Nat, t \in Nat :
             FirstAttempt(estimateEIP1559(p, b, t))
      BY <2>2
    <3>2. /\ estimateEIP1559(p, b, t) \in Fees
          /\ estimateEIP1559(p, b, t)["priorityFee"]
               <= estimateEIP1559(p, b, t)["maxFee"]
      BY <2>1, DynamicEstimate DEF Fees
    <3> QED
      BY <3>1, <3>2, FirstAttemptInv
  <2>3. CASE \E g \in Nat : FirstAttempt(estimateLegacy(g))
    <3>1. PICK g \in Nat : FirstAttempt(estimateLegacy(g))
      BY <2>3
    <3>2. estimateLegacy(g) \in [Legacy -> Nat]
      BY <2>1, LegacyEstimate
    <3>3. estimateLegacy(g) \in Fees /\ DOMAIN estimateLegacy(g) # Dynamic
      BY <3>2 DEF Fees, Legacy, Dynamic
    <3> QED
      BY <3>1, <3>3, FirstAttemptInv
  <2> QED
    BY <1>1, <2>2, <2>3, EstimateCases
<1>2. CASE Bump
  BY <1>2, BumpInv
<1>3. CASE UNCHANGED vars
  BY <1>3 DEF vars, Inv, TypeOK, TipBelowMaxFee, BumpsCostAtMost
<1> QED
  BY <1>1, <1>2, <1>3 DEF Next

LEMMA InitInv ==
    ASSUME Init
    PROVE  Inv
<1>1. NoFees \in [Legacy -> Nat] /\ DOMAIN NoFees # Dynamic
  BY DEF NoFees, Legacy, Dynamic
<1> QED
  BY <1>1 DEF Init, Inv, TypeOK, Fees, TipBelowMaxFee, BumpsCostAtMost

(* The fees of every attempt are numbers, of one of the two types of       *)
(* transaction, whatever gas.go is given.                                  *)
THEOREM FeesTyped == Spec => []TypeOK
BY InitInv, StepInv, PTL DEF Spec, Inv

(* gas.go:97 and bumpBigInt: for all limits and all answers of the node no *)
(* attempt, however many bumps later, has a tip above its maximum fee.     *)
THEOREM TipsBelowMaxFee == Spec => []TipBelowMaxFee
BY InitInv, StepInv, PTL DEF Spec, Inv

(* BumpGas: five bumps cost at most 6.071 times the first attempt, for any *)
(* fees.                                                                   *)
THEOREM BumpsCost == Spec => []BumpsCostAtMost
BY InitInv, StepInv, PTL DEF Spec, Inv

(* From seven wei on, 15 per cent and more raise a fee by one at least and *)
(* by no less than ten per cent.                                           *)
LEMMA BumpedEnough ==
    ASSUME NEW v \in Nat, v >= LeastBumped, NEW pct \in Nat, pct >= 15
    PROVE  /\ v + Percent(v, pct) > v
           /\ v + Percent(v, pct) >= (110 * v) \div 100
<1>1. v * pct >= v * 15
  OBVIOUS
<1>2. v * pct \in Nat
  OBVIOUS
<1>3. Percent(v, pct) >= 1
  BY <1>1, <1>2 DEF Percent, LeastBumped
<1>4. Percent(v, pct) >= (10 * v) \div 100
  BY <1>1, <1>2 DEF Percent
<1>5. (110 * v) \div 100 = v + (10 * v) \div 100
  OBVIOUS
<1>6. Percent(v, pct) \in Nat
  BY PercentOf
<1>7. (10 * v) \div 100 \in Nat
  OBVIOUS
<1> QED
  BY <1>3, <1>4, <1>5, <1>6, <1>7

(* The stuck detector's bumps: every node takes each of them as a          *)
(* replacement of the attempt before it.                                   *)
THEOREM BumpsTaken == Spec => BumpReplaces
<1>1. ASSUME Inv, [Next]_vars, attempts > 0,
             \A f \in DOMAIN fees : fees[f] >= LeastBumped, ~ UNCHANGED vars
      PROVE  Replaces(fees', fees)
  <2>1. Bump
    BY <1>1 DEF Next, EstimateDynamic, EstimateLegacy, FirstAttempt, Inv, TypeOK
  <2>2. attempts \in Nat /\ attempts >= 1
    BY <1>1 DEF Inv, TypeOK
  <2>3. fees \in [DOMAIN fees -> Nat]
    BY <1>1, FeesDomain DEF Inv, TypeOK
  <2>4. /\ fees' \in [DOMAIN fees -> Nat]
        /\ \A f \in DOMAIN fees :
             fees'[f] = fees[f] + Percent(fees[f], BumpPercent(attempts))
    BY <2>1, <2>2, <2>3, BumpedFees DEF Bump
  <2>5. BumpPercent(attempts) \in Nat /\ BumpPercent(attempts) >= 15
    BY <2>2 DEF BumpPercent
  <2>6. ASSUME NEW f \in DOMAIN fees
        PROVE  fees'[f] > fees[f] /\ fees'[f] >= (110 * fees[f]) \div 100
    <3>1. fees[f] \in Nat /\ fees[f] >= LeastBumped
      BY <1>1, <2>3
    <3> QED
      BY <2>4, <2>5, <3>1, BumpedEnough
  <2> QED
    BY <2>4, <2>6 DEF Replaces
<1>2. Inv /\ [Next]_vars =>
        [attempts > 0 /\ (\A f \in DOMAIN fees : fees[f] >= LeastBumped)
           => Replaces(fees', fees)]_vars
  BY <1>1
<1> QED
  BY <1>2, InitInv, StepInv, PTL DEF Spec, BumpReplaces

(* A value is clamped to the upper limit, unless the lower one is above it. *)
LEMMA ClampCaps ==
    ASSUME NEW v \in Nat, NEW min \in Limit, NEW max \in Nat,
           min # NULL => min <= max
    PROVE  clamp(v, min, max) <= max
<1>1. max # NULL
  BY GasAssumption
<1> QED
  BY <1>1 DEF clamp, Limit

(* README.md:267, gas.go:73-106: with consistent limits the first attempt  *)
(* pays no more than max-max-fee.                                          *)
THEOREM EstimatesCapped == Spec => []EstimateCapped
<1>1. Init => EstimateCapped
  BY DEF Init, EstimateCapped
<1>2. ASSUME Inv, EstimateCapped, [Next]_vars
      PROVE  EstimateCapped'
  <2> SUFFICES ASSUME attempts' = 1, chain'.maxMaxFee # NULL, chain'.maxPriority # NULL,
                      chain'.maxPriority <= chain'.maxMaxFee,
                      chain'.minMaxFee # NULL => chain'.minMaxFee <= chain'.maxMaxFee,
                      chain'.minPriority # NULL => chain'.minPriority <= chain'.maxPriority
               PROVE  \A f \in DOMAIN fees' : fees'[f] <= chain'.maxMaxFee
    BY DEF EstimateCapped
  <2>1. chain \in Limits /\ attempts \in Nat
    BY <1>2 DEF Inv, TypeOK
  <2>2. CASE \E p \in Priorities, b \in Nat, t \in Nat :
               FirstAttempt(estimateEIP1559(p, b, t))
    <3>1. PICK p \in Priorities, b \in Nat, t \in Nat :
             FirstAttempt(estimateEIP1559(p, b, t))
      BY <2>2
    <3> DEFINE wanted == Percent(t, TipMultiplier[p])
               tip    == clamp(wanted, chain.minPriority, chain.maxPriority)
               made   == Percent(b, FeeMultiplier[p]) + wanted
               fee    == clamp(made, chain.minMaxFee, chain.maxMaxFee)
               most   == AtLeast(fee, tip)
    <3>2. chain' = chain /\ fees' = estimateEIP1559(p, b, t)
      BY <3>1 DEF FirstAttempt
    <3>3. chain.maxMaxFee \in Nat /\ chain.maxPriority \in Nat
      BY <2>1, <3>2, ChainLimits DEF Limit
    <3>4. TipMultiplier[p] \in Nat /\ FeeMultiplier[p] \in Nat
      BY DEF Priorities, TipMultiplier, FeeMultiplier
    <3>5. wanted \in Nat /\ Percent(b, FeeMultiplier[p]) \in Nat
      BY <3>4, PercentOf
    <3>6. made \in Nat
      BY <3>5
    <3>7. tip \in Nat /\ fee \in Nat
      BY <2>1, <3>5, <3>6, ChainLimits, ClampType
    <3>8. tip <= chain.maxPriority
      BY <2>1, <3>2, <3>3, <3>5, ChainLimits, ClampCaps
    <3>9. fee <= chain.maxMaxFee
      BY <2>1, <3>2, <3>3, <3>6, ChainLimits, ClampCaps
    <3>10. tip <= chain.maxMaxFee /\ most <= chain.maxMaxFee
      BY <3>2, <3>3, <3>7, <3>8, <3>9 DEF AtLeast
    <3>11. fees' = [f \in Dynamic |-> IF f = "maxFee" THEN most ELSE tip]
      BY <3>2 DEF estimateEIP1559
    <3> QED
      BY <3>2, <3>10, <3>11
  <2>3. CASE \E g \in Nat : FirstAttempt(estimateLegacy(g))
    <3>1. PICK g \in Nat : FirstAttempt(estimateLegacy(g))
      BY <2>3
    <3>2. chain' = chain /\ fees' = estimateLegacy(g)
      BY <3>1 DEF FirstAttempt
    <3>3. chain.maxMaxFee \in Nat
      BY <2>1, <3>2, ChainLimits DEF Limit
    <3>4. clamp(g, chain.minMaxFee, chain.maxMaxFee) <= chain.maxMaxFee
      BY <2>1, <3>2, <3>3, ChainLimits, ClampCaps
    <3> QED
      BY <3>2, <3>4 DEF estimateLegacy
  <2>4. CASE Bump
    BY <2>1, <2>4 DEF Bump
  <2>5. CASE UNCHANGED vars
    BY <1>2, <2>5 DEF vars, EstimateCapped
  <2> QED
    BY <1>2, <2>2, <2>3, <2>4, <2>5, EstimateCases DEF Next, Inv
<1> QED
  BY <1>1, <1>2, InitInv, StepInv, PTL DEF Spec
=============================================================================
