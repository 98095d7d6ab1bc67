--------------------------- MODULE AmountsProofs ----------------------------
(***************************************************************************)
(* Every text and every number of decimals: ParseAmountToSmallestUnit      *)
(* returns an integer or an error.  Horner's recursion over the digits     *)
(* needs an induction; the library's induction theorems cannot be used, as *)
(* no prover here instantiates their operator, so it rests on the          *)
(* least-number principle, which follows from theorems about finite sets.  *)
(* Then the parser against positional notation, for texts of any length    *)
(* over any characters and any number of decimals.                         *)
(***************************************************************************)
EXTENDS DecimalNotation, FiniteSetTheorems, SequenceTheorems, TLAPS

(* The least-number principle, from the well-foundedness of the strict     *)
(* inclusion of finite sets: it stands for induction on the naturals.      *)
LEMMA LeastNumber ==
  ASSUME NEW T \in SUBSET Nat, T # {}
  PROVE  \E m \in T : \A k \in T : m <= k
<1>1. PICK n \in T : TRUE
  OBVIOUS
<1> DEFINE S == 1..n
           F == {s \in SUBSET S : \E k \in T : k <= n /\ s = 1..k}
<1>2. IsFiniteSet(S)
  BY FS_Interval
<1>3. FiniteSubsetsOf(S) = SUBSET S
  BY <1>2, FS_FiniteSubsetsOfFinite
<1>4. IsWellFoundedOn(StrictSubsetOrdering(S), SUBSET S)
  BY <1>3, FS_StrictSubsetOrderingWellFounded
<1>5. F # {} /\ F \subseteq SUBSET S
  <2>1. S \in F
    BY <1>1
  <2> QED
    BY <2>1
<1> HIDE DEF F
<1>6. PICK s \in F : \A u \in F : ~ (<<u, s>> \in StrictSubsetOrdering(S))
  BY <1>4, <1>5, WFMin
<1>7. PICK m \in T : m <= n /\ s = 1..m
  BY <1>6 DEF F
<1>8. ASSUME NEW k \in T, k < m PROVE FALSE
  <2>1. 1..k \in F
    BY <1>7, <1>8 DEF F
  <2>2. 1..k \subseteq s /\ 1..k # s
    <3>1. m \in 1..m /\ m \notin 1..k
      BY <1>8
    <3> QED
      BY <1>7, <1>8, <3>1
  <2> QED
    BY <1>5, <1>6, <2>1, <2>2 DEF StrictSubsetOrdering
<1> QED
  BY <1>8

(* Min and Max return what they say. *)
LEMMA MinOfNat ==
  ASSUME NEW T \in SUBSET Nat, T # {}
  PROVE  Min(T) \in T /\ \A k \in T : Min(T) <= k
  BY LeastNumber DEF Min

LEMMA MaxOfInterval ==
  ASSUME NEW n \in Nat, NEW T \in SUBSET (1..n), T # {}
  PROVE  Max(T) \in T /\ \A k \in T : k <= Max(T)
<1> DEFINE U == {n - i : i \in T}
<1>1. U \in SUBSET Nat /\ U # {}
  <2>1. \A i \in T : n - i \in Nat
    OBVIOUS
  <2> QED
    BY <2>1
<1>2. PICK m \in U : \A k \in U : m <= k
  BY <1>1, LeastNumber
<1>3. PICK x \in T : m = n - x
  BY <1>2
<1>4. ASSUME NEW y \in T PROVE x >= y
  <2>1. n - y \in U
    OBVIOUS
  <2>2. n - x <= n - y
    BY <1>2, <1>3, <2>1
  <2> QED
    BY <2>2
<1> QED
  BY <1>4 DEF Max

-----------------------------------------------------------------------------
(* Induction up to n, with a set in the place of the induction hypothesis. *)
LEMMA UpTo ==
  ASSUME NEW n \in Nat, NEW T, 0 \in T, \A i \in 1..n : i - 1 \in T => i \in T
  PROVE  \A i \in 0..n : i \in T
<1> DEFINE U == {i \in 0..n : i \notin T}
<1> SUFFICES ASSUME U # {} PROVE FALSE
  OBVIOUS
<1>1. U \in SUBSET Nat
  OBVIOUS
<1>2. PICK m \in U : \A k \in U : m <= k
  BY <1>1, LeastNumber
<1>3. m \in 1..n /\ m - 1 \in 0..n /\ ~ (m <= m - 1)
  BY <1>2
<1> QED
  BY <1>2, <1>3

(* A recursion on the numbers up to n defines a function. *)
LEMMA RecursionExists ==
  ASSUME NEW n \in Nat, NEW a \in Nat, NEW step \in [1..n -> [Nat -> Nat]]
  PROVE  \E f \in [0..n -> Nat] :
            f[0] = a /\ \A i \in 1..n : f[i] = step[i][f[i - 1]]
<1> DEFINE Rec(m, f) == f[0] = a /\ \A i \in 1..m : f[i] = step[i][f[i - 1]]
           T == {m \in 0..n : \E f \in [0..m -> Nat] : Rec(m, f)}
<1>1. 0 \in T
  <2> DEFINE f == [i \in 0..0 |-> a]
  <2>1. f \in [0..0 -> Nat] /\ f[0] = a /\ \A i \in 1..0 : FALSE
    OBVIOUS
  <2> HIDE DEF f
  <2>2. Rec(0, f) /\ 0 \in 0..n
    BY <2>1
  <2> QED
    BY <2>1, <2>2
<1>2. ASSUME NEW m \in 1..n, m - 1 \in T PROVE m \in T
  <2>1. PICK g \in [0..(m - 1) -> Nat] : Rec(m - 1, g)
    BY <1>2
  <2> DEFINE f == [i \in 0..m |-> IF i < m THEN g[i] ELSE step[m][g[m - 1]]]
  <2>2. m - 1 \in 0..(m - 1) /\ m \in 0..n /\ 0 \in 0..m /\ 0 < m
    OBVIOUS
  <2>3. g[m - 1] \in Nat /\ step[m] \in [Nat -> Nat]
    BY <2>2
  <2>4. step[m][g[m - 1]] \in Nat
    BY <2>3
  <2>5. f \in [0..m -> Nat]
    <3>1. \A i \in 0..m : i < m => i \in 0..(m - 1)
      OBVIOUS
    <3> QED
      BY <2>4, <3>1
  <2>6. ASSUME NEW i \in 1..m PROVE f[i] = step[i][f[i - 1]]
    <3>1. i \in 0..m /\ i - 1 \in 0..m /\ i - 1 < m
      BY <2>2
    <3>2. f[i - 1] = g[i - 1]
      BY <3>1
    <3>3. CASE i < m
      <4>1. i \in 1..(m - 1)
        BY <3>3
      <4> QED
        BY <2>1, <3>1, <3>2, <3>3, <4>1
    <3>4. CASE i = m
      BY <3>1, <3>2, <3>4
    <3> QED
      BY <3>3, <3>4
  <2>7. f[0] = a
    BY <2>1, <2>2
  <2> HIDE DEF f
  <2>8. Rec(m, f)
    BY <2>6, <2>7
  <2> QED
    BY <2>2, <2>5, <2>8
<1> HIDE DEF T
<1>3. \A m \in 0..n : m \in T
  BY <1>1, <1>2, UpTo
<1>4. n \in 0..n
  OBVIOUS
<1> QED
  BY <1>3, <1>4 DEF T

-----------------------------------------------------------------------------
(* Digits *)

LEMMA DigitRange ==
  ASSUME NEW c, IsDigit(c)
  PROVE  DigitValue(c) \in 0..9
<1>1. DOMAIN Digits = 1..10
  BY DEF Digits
<1>2. (CHOOSE i \in DOMAIN Digits : Digits[i] = c) \in DOMAIN Digits
  BY DEF IsDigit
<1> QED
  BY <1>1, <1>2 DEF DigitValue

(* What Horner's recursion has read of a text after each digit. *)
LEMMA HornerTable ==
  ASSUME NEW S, NEW s \in Seq(S), \A i \in 1..Len(s) : IsDigit(s[i])
  PROVE  \E h \in [0..Len(s) -> Nat] :
            /\ h[0] = 0
            /\ \A i \in 1..Len(s) : h[i] = 10 * h[i - 1] + DigitValue(s[i])
            /\ Horner(s) = h[Len(s)]
<1>1. Len(s) \in Nat
  BY LenProperties
<1> DEFINE n == Len(s)
           Reads(g) == g = [i \in 0..n |-> IF i = 0 THEN 0
                                           ELSE 10 * g[i - 1] + DigitValue(s[i])]
           step == [i \in 1..n |-> [x \in Nat |-> 10 * x + DigitValue(s[i])]]
           h == CHOOSE g : Reads(g)
<1>2. \A i \in 1..n : DigitValue(s[i]) \in Nat
  BY DigitRange
<1>3. step \in [1..n -> [Nat -> Nat]]
  <2>1. ASSUME NEW i \in 1..n PROVE [x \in Nat |-> 10 * x + DigitValue(s[i])] \in [Nat -> Nat]
    <3>1. DigitValue(s[i]) \in Nat
      BY <1>2
    <3> QED
      BY <3>1
  <2> QED
    BY <2>1
<1>4. \E g : Reads(g)
  <2>1. PICK g \in [0..n -> Nat] : g[0] = 0 /\ \A i \in 1..n : g[i] = step[i][g[i - 1]]
    <3>1. n \in Nat /\ 0 \in Nat
      BY <1>1
    <3> HIDE DEF n, step
    <3> QED
      BY <1>3, <3>1, RecursionExists
  <2>2. ASSUME NEW i \in 1..n PROVE g[i] = 10 * g[i - 1] + DigitValue(s[i])
    <3>1. i - 1 \in 0..n
      BY <1>1
    <3> QED
      BY <2>1, <3>1
  <2>3. \A i \in 0..n : i # 0 => i \in 1..n
    BY <1>1
  <2>4. Reads(g)
    BY <2>1, <2>2, <2>3
  <2> QED
    BY <2>4
<1>5. Reads(h)
  BY <1>4
<1>6. Horner(s) = h[n]
  BY DEF Horner
<1> HIDE DEF h
<1>7. 0 \in 0..n /\ \A i \in 1..n : i \in 0..n /\ i # 0 /\ i - 1 \in 0..n
  BY <1>1
<1>8. h[0] = 0 /\ \A i \in 1..n : h[i] = 10 * h[i - 1] + DigitValue(s[i])
  BY <1>5, <1>7
<1>9. h \in [0..n -> Nat]
  <2> DEFINE T == {i \in 0..n : h[i] \in Nat}
  <2>1. 0 \in T
    BY <1>7, <1>8
  <2>2. \A i \in 1..n : i - 1 \in T => i \in T
    BY <1>2, <1>7, <1>8
  <2> HIDE DEF T
  <2>3. \A i \in 0..n : i \in T
    BY <1>1, <2>1, <2>2, UpTo
  <2> QED
    BY <1>5, <2>3 DEF T
<1> QED
  BY <1>6, <1>8, <1>9

(* Zeros in front do not count. *)
LEMMA HornerTrims ==
  ASSUME NEW S, NEW s \in Seq(S), \A i \in 1..Len(s) : IsDigit(s[i]),
         NEW q \in 0..Len(s), \A i \in 1..q : DigitValue(s[i]) = 0
  PROVE  Horner(SubSeq(s, q + 1, Len(s))) = Horner(s)
<1> DEFINE n == Len(s)
           r == SubSeq(s, q + 1, n)
<1>1. n \in Nat /\ q \in Nat /\ q <= n /\ \A i \in (q + 1)..n : i \in 1..n
  BY LenProperties
<1>2. /\ r \in Seq(S) /\ Len(r) = n - q
      /\ \A i \in 1..(n - q) : r[i] = s[q + i]
  <2>1. \A i \in (q + 1)..n : s[i] \in S
    BY <1>1, LenProperties
  <2>2. q + 1 \in Int /\ n \in Int /\ n - (q + 1) + 1 = n - q
    BY <1>1
  <2>3. /\ r \in Seq(S) /\ Len(r) = IF q + 1 <= n THEN n - (q + 1) + 1 ELSE 0
        /\ \A i \in 1..(n - (q + 1) + 1) : r[i] = s[q + 1 + i - 1]
    BY <2>1, <2>2, SubSeqProperties
  <2>4. Len(r) = n - q
    BY <1>1, <2>3
  <2>5. \A i \in 1..(n - q) : q + 1 + i - 1 = q + i
    BY <1>1
  <2> QED
    BY <2>2, <2>3, <2>4, <2>5
<1>3. PICK h \in [0..n -> Nat] :
             /\ h[0] = 0
             /\ \A i \in 1..n : h[i] = 10 * h[i - 1] + DigitValue(s[i])
             /\ Horner(s) = h[n]
  BY HornerTable
<1> HIDE DEF n, r
<1>4. \A i \in 1..(n - q) : q + i \in 1..n /\ q + i - 1 = q + (i - 1)
  BY <1>1
<1>5. \A i \in 1..Len(r) : IsDigit(r[i])
  BY <1>2, <1>4 DEF n
<1>6. PICK g \in [0..Len(r) -> Nat] :
             /\ g[0] = 0
             /\ \A i \in 1..Len(r) : g[i] = 10 * g[i - 1] + DigitValue(r[i])
             /\ Horner(r) = g[Len(r)]
  BY <1>2, <1>5, HornerTable
<1>7. h[q] = 0
  <2> DEFINE T == {i \in 0..n : h[i] = 0}
  <2>1. 0 \in T
    BY <1>1, <1>3
  <2>2. ASSUME NEW i \in 1..q, i - 1 \in T PROVE i \in T
    <3>1. i \in 1..n
      BY <1>1
    <3> QED
      BY <1>3, <2>2, <3>1
  <2> HIDE DEF T
  <2>3. \A i \in 0..q : i \in T
    BY <1>1, <2>1, <2>2, UpTo
  <2> QED
    BY <1>1, <2>3 DEF T
<1>8. h[n] = g[n - q]
  <2> DEFINE T == {i \in 0..(n - q) : h[q + i] = g[i]}
  <2>1. 0 \in T
    BY <1>1, <1>6, <1>7
  <2>2. ASSUME NEW i \in 1..(n - q), i - 1 \in T PROVE i \in T
    <3>1. h[q + i] = 10 * h[q + (i - 1)] + DigitValue(s[q + i])
      BY <1>3, <1>4
    <3>2. g[i] = 10 * g[i - 1] + DigitValue(s[q + i])
      BY <1>2, <1>6
    <3> QED
      BY <2>2, <3>1, <3>2
  <2> HIDE DEF T
  <2>3. n - q \in Nat
    BY <1>1
  <2>4. \A i \in 0..(n - q) : i \in T
    BY <2>1, <2>2, <2>3, UpTo
  <2>5. n - q \in T /\ q + (n - q) = n
    BY <1>1, <2>3, <2>4
  <2> QED
    BY <2>5 DEF T
<1> QED
  BY <1>2, <1>3, <1>6, <1>8 DEF n, r

(* The pieces that the parser cuts and joins are texts. *)
LEMMA TrimTexts ==
  ASSUME NEW S, NEW s \in Seq(S), NEW cut
  PROVE  TrimLeft(s, cut) \in Seq(S) /\ TrimRight(s, cut) \in Seq(S)
<1>1. Len(s) \in Nat /\ DOMAIN s = 1..Len(s) /\ \A i \in 1..Len(s) : s[i] \in S
  BY LenProperties
<1>2. CASE Keeps(s, cut) = {}
  BY <1>2, EmptySeq DEF TrimLeft, TrimRight
<1>3. CASE Keeps(s, cut) # {}
  <2>1. Keeps(s, cut) \in SUBSET (1..Len(s)) /\ Keeps(s, cut) \in SUBSET Nat
    BY <1>1 DEF Keeps
  <2>2. Min(Keeps(s, cut)) \in 1..Len(s) /\ Max(Keeps(s, cut)) \in 1..Len(s)
    BY <1>1, <1>3, <2>1, MinOfNat, MaxOfInterval
  <2>3. SubSeq(s, Min(Keeps(s, cut)), Len(s)) \in Seq(S)
    BY <1>1, <2>2, SubSeqProperties
  <2>4. SubSeq(s, 1, Max(Keeps(s, cut))) \in Seq(S)
    BY <1>1, <2>2, SubSeqProperties
  <2> QED
    BY <1>3, <2>3, <2>4 DEF TrimLeft, TrimRight
<1> QED
  BY <1>2, <1>3

LEMMA SplitTexts ==
  ASSUME NEW S, NEW s \in Seq(S)
  PROVE  IntPart(s) \in Seq(S) /\ FracPart(s) \in Seq(S)
<1>1. Len(s) \in Nat /\ DOMAIN s = 1..Len(s) /\ \A i \in 1..Len(s) : s[i] \in S
  BY LenProperties
<1>2. CASE Dots(s) = {}
  BY <1>2, EmptySeq DEF IntPart, FracPart
<1>3. CASE Dots(s) # {}
  <2>1. Dots(s) \in SUBSET (1..Len(s)) /\ Dots(s) \in SUBSET Nat
    BY <1>1 DEF Dots
  <2>2. Min(Dots(s)) \in 1..Len(s)
    BY <1>3, <2>1, MinOfNat
  <2>3. SubSeq(s, 1, Min(Dots(s)) - 1) \in Seq(S)
    BY <1>1, <2>2, SubSeqProperties
  <2>4. SubSeq(s, Min(Dots(s)) + 1, Len(s)) \in Seq(S)
    BY <1>1, <2>2, SubSeqProperties
  <2> QED
    BY <1>3, <2>3, <2>4 DEF IntPart, FracPart
<1> QED
  BY <1>2, <1>3

LEMMA ZerosText ==
  ASSUME NEW S, "0" \in S, NEW n \in Nat
  PROVE  Zeros(n) \in Seq(S)
<1>1. Zeros(n) \in [1..n -> S]
  BY DEF Zeros
<1>2. [1..n -> S] \subseteq Seq(S)
  BY SeqDef
<1> QED
  BY <1>1, <1>2

LEMMA OrZeroText ==
  ASSUME NEW S, "0" \in S, NEW s \in Seq(S)
  PROVE  OrZero(s) \in Seq(S)
<1>1. <<"0">> \in Seq({"0"})
  OBVIOUS
<1>2. Seq({"0"}) \subseteq Seq(S)
  BY SeqMonotonic
<1> QED
  BY <1>1, <1>2 DEF OrZero

(* big.Int.SetString yields an integer, or no number. *)
LEMMA SetStringType ==
  ASSUME NEW S, NEW s \in Seq(S)
  PROVE  SetString(s) \in [ok : BOOLEAN, value : Int]
<1>1. Unsigned(s) \in Seq(S)
  BY HeadTailProperties DEF Unsigned
<1>2. CASE Unsigned(s) = <<>> \/ \E i \in DOMAIN Unsigned(s) : ~ IsDigit(Unsigned(s)[i])
  BY <1>2 DEF SetString, Invalid
<1>3. CASE ~ (Unsigned(s) = <<>> \/ \E i \in DOMAIN Unsigned(s) : ~ IsDigit(Unsigned(s)[i]))
  <2>1. Horner(Unsigned(s)) \in Nat
    <3>1. Len(Unsigned(s)) \in Nat /\ DOMAIN Unsigned(s) = 1..Len(Unsigned(s))
      BY <1>1, LenProperties
    <3>2. \A i \in 1..Len(Unsigned(s)) : IsDigit(Unsigned(s)[i])
      BY <1>3, <3>1
    <3>3. Len(Unsigned(s)) \in 0..Len(Unsigned(s))
      BY <3>1
    <3> QED
      BY <1>1, <3>2, <3>3, HornerTable
  <2>2. PICK h : h = Horner(Unsigned(s))
    OBVIOUS
  <2>3. SetString(s) = Amount(IF s[1] = "-" THEN - h ELSE h)
    BY <1>3, <2>2 DEF SetString
  <2>4. - h \in Int /\ h \in Int
    BY <2>1, <2>2
  <2> QED
    BY <2>3, <2>4 DEF Amount
<1> QED
  BY <1>2, <1>3

(* ParseAmountToSmallestUnit returns an integer amount or an error, for    *)
(* every text and every number of decimals: every cut it makes lies within *)
(* the text, and strings.Repeat is never given a negative count, which     *)
(* would be a panic.                                                       *)
THEOREM ParseTotal ==
  ASSUME NEW C, NEW text \in Seq(C), NEW decimals \in Nat
  PROVE  ParseAmountToSmallestUnit(text, decimals) \in [ok : BOOLEAN, value : Int]
<1> DEFINE amount   == TrimSpace(text)
           frac     == FracPart(amount)
           combined == OrZero(IntPart(amount)) \o PadFraction(frac, decimals)
           refused  == \/ text = <<>>
                       \/ amount # <<>> /\ amount[1] = "-"
                       \/ TooPrecise(frac, decimals)
<1> DEFINE S == C \cup {"0"}
<1>0. "0" \in S /\ text \in Seq(S)
  BY SeqMonotonic
<1> HIDE DEF S
<1>1. amount \in Seq(S)
  BY <1>0, TrimTexts DEF TrimSpace
<1>2. frac \in Seq(S) /\ IntPart(amount) \in Seq(S)
  BY <1>1, SplitTexts
<1>3. CASE refused
  BY <1>3 DEF ParseAmountToSmallestUnit, Invalid
<1>4. CASE ~ refused
  <2>1. decimals - Len(frac) \in Nat
    <3>1. Len(frac) \in Nat /\ ~ (Len(frac) > decimals)
      BY <1>2, <1>4, LenProperties DEF TooPrecise
    <3> QED
      BY <3>1
  <2>2. PadFraction(frac, decimals) \in Seq(S)
    BY <1>0, <1>2, <2>1, ZerosText, ConcatProperties DEF PadFraction
  <2>3. combined \in Seq(S)
    BY <1>0, <1>2, <2>2, OrZeroText, ConcatProperties
  <2>4. SetString(OrZero(TrimLeft(combined, {"0"}))) \in [ok : BOOLEAN, value : Int]
    BY <1>0, <2>3, TrimTexts, OrZeroText, SetStringType
  <2> QED
    BY <1>4, <2>4 DEF ParseAmountToSmallestUnit
<1> QED
  BY <1>3, <1>4

-----------------------------------------------------------------------------
(* Powers of ten *)

LEMMA PowerTable ==
  ASSUME NEW n \in Nat
  PROVE  \E p \in [0..n -> Nat] : /\ p[0] = 1
                                  /\ \A i \in 1..n : p[i] = 10 * p[i - 1]
                                  /\ Power10(n) = p[n]
<1> DEFINE IsPower(g) == g = [i \in 0..n |-> IF i = 0 THEN 1 ELSE 10 * g[i - 1]]
           step == [i \in 1..n |-> [x \in Nat |-> 10 * x]]
           p == CHOOSE g : IsPower(g)
<1>1. \E g : IsPower(g)
  <2>1. PICK g \in [0..n -> Nat] : g[0] = 1 /\ \A i \in 1..n : g[i] = step[i][g[i - 1]]
    <3>1. step \in [1..n -> [Nat -> Nat]] /\ 1 \in Nat
      OBVIOUS
    <3> HIDE DEF step
    <3> QED
      BY <3>1, RecursionExists
  <2>2. ASSUME NEW i \in 1..n PROVE g[i] = 10 * g[i - 1]
    <3>1. i - 1 \in 0..n
      OBVIOUS
    <3> QED
      BY <2>1, <3>1
  <2>3. IsPower(g)
    BY <2>1, <2>2
  <2> QED
    BY <2>3
<1>2. IsPower(p)
  BY <1>1
<1>3. Power10(n) = p[n]
  BY DEF Power10
<1> HIDE DEF p
<1>4. 0 \in 0..n /\ \A i \in 1..n : i \in 0..n /\ i # 0 /\ i - 1 \in 0..n
  OBVIOUS
<1>5. p[0] = 1 /\ \A i \in 1..n : p[i] = 10 * p[i - 1]
  BY <1>2, <1>4
<1>6. p \in [0..n -> Nat]
  <2> DEFINE T == {i \in 0..n : p[i] \in Nat}
  <2>1. 0 \in T
    BY <1>4, <1>5
  <2>2. \A i \in 1..n : i - 1 \in T => i \in T
    BY <1>4, <1>5
  <2> HIDE DEF T
  <2>3. \A i \in 0..n : i \in T
    BY <2>1, <2>2, UpTo
  <2> QED
    BY <1>2, <2>3 DEF T
<1> QED
  BY <1>3, <1>5, <1>6

LEMMA Power10Zero == Power10(0) = 1
<1>1. 0 \in Nat
  OBVIOUS
<1> QED
  BY <1>1, PowerTable

LEMMA Power10Step ==
  ASSUME NEW n \in Nat
  PROVE  Power10(n) \in Nat /\ Power10(n + 1) = 10 * Power10(n)
<1>1. PICK p \in [0..n -> Nat] : /\ p[0] = 1
                                 /\ \A i \in 1..n : p[i] = 10 * p[i - 1]
                                 /\ Power10(n) = p[n]
  BY PowerTable
<1>2. n + 1 \in Nat /\ n + 1 \in 1..(n + 1) /\ (n + 1) - 1 = n /\ n \in 0..n
  OBVIOUS
<1>3. PICK q \in [0..(n + 1) -> Nat] : /\ q[0] = 1
                                       /\ \A i \in 1..(n + 1) : q[i] = 10 * q[i - 1]
                                       /\ Power10(n + 1) = q[n + 1]
  BY <1>2, PowerTable
<1> DEFINE T == {i \in 0..n : p[i] = q[i]}
<1>4. 0 \in T
  BY <1>1, <1>3
<1>5. ASSUME NEW i \in 1..n, i - 1 \in T PROVE i \in T
  <2>1. i \in 1..(n + 1)
    OBVIOUS
  <2> QED
    BY <1>1, <1>3, <1>5, <2>1
<1> HIDE DEF T
<1>6. \A i \in 0..n : i \in T
  BY <1>4, <1>5, UpTo
<1>7. p[n] = q[n]
  BY <1>2, <1>6 DEF T
<1>8. q[n + 1] = 10 * q[n]
  BY <1>2, <1>3
<1> QED
  BY <1>1, <1>2, <1>3, <1>7, <1>8

LEMMA Distributes ==
  ASSUME NEW a \in Nat, NEW b \in Nat, NEW c \in Nat
  PROVE  (10 * a + b) * c = a * (10 * c) + b * c /\ (10 * a) * c = a * (10 * c)
         /\ a * 1 = a /\ 0 * a = 0 /\ 10 * (a * b) = a * (10 * b) /\ a * b \in Nat
OBVIOUS

(* Zeros at the end multiply. *)
LEMMA ZerosMultiply ==
  ASSUME NEW n \in Nat, NEW h \in [0..n -> Nat], NEW q \in 0..n,
         \A i \in (q + 1)..n : h[i] = 10 * h[i - 1]
  PROVE  h[n] = h[q] * Power10(n - q)
<1> DEFINE T == {k \in 0..(n - q) : h[q + k] = h[q] * Power10(k)}
<1>1. n - q \in Nat /\ q + 0 = q /\ q + (n - q) = n /\ h[q] \in Nat
  OBVIOUS
<1>2. 0 \in T
  BY <1>1, Power10Zero
<1>3. ASSUME NEW k \in 1..(n - q), k - 1 \in T PROVE k \in T
  <2>1. q + k \in (q + 1)..n /\ q + k - 1 = q + (k - 1) /\ k - 1 \in Nat /\ (k - 1) + 1 = k
    OBVIOUS
  <2>2. h[q + k] = 10 * h[q + (k - 1)]
    BY <2>1
  <2>3. Power10(k) = 10 * Power10(k - 1) /\ Power10(k - 1) \in Nat
    BY <2>1, Power10Step
  <2>4. 10 * (h[q] * Power10(k - 1)) = h[q] * (10 * Power10(k - 1))
    BY <1>1, <2>3, Distributes
  <2> QED
    BY <1>3, <2>2, <2>3, <2>4
<1> HIDE DEF T
<1>4. \A k \in 0..(n - q) : k \in T
  BY <1>1, <1>2, <1>3, UpTo
<1>5. n - q \in T
  BY <1>1, <1>4
<1> QED
  BY <1>1, <1>5 DEF T

-----------------------------------------------------------------------------
(* What the parser hands to SetString, and where a character of the text   *)
(* ends up in it: the first i characters are within the first At(s, i).    *)
Combined(s, decimals) == OrZero(IntPart(s)) \o PadFraction(FracPart(s), decimals)

Lead(s)  == IF PointAt(s) = 1 THEN 1 ELSE 0
At(s, i) == Lead(s) + (IF i < PointAt(s) THEN i ELSE i - 1)

LEMMA PointMeans ==
  ASSUME NEW S, NEW s \in Seq(S)
  PROVE  /\ Len(s) \in Nat /\ PointAt(s) \in 1..(Len(s) + 1)
         /\ \A i \in 1..Len(s) : i < PointAt(s) => s[i] # "."
         /\ PointAt(s) <= Len(s) <=> Dots(s) # {}
         /\ Dots(s) # {} => PointAt(s) = Min(Dots(s)) /\ s[PointAt(s)] = "."
<1>1. Len(s) \in Nat /\ DOMAIN s = 1..Len(s)
  BY LenProperties
<1>2. CASE Dots(s) = {}
  BY <1>1, <1>2 DEF PointAt, Dots
<1>3. CASE Dots(s) # {}
  <2>1. Dots(s) \in SUBSET Nat /\ Dots(s) \in SUBSET (1..Len(s))
    BY <1>1 DEF Dots
  <2>2. PICK p : p = Min(Dots(s))
    OBVIOUS
  <2>3. p \in Dots(s) /\ \A k \in Dots(s) : p <= k
    BY <1>3, <2>1, <2>2, MinOfNat
  <2>4. PointAt(s) = p
    BY <1>3, <2>2 DEF PointAt
  <2>5. \A i \in 1..Len(s) : i < p => s[i] # "."
    BY <1>1, <2>1, <2>3 DEF Dots
  <2>6. s[p] = "." /\ p \in 1..Len(s)
    BY <1>1, <2>3 DEF Dots
  <2> QED
    BY <1>1, <1>3, <2>2, <2>4, <2>5, <2>6
<1> QED
  BY <1>2, <1>3

(* The text before the dot, as it is read. *)
LEMMA IntPartMeans ==
  ASSUME NEW S, "0" \in S, NEW s \in Seq(S)
  PROVE  LET int == OrZero(IntPart(s)) IN
         /\ int \in Seq(S) /\ Len(int) = Lead(s) + PointAt(s) - 1
         /\ \A i \in 1..(PointAt(s) - 1) : int[Lead(s) + i] = s[i]
         /\ Lead(s) = 1 => int[1] = "0"
<1>1. PICK p : p = PointAt(s)
  OBVIOUS
<1>2. Len(s) \in Nat /\ p \in 1..(Len(s) + 1) /\ DOMAIN s = 1..Len(s)
  BY <1>1, PointMeans, LenProperties
<1>3. IntPart(s) = SubSeq(s, 1, p - 1)
  <2>1. CASE Dots(s) = {}
    <3>1. p = Len(s) + 1 /\ p - 1 = Len(s)
      BY <1>1, <1>2, <2>1 DEF PointAt
    <3> QED
      BY <2>1, <3>1, SubSeqFull DEF IntPart
  <2>2. CASE Dots(s) # {}
    BY <1>1, <2>2 DEF IntPart, PointAt
  <2> QED
    BY <2>1, <2>2
<1>4. PICK r : r = IntPart(s)
  OBVIOUS
<1>5. /\ r \in Seq(S) /\ Len(r) = p - 1
      /\ \A i \in 1..(p - 1) : r[i] = s[i]
  <2>1. \A i \in 1..(p - 1) : s[i] \in S
    BY <1>2, LenProperties
  <2>2. 1 \in Int /\ p - 1 \in Int /\ (p - 1) - 1 + 1 = p - 1
    BY <1>2
  <2>3. /\ SubSeq(s, 1, p - 1) \in Seq(S)
        /\ Len(SubSeq(s, 1, p - 1)) = IF 1 <= p - 1 THEN (p - 1) - 1 + 1 ELSE 0
        /\ \A i \in 1..((p - 1) - 1 + 1) : SubSeq(s, 1, p - 1)[i] = s[1 + i - 1]
    BY <2>1, <2>2, SubSeqProperties
  <2>4. \A i \in 1..(p - 1) : 1 + i - 1 = i
    BY <1>2
  <2>5. (IF 1 <= p - 1 THEN (p - 1) - 1 + 1 ELSE 0) = p - 1
    BY <1>2
  <2> QED
    BY <1>3, <1>4, <2>2, <2>3, <2>4, <2>5
<1>6. CASE p = 1
  <2>1. r = <<>>
    BY <1>5, <1>6, EmptySeq
  <2>2. OrZero(IntPart(s)) = <<"0">>
    BY <1>4, <2>1 DEF OrZero
  <2>3. OrZero(IntPart(s)) \in Seq(S)
    BY <1>4, <1>5, OrZeroText
  <2>4. Lead(s) = 1
    BY <1>1, <1>6 DEF Lead
  <2>5. PICK o : o = OrZero(IntPart(s))
    OBVIOUS
  <2>6. Len(o) = 1 /\ o[1] = "0"
    BY <2>2, <2>5
  <2>7. \A i \in 1..(p - 1) : FALSE
    BY <1>6
  <2> QED
    BY <1>1, <1>6, <2>3, <2>4, <2>5, <2>6, <2>7
<1>7. CASE p # 1
  <2>1. r # <<>>
    <3>1. Len(r) # 0
      BY <1>2, <1>5, <1>7
    <3> QED
      BY <3>1, EmptySeq
  <2>2. OrZero(IntPart(s)) = r
    BY <1>4, <2>1 DEF OrZero
  <2>3. Lead(s) = 0
    BY <1>1, <1>7 DEF Lead
  <2>4. Len(r) = 0 + p - 1 /\ \A i \in 1..(p - 1) : r[0 + i] = s[i]
    BY <1>2, <1>5
  <2> QED
    BY <1>1, <1>5, <2>2, <2>3, <2>4
<1> QED
  BY <1>6, <1>7

(* The text after the dot, filled up to the unit of the token. *)
LEMMA FracPartMeans ==
  ASSUME NEW S, "0" \in S, NEW s \in Seq(S), NEW decimals \in Nat
  PROVE  /\ TooPrecise(FracPart(s), decimals) <=> ~ Representable(s, decimals)
         /\ Representable(s, decimals) =>
            LET frac == PadFraction(FracPart(s), decimals) IN
            /\ frac \in Seq(S) /\ Len(frac) = decimals
            /\ \A i \in (PointAt(s) + 1)..Len(s) : frac[i - PointAt(s)] = s[i]
            /\ \A j \in 1..decimals : j > Len(s) - PointAt(s) => frac[j] = "0"
<1>1. PICK p : p = PointAt(s)
  OBVIOUS
<1>2. PICK n : n = Len(s)
  OBVIOUS
<1>3. n \in Nat /\ p \in 1..(n + 1) /\ DOMAIN s = 1..n /\ \A i \in 1..n : s[i] \in S
  BY <1>1, <1>2, PointMeans, LenProperties
<1>4. PICK r : r = FracPart(s)
  OBVIOUS
<1>5. PICK m : m = IF p <= n THEN n - p ELSE 0
  OBVIOUS
<1>6. m \in Nat /\ r \in Seq(S) /\ Len(r) = m /\ \A i \in 1..m : r[i] = s[p + i]
  <2>1. CASE Dots(s) = {}
    <3>1. m = 0 /\ r = <<>>
      BY <1>1, <1>2, <1>3, <1>4, <1>5, <2>1, PointMeans DEF FracPart
    <3> QED
      BY <3>1, EmptySeq
  <2>2. CASE Dots(s) # {}
    <3>1. p <= n /\ r = SubSeq(s, p + 1, n)
      BY <1>1, <1>2, <1>4, <2>2, PointMeans DEF FracPart
    <3>2. p + 1 \in Int /\ n \in Int /\ n - (p + 1) + 1 = n - p /\ m = n - p
          /\ \A i \in (p + 1)..n : i \in 1..n
      BY <1>3, <1>5, <3>1
    <3>3. \A i \in (p + 1)..n : s[i] \in S
      BY <1>3, <3>2
    <3>4. /\ r \in Seq(S) /\ Len(r) = IF p + 1 <= n THEN n - (p + 1) + 1 ELSE 0
          /\ \A i \in 1..(n - (p + 1) + 1) : r[i] = s[p + 1 + i - 1]
      BY <3>1, <3>2, <3>3, SubSeqProperties
    <3>5. (IF p + 1 <= n THEN n - (p + 1) + 1 ELSE 0) = m
      BY <1>3, <3>1, <3>2
    <3>6. \A i \in 1..m : p + 1 + i - 1 = p + i
      BY <1>3
    <3>7. m \in Nat
      BY <1>3, <3>1, <3>2
    <3> QED
      BY <3>2, <3>4, <3>5, <3>6, <3>7
  <2> QED
    BY <2>1, <2>2
<1>7. TooPrecise(r, decimals) <=> ~ Representable(s, decimals)
  <2>1. (m > decimals) <=> ~ (n - p <= decimals)
    BY <1>3, <1>5
  <2> QED
    BY <1>1, <1>2, <1>6, <2>1 DEF TooPrecise, Representable
<1>8. ASSUME Representable(s, decimals)
      PROVE  /\ r \o Zeros(decimals - m) \in Seq(S)
             /\ Len(r \o Zeros(decimals - m)) = decimals
             /\ \A i \in (p + 1)..n : (r \o Zeros(decimals - m))[i - p] = s[i]
             /\ \A j \in 1..decimals :
                   j > n - p => (r \o Zeros(decimals - m))[j] = "0"
  <2>1. decimals - m \in Nat
    BY <1>1, <1>2, <1>3, <1>5, <1>8 DEF Representable
  <2>2. PICK k : k = decimals - m
    OBVIOUS
  <2>3. PICK z : z = Zeros(k)
    OBVIOUS
  <2>4. z \in Seq(S) /\ Len(z) = k /\ \A j \in 1..k : z[j] = "0"
    <3>1. z \in Seq(S)
      BY <2>1, <2>2, <2>3, ZerosText
    <3>2. DOMAIN z = 1..k /\ \A j \in 1..k : z[j] = "0"
      BY <2>3 DEF Zeros
    <3>3. Len(z) \in Nat /\ DOMAIN z = 1..Len(z)
      BY <3>1, LenProperties
    <3>4. Len(z) = k
      BY <2>1, <2>2, <3>2, <3>3
    <3> QED
      BY <3>1, <3>2, <3>4
  <2>5. /\ r \o z \in Seq(S) /\ Len(r \o z) = m + k
        /\ \A j \in 1..(m + k) : (r \o z)[j] = IF j <= m THEN r[j] ELSE z[j - m]
    BY <1>6, <2>4, ConcatProperties
  <2>6. PICK f : f = r \o z
    OBVIOUS
  <2>7. m + k = decimals
    BY <1>6, <2>2
  <2>8. ASSUME NEW i \in (p + 1)..n PROVE f[i - p] = s[i]
    <3>1. i - p \in 1..m /\ i - p \in 1..(m + k) /\ p + (i - p) = i
      BY <1>3, <1>5, <2>1, <2>2
    <3> QED
      BY <1>6, <2>5, <2>6, <3>1
  <2>9. ASSUME NEW j \in 1..decimals, j > n - p PROVE f[j] = "0"
    <3>1. j \in 1..(m + k) /\ j \in Nat /\ j # 0
      BY <2>7
    <3>2. ~ (j <= m)
      BY <1>3, <1>5, <2>9, <3>1
    <3>3. j - m \in 1..k
      BY <1>6, <2>1, <2>2, <3>1, <3>2
    <3> QED
      BY <2>4, <2>5, <2>6, <3>1, <3>2, <3>3
  <2> QED
    BY <2>2, <2>3, <2>5, <2>6, <2>7, <2>8, <2>9
<1> QED
  BY <1>1, <1>2, <1>4, <1>6, <1>7, <1>8 DEF PadFraction

LEMMA CombinedMeans ==
  ASSUME NEW S, "0" \in S, NEW s \in Seq(S), NEW decimals \in Nat, Representable(s, decimals)
  PROVE  LET c == Combined(s, decimals) IN
         /\ c \in Seq(S) /\ Len(c) = Lead(s) + PointAt(s) - 1 + decimals
         /\ \A i \in 1..Len(s) : i # PointAt(s) =>
               At(s, i) \in 1..Len(c) /\ c[At(s, i)] = s[i]
         /\ At(s, Len(s)) \in 0..Len(c)
         /\ \A j \in 1..Len(c) : j <= At(s, 0) \/ At(s, Len(s)) < j => c[j] = "0"
<1>1. PICK p : p = PointAt(s)
  OBVIOUS
<1>2. PICK n : n = Len(s)
  OBVIOUS
<1>3. PICK z : z = Lead(s)
  OBVIOUS
<1>4. n \in Nat /\ p \in 1..(n + 1) /\ z \in {0, 1}
  BY <1>1, <1>2, <1>3, PointMeans DEF Lead
<1>5. PICK int : int = OrZero(IntPart(s))
  OBVIOUS
<1>6. PICK frac : frac = PadFraction(FracPart(s), decimals)
  OBVIOUS
<1>7. PICK c : c = Combined(s, decimals)
  OBVIOUS
<1>8. /\ int \in Seq(S) /\ Len(int) = z + p - 1
      /\ \A i \in 1..(p - 1) : int[z + i] = s[i]
      /\ z = 1 => int[1] = "0"
  BY <1>1, <1>3, <1>5, IntPartMeans
<1>9. /\ frac \in Seq(S) /\ Len(frac) = decimals
      /\ \A i \in (p + 1)..n : frac[i - p] = s[i]
      /\ \A j \in 1..decimals : j > n - p => frac[j] = "0"
  BY <1>1, <1>2, <1>6, FracPartMeans
<1>10. PICK w : w = z + p - 1
  OBVIOUS
<1>11. w \in Nat /\ Len(int) = w
  BY <1>4, <1>8, <1>10
<1>12. /\ c \in Seq(S) /\ Len(c) = w + decimals
       /\ \A j \in 1..(w + decimals) : c[j] = IF j <= w THEN int[j] ELSE frac[j - w]
  <2>1. c = int \o frac
    BY <1>5, <1>6, <1>7 DEF Combined
  <2> QED
    BY <1>8, <1>9, <1>11, <2>1, ConcatProperties
<1>13. n - p <= decimals
  BY <1>1, <1>2 DEF Representable
<1>14. ASSUME NEW i \in 1..n, i # p
       PROVE  At(s, i) \in 1..Len(c) /\ c[At(s, i)] = s[i]
  <2>1. CASE i < p
    <3>1. At(s, i) = z + i /\ i \in 1..(p - 1)
      BY <1>1, <1>3, <1>4, <2>1 DEF At
    <3>2. z + i \in 1..(w + decimals) /\ z + i <= w
      BY <1>4, <1>10, <3>1
    <3>3. c[z + i] = int[z + i] /\ int[z + i] = s[i]
      BY <1>8, <1>12, <3>1, <3>2
    <3> QED
      BY <1>12, <3>1, <3>2, <3>3
  <2>2. CASE i > p
    <3>1. PICK j : j = z + (i - 1)
      OBVIOUS
    <3>2. At(s, i) = j /\ i \in (p + 1)..n
      BY <1>1, <1>3, <1>4, <2>2, <3>1 DEF At
    <3>3. j \in 1..(w + decimals) /\ ~ (j <= w) /\ j - w = i - p
      BY <1>4, <1>10, <1>13, <3>1, <3>2
    <3>4. c[j] = frac[i - p]
      BY <1>12, <3>3
    <3>5. frac[i - p] = s[i]
      BY <1>9, <3>2
    <3> QED
      BY <1>12, <3>2, <3>3, <3>4, <3>5
  <2> QED
    BY <1>4, <1>14, <2>1, <2>2
<1>15. PICK e : e = At(s, n)
  OBVIOUS
<1>16. e = IF p = n + 1 THEN z + n ELSE z + n - 1
  BY <1>1, <1>3, <1>4, <1>15 DEF At
<1>17. e \in 0..(w + decimals)
  BY <1>4, <1>10, <1>13, <1>16
<1>18. At(s, 0) = z
  BY <1>1, <1>3, <1>4 DEF At
<1>19. ASSUME NEW j \in 1..(w + decimals), j <= z PROVE c[j] = "0"
  <2>1. z = 1 /\ j = 1 /\ j <= w
    BY <1>4, <1>10, <1>19
  <2> QED
    BY <1>8, <1>12, <2>1
<1>20. ASSUME NEW j \in 1..(w + decimals), e < j PROVE c[j] = "0"
  <2>1. ~ (j <= w) /\ j - w \in 1..decimals /\ j - w > n - p
    BY <1>4, <1>10, <1>16, <1>20
  <2> QED
    BY <1>9, <1>12, <2>1
<1> QED
  BY <1>1, <1>2, <1>3, <1>7, <1>10, <1>12, <1>14, <1>15, <1>17, <1>18, <1>19, <1>20

-----------------------------------------------------------------------------
(* The value of a decimal text *)

LEMMA DigitChars ==
  ASSUME NEW c, IsDigit(c)
  PROVE  c # "." /\ c # "+" /\ c # "-"
BY DEF IsDigit, Digits

LEMMA ZeroDigit == IsDigit("0") /\ DigitValue("0") = 0
<1>1. DOMAIN Digits = 1..10 /\ Digits[1] = "0"
  BY DEF Digits
<1>2. \A i \in 1..10 : Digits[i] = "0" => i = 1
  BY DEF Digits
<1>3. (CHOOSE i \in DOMAIN Digits : Digits[i] = "0") = 1
  BY <1>1, <1>2
<1> QED
  BY <1>1, <1>3 DEF IsDigit, DigitValue

(* Every character but the first dot is a digit. *)
PlainDigits(s) == \A i \in 1..Len(s) : i # PointAt(s) => IsDigit(s[i])

LEMMA PlainMeans ==
  ASSUME NEW S, NEW s \in Seq(S)
  PROVE  Plain(s) <=> PlainDigits(s)
<1>1. Len(s) \in Nat /\ DOMAIN s = 1..Len(s) /\ Dots(s) \in SUBSET (1..Len(s))
  BY LenProperties DEF Dots
<1>2. IsFiniteSet(Dots(s)) /\ Cardinality(Dots(s)) \in Nat
  <2>1. IsFiniteSet(1..Len(s))
    BY <1>1, FS_Interval
  <2> QED
    BY <1>1, <2>1, FS_Subset, FS_CardinalityType
<1>3. ASSUME Plain(s) PROVE PlainDigits(s)
  <2> SUFFICES ASSUME NEW i \in 1..Len(s), i # PointAt(s), s[i] = "." PROVE FALSE
    BY <1>1, <1>3 DEF Plain, PlainDigits
  <2>1. i \in Dots(s) /\ PointAt(s) \in Dots(s)
    <3>1. i \in Dots(s)
      BY <1>1 DEF Dots
    <3>2. PointAt(s) \in 1..Len(s) /\ s[PointAt(s)] = "."
      BY <1>1, <3>1, PointMeans
    <3> QED
      BY <1>1, <3>1, <3>2 DEF Dots
  <2>2. Cardinality(Dots(s)) # 0
    BY <1>2, <2>1, FS_EmptySet
  <2>3. Cardinality(Dots(s)) = 1
    BY <1>2, <1>3, <2>2 DEF Plain
  <2>4. PICK x : Dots(s) = {x}
    BY <1>2, <2>3, FS_Singleton
  <2> QED
    BY <2>1, <2>4
<1>4. ASSUME PlainDigits(s) PROVE Plain(s)
  <2>1. \A i \in 1..Len(s) : IsDigit(s[i]) \/ s[i] = "."
    <3>1. ASSUME NEW i \in 1..Len(s), i = PointAt(s) PROVE s[i] = "."
      <4>1. PointAt(s) <= Len(s)
        BY <1>1, <3>1
      <4> QED
        BY <3>1, <4>1, PointMeans
    <3> QED
      BY <1>4, <3>1 DEF PlainDigits
  <2>2. Dots(s) \subseteq {PointAt(s)}
    BY <1>1, <1>4, DigitChars DEF PlainDigits, Dots
  <2>3. Dots(s) = {} \/ Dots(s) = {PointAt(s)}
    BY <2>2
  <2>4. Cardinality(Dots(s)) = 0 \/ Cardinality(Dots(s)) = 1
    BY <2>3, FS_EmptySet, FS_Singleton
  <2> QED
    BY <1>1, <2>1, <2>4 DEF Plain
<1> QED
  BY <1>3, <1>4

(* What the reference has summed up after each character. *)
LEMMA ValueTable ==
  ASSUME NEW decimals, NEW s, Len(s) \in Nat,
         \A i \in 1..Len(s) : Counts(s, i, decimals) \in Nat
  PROVE  \E g \in [0..Len(s) -> Nat] :
            /\ g[0] = 0
            /\ \A i \in 1..Len(s) : g[i] = g[i - 1] + Counts(s, i, decimals)
            /\ ValueOf(s, decimals) = g[Len(s)]
<1> DEFINE n == Len(s)
           IsSum(g) ==
             g = [i \in 0..n |-> IF i = 0 THEN 0 ELSE g[i - 1] + Counts(s, i, decimals)]
           step == [i \in 1..n |-> [x \in Nat |-> x + Counts(s, i, decimals)]]
           v == CHOOSE g : IsSum(g)
<1>1. \E g : IsSum(g)
  <2>1. PICK g \in [0..n -> Nat] : g[0] = 0 /\ \A i \in 1..n : g[i] = step[i][g[i - 1]]
    <3>1. ASSUME NEW i \in 1..n PROVE [x \in Nat |-> x + Counts(s, i, decimals)] \in [Nat -> Nat]
      <4>1. Counts(s, i, decimals) \in Nat
        OBVIOUS
      <4> QED
        BY <4>1
    <3>2. step \in [1..n -> [Nat -> Nat]]
      BY <3>1
    <3>3. n \in Nat /\ 0 \in Nat
      OBVIOUS
    <3> HIDE DEF n, step
    <3> QED
      BY <3>2, <3>3, RecursionExists
  <2>2. ASSUME NEW i \in 1..n PROVE g[i] = g[i - 1] + Counts(s, i, decimals)
    <3>1. i - 1 \in 0..n
      OBVIOUS
    <3> QED
      BY <2>1, <3>1
  <2>3. \A i \in 0..n : i # 0 => i \in 1..n
    OBVIOUS
  <2>4. IsSum(g)
    BY <2>1, <2>2, <2>3
  <2> QED
    BY <2>4
<1>2. IsSum(v)
  BY <1>1
<1>3. ValueOf(s, decimals) = v[n]
  BY DEF ValueOf
<1> HIDE DEF v
<1>4. 0 \in 0..n /\ \A i \in 1..n : i \in 0..n /\ i # 0 /\ i - 1 \in 0..n
  OBVIOUS
<1>5. v[0] = 0 /\ \A i \in 1..n : v[i] = v[i - 1] + Counts(s, i, decimals)
  BY <1>2, <1>4
<1>6. v \in [0..n -> Nat]
  <2> DEFINE T == {i \in 0..n : v[i] \in Nat}
  <2>1. 0 \in T
    BY <1>4, <1>5
  <2>2. ASSUME NEW i \in 1..n, i - 1 \in T PROVE i \in T
    <3>1. Counts(s, i, decimals) \in Nat
      OBVIOUS
    <3> QED
      BY <1>4, <1>5, <2>2, <3>1
  <2> HIDE DEF T
  <2>3. \A i \in 0..n : i \in T
    BY <2>1, <2>2, UpTo
  <2> QED
    BY <1>2, <2>3 DEF T
<1> QED
  BY <1>3, <1>5, <1>6

(* Each character of a text counts what its place in Combined says. *)
LEMMA PlaceMeans ==
  ASSUME NEW S, NEW s \in Seq(S), NEW decimals \in Nat,
         Representable(s, decimals),
         NEW i \in 1..Len(s), NEW n, n = Lead(s) + PointAt(s) - 1 + decimals
  PROVE  /\ At(s, i) \in Nat /\ At(s, i - 1) \in Nat
         /\ i = PointAt(s) => At(s, i) = At(s, i - 1)
         /\ i # PointAt(s) => /\ At(s, i - 1) = At(s, i) - 1 /\ At(s, i) # 0
                              /\ n - At(s, i) = Weight(s, i, decimals)
                              /\ Weight(s, i, decimals) \in Nat
                              /\ n - At(s, i - 1) = Weight(s, i, decimals) + 1
<1>1. PICK p : p = PointAt(s)
  OBVIOUS
<1>2. PICK m : m = Len(s)
  OBVIOUS
<1>3. PICK z : z = Lead(s)
  OBVIOUS
<1>4. PICK d : d = decimals
  OBVIOUS
<1>5. /\ m \in Nat /\ p \in 1..(m + 1) /\ z \in {0, 1} /\ d \in Nat
      /\ i \in 1..m /\ m - p <= d
  BY <1>1, <1>2, <1>3, <1>4, PointMeans DEF Lead, Representable
<1>6. /\ At(s, i) = z + IF i < p THEN i ELSE i - 1
      /\ At(s, i - 1) = z + IF i - 1 < p THEN i - 1 ELSE (i - 1) - 1
  BY <1>1, <1>3 DEF At
<1>7. Weight(s, i, decimals) = IF i < p THEN d + p - 1 - i ELSE d + p - i
  BY <1>1, <1>4 DEF Weight
<1>8. n = z + p - 1 + d
  BY <1>1, <1>3, <1>4
<1>9. PICK a : a = At(s, i)
  OBVIOUS
<1>10. PICK b : b = At(s, i - 1)
  OBVIOUS
<1>11. PICK w : w = Weight(s, i, decimals)
  OBVIOUS
<1>12. /\ a \in Nat /\ b \in Nat
       /\ i = p => a = b
       /\ i # p => b = a - 1 /\ a # 0 /\ n - a = w /\ w \in Nat /\ n - b = w + 1
  <2>1. CASE i < p
    <3>1. a = z + i /\ b = z + (i - 1) /\ w = d + p - 1 - i
      BY <1>5, <1>6, <1>7, <1>9, <1>10, <1>11, <2>1
    <3> QED
      BY <1>5, <1>8, <2>1, <3>1
  <2>2. CASE i = p
    <3>1. a = z + (i - 1) /\ b = z + (i - 1)
      BY <1>5, <1>6, <1>9, <1>10, <2>2
    <3> QED
      BY <1>5, <2>2, <3>1
  <2>3. CASE i > p
    <3>1. a = z + (i - 1) /\ b = z + (i - 1 - 1) /\ w = d + p - i
      BY <1>5, <1>6, <1>7, <1>9, <1>10, <1>11, <2>3
    <3> QED
      BY <1>5, <1>8, <2>3, <3>1
  <2> QED
    BY <1>5, <2>1, <2>2, <2>3
<1> QED
  BY <1>1, <1>9, <1>10, <1>11, <1>12

(* Horner's recursion over what the parser puts together yields what       *)
(* positional notation says: after i characters it has read the reference's *)
(* sum but for the power of ten that the rest of the digits contributes.   *)
LEMMA ValueOfDigits ==
  ASSUME NEW S, "0" \in S, NEW s \in Seq(S), NEW decimals \in Nat,
         Representable(s, decimals),
         PlainDigits(s)
  PROVE  /\ \A j \in 1..Len(Combined(s, decimals)) : IsDigit(Combined(s, decimals)[j])
         /\ Horner(Combined(s, decimals)) = ValueOf(s, decimals)
<1>1. PICK c : c = Combined(s, decimals)
  OBVIOUS
<1>2. PICK n : n = Len(c)
  OBVIOUS
<1>3. PICK m : m = Len(s)
  OBVIOUS
<1>4. /\ c \in Seq(S) /\ n = Lead(s) + PointAt(s) - 1 + decimals
      /\ \A i \in 1..m : i # PointAt(s) => At(s, i) \in 1..n /\ c[At(s, i)] = s[i]
      /\ At(s, m) \in 0..n
      /\ \A j \in 1..n : j <= At(s, 0) \/ At(s, m) < j => c[j] = "0"
  BY <1>1, <1>2, <1>3, CombinedMeans
<1>5. /\ m \in Nat /\ n \in Nat
      /\ PointAt(s) \in 1..(m + 1) /\ (PointAt(s) <= m => s[PointAt(s)] = ".")
  BY <1>2, <1>3, <1>4, PointMeans, LenProperties
<1>6. ASSUME NEW i \in 1..m
      PROVE  /\ At(s, i) \in Nat /\ At(s, i - 1) \in Nat
             /\ i = PointAt(s) => At(s, i) = At(s, i - 1)
             /\ i # PointAt(s) => /\ At(s, i - 1) = At(s, i) - 1 /\ At(s, i) # 0
                                  /\ n - At(s, i) = Weight(s, i, decimals)
                                  /\ Weight(s, i, decimals) \in Nat
                                  /\ n - At(s, i - 1) = Weight(s, i, decimals) + 1
  BY <1>3, <1>4, PlaceMeans
<1>7. At(s, 0) = Lead(s) /\ At(s, 0) \in {0, 1}
  BY <1>5 DEF At, Lead
<1>8. \A j \in 1..n : IsDigit(c[j])
  <2> DEFINE T == {i \in 0..m : \A j \in 1..n : j <= At(s, i) => IsDigit(c[j])}
  <2>1. 0 \in T
    BY <1>4, <1>5, ZeroDigit
  <2>2. ASSUME NEW i \in 1..m, i - 1 \in T PROVE i \in T
    <3>1. CASE i = PointAt(s)
      BY <1>6, <2>2, <3>1
    <3>2. CASE i # PointAt(s)
      <4>1. IsDigit(c[At(s, i)])
        BY <1>3, <1>4, <3>2 DEF PlainDigits
      <4>2. \A j \in 1..n : j <= At(s, i) => j <= At(s, i - 1) \/ j = At(s, i)
        BY <1>6, <3>2
      <4> QED
        BY <2>2, <4>1, <4>2
    <3> QED
      BY <3>1, <3>2
  <2> HIDE DEF T
  <2>3. \A i \in 0..m : i \in T
    BY <1>5, <2>1, <2>2, UpTo
  <2>4. m \in T
    BY <1>5, <2>3
  <2>5. \A j \in 1..n : j <= At(s, m) \/ At(s, m) < j
    BY <1>4
  <2> QED
    BY <1>4, <2>4, <2>5, ZeroDigit DEF T
<1>9. PICK h \in [0..n -> Nat] :
             /\ h[0] = 0
             /\ \A j \in 1..n : h[j] = 10 * h[j - 1] + DigitValue(c[j])
             /\ Horner(c) = h[n]
  BY <1>2, <1>4, <1>8, HornerTable
<1>10. ASSUME NEW i \in 1..m, i # PointAt(s)
       PROVE  /\ DigitValue(s[i]) \in Nat /\ Power10(Weight(s, i, decimals)) \in Nat
              /\ Counts(s, i, decimals) = DigitValue(s[i]) * Power10(Weight(s, i, decimals))
              /\ Counts(s, i, decimals) \in Nat
  <2>1. IsDigit(s[i]) /\ s[i] # "."
    BY <1>3, <1>10, DigitChars DEF PlainDigits
  <2>2. DigitValue(s[i]) \in Nat /\ Power10(Weight(s, i, decimals)) \in Nat
    <3>1. DigitValue(s[i]) \in 0..9
      BY <2>1, DigitRange
    <3>2. PICK w : w = Weight(s, i, decimals)
      OBVIOUS
    <3>3. w \in Nat
      BY <1>6, <1>10, <3>2
    <3>4. Power10(w) \in Nat
      BY <3>3, Power10Step
    <3> QED
      BY <3>1, <3>2, <3>4
  <2>3. Counts(s, i, decimals) = DigitValue(s[i]) * Power10(Weight(s, i, decimals))
    BY <2>1 DEF Counts
  <2> QED
    BY <2>2, <2>3, Distributes
<1>11. ASSUME NEW i \in 1..m, i = PointAt(s) PROVE Counts(s, i, decimals) = 0
  BY <1>5, <1>11 DEF Counts
<1>12. PICK g \in [0..m -> Nat] :
             /\ g[0] = 0
             /\ \A i \in 1..m : g[i] = g[i - 1] + Counts(s, i, decimals)
             /\ ValueOf(s, decimals) = g[m]
  <2>1. \A i \in 1..m : Counts(s, i, decimals) \in Nat
    BY <1>10, <1>11
  <2> QED
    BY <1>3, <1>5, <2>1, ValueTable
<1> DEFINE T == {i \in 0..m : /\ At(s, i) \in 0..n
                              /\ g[i] = h[At(s, i)] * Power10(n - At(s, i))}
<1>13. 0 \in T
  <2>1. At(s, 0) \in 0..n
    BY <1>4, <1>5, <1>7
  <2>2. h[At(s, 0)] = 0
    <3>1. CASE At(s, 0) = 0
      BY <1>9, <3>1
    <3>2. CASE At(s, 0) = 1
      <4>1. c[1] = "0" /\ 1 \in 1..n
        BY <1>4, <2>1, <3>2
      <4>2. h[1] = 10 * h[0] + 0
        BY <1>9, <4>1, ZeroDigit
      <4> QED
        BY <1>9, <3>2, <4>2
    <3> QED
      BY <1>7, <3>1, <3>2
  <2>3. n - At(s, 0) \in Nat
    <3>1. PICK a : a = At(s, 0)
      OBVIOUS
    <3>2. n - a \in Nat
      BY <1>5, <2>1, <3>1
    <3> QED
      BY <3>1, <3>2
  <2>4. Power10(n - At(s, 0)) \in Nat
    BY <2>3, Power10Step
  <2>5. 0 * Power10(n - At(s, 0)) = 0
    BY <2>4, Distributes
  <2>6. 0 \in 0..m
    BY <1>5
  <2> QED
    BY <1>12, <2>1, <2>2, <2>5, <2>6
<1>14. ASSUME NEW i \in 1..m, i - 1 \in T PROVE i \in T
  <2>1. g[i] = g[i - 1] + Counts(s, i, decimals) /\ g[i - 1] \in Nat
    <3>1. i - 1 \in 0..m
      BY <1>5
    <3> QED
      BY <1>12, <3>1
  <2>2. CASE i = PointAt(s)
    <3>1. g[i] = g[i - 1]
      BY <1>11, <2>1, <2>2
    <3> QED
      BY <1>6, <1>14, <2>2, <3>1
  <2>3. CASE i # PointAt(s)
    <3>1. PICK a : a = At(s, i)
      OBVIOUS
    <3>2. PICK w : w = Weight(s, i, decimals)
      OBVIOUS
    <3>3. /\ a \in 1..n /\ At(s, i - 1) = a - 1 /\ n - a = w /\ w \in Nat
          /\ n - (a - 1) = w + 1 /\ c[a] = s[i]
      BY <1>4, <1>6, <2>3, <3>1, <3>2
    <3>4. PICK x : x = h[a - 1]
      OBVIOUS
    <3>5. PICK v : v = DigitValue(s[i])
      OBVIOUS
    <3>6. PICK t : t = Power10(w)
      OBVIOUS
    <3>7. x \in Nat /\ v \in Nat /\ t \in Nat
      <4>1. a - 1 \in 0..n
        BY <1>5, <3>3
      <4> QED
        BY <1>9, <1>10, <2>3, <3>2, <3>4, <3>5, <3>6, <4>1
    <3>8. h[a] = 10 * x + v
      BY <1>9, <3>3, <3>4, <3>5
    <3>9. g[i - 1] = x * (10 * t)
      <4>1. g[i - 1] = x * Power10(w + 1)
        BY <1>14, <3>3, <3>4
      <4>2. Power10(w + 1) = 10 * t
        BY <3>3, <3>6, Power10Step
      <4> QED
        BY <4>1, <4>2
    <3>10. g[i] = x * (10 * t) + v * t
      BY <1>10, <2>1, <2>3, <3>2, <3>5, <3>6, <3>9
    <3>11. (10 * x + v) * t = x * (10 * t) + v * t
      BY <3>7, Distributes
    <3>12. g[i] = h[a] * Power10(n - a)
      BY <3>3, <3>6, <3>8, <3>10, <3>11
    <3>13. a \in 0..n /\ i \in 0..m
      BY <3>3
    <3> QED
      BY <3>1, <3>12, <3>13
  <2> QED
    BY <2>2, <2>3
<1> HIDE DEF T
<1>15. \A i \in 0..m : i \in T
  BY <1>5, <1>13, <1>14, UpTo
<1>16. PICK e : e = At(s, m)
  OBVIOUS
<1>17. e \in 0..n /\ g[m] = h[e] * Power10(n - e)
  BY <1>5, <1>15, <1>16 DEF T
<1>18. ASSUME NEW j \in (e + 1)..n PROVE h[j] = 10 * h[j - 1]
  <2>1. j \in 1..n /\ e < j /\ j - 1 \in 0..n
    BY <1>5, <1>17
  <2>2. DigitValue(c[j]) = 0
    BY <1>4, <1>16, <2>1, ZeroDigit
  <2> QED
    BY <1>9, <2>1, <2>2
<1>19. h[n] = h[e] * Power10(n - e)
  BY <1>5, <1>17, <1>18, ZerosMultiply
<1> QED
  BY <1>1, <1>2, <1>8, <1>9, <1>12, <1>17, <1>19

-----------------------------------------------------------------------------
(* Parsing *)

LEMMA TrimZeros ==
  ASSUME NEW S, NEW c \in Seq(S)
  PROVE  \E q \in 0..Len(c) :
            /\ \A i \in 1..q : c[i] = "0"
            /\ q = Len(c) => TrimLeft(c, {"0"}) = <<>>
            /\ q # Len(c) => /\ q + 1 \in 1..Len(c) /\ c[q + 1] # "0"
                             /\ TrimLeft(c, {"0"}) = SubSeq(c, q + 1, Len(c))
<1>1. Len(c) \in Nat /\ DOMAIN c = 1..Len(c)
  BY LenProperties
<1>2. Keeps(c, {"0"}) \in SUBSET (1..Len(c)) /\ Keeps(c, {"0"}) \in SUBSET Nat
  BY <1>1 DEF Keeps
<1>3. CASE Keeps(c, {"0"}) = {}
  <2>1. \A i \in 1..Len(c) : c[i] = "0"
    BY <1>1, <1>3 DEF Keeps
  <2>2. Len(c) \in 0..Len(c)
    BY <1>1
  <2> QED
    BY <1>3, <2>1, <2>2 DEF TrimLeft
<1>4. CASE Keeps(c, {"0"}) # {}
  <2>1. PICK m : m = Min(Keeps(c, {"0"}))
    OBVIOUS
  <2>2. m \in Keeps(c, {"0"}) /\ \A k \in Keeps(c, {"0"}) : m <= k
    BY <1>2, <1>4, <2>1, MinOfNat
  <2>3. m \in 1..Len(c) /\ c[m] # "0"
    BY <1>1, <2>2 DEF Keeps
  <2>4. \A i \in 1..(m - 1) : c[i] = "0"
    <3> SUFFICES ASSUME NEW i \in 1..(m - 1), c[i] # "0" PROVE FALSE
      OBVIOUS
    <3>1. i \in 1..Len(c) /\ ~ (m <= i)
      BY <1>1, <2>3
    <3>2. i \in Keeps(c, {"0"})
      BY <1>1, <3>1 DEF Keeps
    <3> QED
      BY <2>2, <3>1, <3>2
  <2>5. TrimLeft(c, {"0"}) = SubSeq(c, m, Len(c))
    BY <1>4, <2>1 DEF TrimLeft
  <2>6. PICK q : q = m - 1
    OBVIOUS
  <2>7. q \in 0..Len(c) /\ q # Len(c) /\ q + 1 = m
    BY <1>1, <2>3, <2>6
  <2>8. /\ q + 1 \in 1..Len(c) /\ c[q + 1] # "0"
        /\ TrimLeft(c, {"0"}) = SubSeq(c, q + 1, Len(c))
    BY <2>3, <2>5, <2>7
  <2>9. \A i \in 1..q : c[i] = "0"
    BY <2>4, <2>6
  <2> QED
    BY <2>7, <2>8, <2>9
<1> QED
  BY <1>3, <1>4

(* SetString of digits. *)
LEMMA SetStringDigits ==
  ASSUME NEW S, NEW u \in Seq(S), u # <<>>, \A i \in 1..Len(u) : IsDigit(u[i])
  PROVE  SetString(u) = Amount(Horner(u))
<1>1. DOMAIN u = 1..Len(u) /\ Len(u) \in Nat \ {0}
  BY LenProperties, EmptySeq
<1>2. IsDigit(u[1])
  BY <1>1
<1>3. u[1] # "+" /\ u[1] # "-"
  BY <1>2, DigitChars
<1>4. Unsigned(u) = u
  BY <1>3 DEF Unsigned
<1> QED
  BY <1>1, <1>3, <1>4 DEF SetString

(* Zeros in front of a digit, and the zero that stands for no digit at     *)
(* all, make no difference.                                                *)
LEMMA DigitsParsed ==
  ASSUME NEW S, "0" \in S, NEW c \in Seq(S), \A i \in 1..Len(c) : IsDigit(c[i])
  PROVE  SetString(OrZero(TrimLeft(c, {"0"}))) = Amount(Horner(c))
<1>1. PICK q \in 0..Len(c) :
            /\ \A i \in 1..q : c[i] = "0"
            /\ q = Len(c) => TrimLeft(c, {"0"}) = <<>>
            /\ q # Len(c) => /\ q + 1 \in 1..Len(c) /\ c[q + 1] # "0"
                             /\ TrimLeft(c, {"0"}) = SubSeq(c, q + 1, Len(c))
  BY TrimZeros
<1>2. Len(c) \in Nat
  BY LenProperties
<1>3. \A i \in 1..q : DigitValue(c[i]) = 0
  BY <1>1, ZeroDigit
<1>4. PICK r : r = SubSeq(c, q + 1, Len(c))
  OBVIOUS
<1>5. Horner(r) = Horner(c)
  BY <1>3, <1>4, HornerTrims
<1>6. PICK u : u = OrZero(TrimLeft(c, {"0"}))
  OBVIOUS
<1>7. /\ u \in Seq(S) /\ u # <<>> /\ Horner(u) = Horner(c)
      /\ \A i \in 1..Len(u) : IsDigit(u[i])
  <2>1. CASE q = Len(c)
    <3>1. u = <<"0">> /\ u \in Seq(S)
      <4>1. TrimLeft(c, {"0"}) = <<>> /\ <<>> \in Seq(S)
        BY <1>1, <2>1, EmptySeq
      <4>2. OrZero(<<>>) \in Seq(S)
        BY <4>1, OrZeroText
      <4> QED
        BY <1>6, <4>1, <4>2 DEF OrZero
    <3>2. Len(u) = 1 /\ u[1] = "0"
      BY <3>1
    <3>3. r = <<>>
      BY <1>2, <1>4, <2>1, SubSeqEmpty
    <3>4. Horner(SubSeq(u, 2, 1)) = Horner(u)
      <4>1. \A i \in 1..Len(u) : IsDigit(u[i]) /\ DigitValue(u[i]) = 0
        BY <3>2, ZeroDigit
      <4>2. PICK k : k = 1
        OBVIOUS
      <4>3. k \in 0..Len(u) /\ \A i \in 1..k : DigitValue(u[i]) = 0
        BY <3>2, <4>1, <4>2
      <4>4. Horner(SubSeq(u, k + 1, Len(u))) = Horner(u)
        BY <3>1, <4>1, <4>3, HornerTrims
      <4>5. k + 1 = 2 /\ Len(u) = 1
        BY <3>2, <4>2
      <4> QED
        BY <4>4, <4>5
    <3>5. SubSeq(u, 2, 1) = <<>>
      BY SubSeqEmpty
    <3>6. u # <<>>
      BY <3>1
    <3>7. \A i \in 1..Len(u) : IsDigit(u[i])
      BY <3>2, ZeroDigit
    <3>8. Horner(u) = Horner(c)
      BY <1>5, <3>3, <3>4, <3>5
    <3> QED
      BY <3>1, <3>6, <3>7, <3>8
  <2>2. CASE q # Len(c)
    <3>1. q + 1 \in Int /\ Len(c) \in Int /\ q + 1 <= Len(c) /\ Len(c) - (q + 1) + 1 = Len(c) - q
      BY <1>1, <1>2, <2>2
    <3>2. \A i \in (q + 1)..Len(c) : c[i] \in S
      BY <1>2, LenProperties
    <3>3. /\ r \in Seq(S) /\ Len(r) = Len(c) - q
          /\ \A i \in 1..(Len(c) - q) : r[i] = c[q + 1 + i - 1]
      BY <1>4, <3>1, <3>2, SubSeqProperties
    <3>4. Len(r) # 0
      BY <1>2, <2>2, <3>3
    <3>5. r # <<>>
      BY <3>4, EmptySeq
    <3>6. u = r
      BY <1>1, <1>4, <1>6, <2>2, <3>5 DEF OrZero
    <3>7. \A i \in 1..(Len(c) - q) : q + 1 + i - 1 \in 1..Len(c)
      BY <1>2
    <3> QED
      BY <1>5, <3>3, <3>5, <3>6, <3>7
  <2> QED
    BY <2>1, <2>2
<1> QED
  BY <1>6, <1>7, SetStringDigits

(* A text is refused for its sign or its digits, or what is put together   *)
(* from it goes to SetString.                                              *)
LEMMA ParsedMeans ==
  ASSUME NEW S, "0" \in S, NEW text \in Seq(S), NEW decimals \in Nat, text # <<>>,
         NEW s, s = TrimSpace(text)
  PROVE  /\ s \in Seq(S)
         /\ ParseAmountToSmallestUnit(text, decimals) =
               IF (s # <<>> /\ s[1] = "-") \/ ~ Representable(s, decimals) THEN Invalid
               ELSE SetString(OrZero(TrimLeft(Combined(s, decimals), {"0"})))
<1>1. s \in Seq(S)
  BY TrimTexts DEF TrimSpace
<1>2. TooPrecise(FracPart(s), decimals) <=> ~ Representable(s, decimals)
  BY <1>1, FracPartMeans
<1> QED
  BY <1>1, <1>2 DEF ParseAmountToSmallestUnit, Combined

-----------------------------------------------------------------------------
(* Texts that are no decimals *)

(* Whatever stands in Combined came from the text or fills it up. *)
LEMMA PlacesCover ==
  ASSUME NEW S, NEW s \in Seq(S), NEW j \in Nat, At(s, 0) < j, j <= At(s, Len(s))
  PROVE  \E i \in 1..Len(s) : i # PointAt(s) /\ j = At(s, i)
<1>1. PICK p : p = PointAt(s)
  OBVIOUS
<1>2. PICK n : n = Len(s)
  OBVIOUS
<1>3. PICK z : z = Lead(s)
  OBVIOUS
<1>4. n \in Nat /\ p \in 1..(n + 1) /\ z \in {0, 1}
  BY <1>1, <1>2, <1>3, PointMeans DEF Lead
<1>5. \A i \in Int : At(s, i) = z + IF i < p THEN i ELSE i - 1
  BY <1>1, <1>3 DEF At
<1>6. At(s, 0) = z
  BY <1>4, <1>5
<1>7. At(s, n) = z + IF n < p THEN n ELSE n - 1
  BY <1>4, <1>5
<1>8. CASE j - z < p
  <2>1. PICK i : i = j - z
    OBVIOUS
  <2>2. i \in 1..n /\ i < p /\ z + i = j
    BY <1>2, <1>4, <1>6, <1>7, <1>8, <2>1
  <2>3. At(s, i) = j
    BY <1>5, <2>2
  <2> QED
    BY <1>1, <1>2, <1>4, <2>2, <2>3
<1>9. CASE ~ (j - z < p)
  <2>1. PICK i : i = j - z + 1
    OBVIOUS
  <2>2. i \in 1..n /\ i > p /\ z + (i - 1) = j
    BY <1>2, <1>4, <1>6, <1>7, <1>9, <2>1
  <2>3. At(s, i) = j
    <3>1. i \in Int /\ ~ (i < p)
      BY <1>4, <2>2
    <3>2. At(s, i) = z + (i - 1)
      BY <1>5, <3>1
    <3> QED
      BY <2>2, <3>2
  <2> QED
    BY <1>1, <1>2, <1>4, <2>2, <2>3
<1> QED
  BY <1>8, <1>9

LEMMA PlacesOrdered ==
  ASSUME NEW S, NEW s \in Seq(S), NEW i \in 1..Len(s), i # PointAt(s),
         NEW j \in 1..(i - 1), j # PointAt(s)
  PROVE  At(s, j) < At(s, i)
<1>1. PICK p : p = PointAt(s)
  OBVIOUS
<1>2. PICK z : z = Lead(s)
  OBVIOUS
<1>3. p \in Nat /\ z \in {0, 1} /\ i \in Nat /\ j \in Nat /\ j < i
  BY <1>1, <1>2, PointMeans DEF Lead
<1>4. /\ At(s, i) = z + IF i < p THEN i ELSE i - 1
      /\ At(s, j) = z + IF j < p THEN j ELSE j - 1
  BY <1>1, <1>2 DEF At
<1> QED
  BY <1>1, <1>3, <1>4

(* Taking a sign for a zero moves no character. *)
LEMMA AsZeroMeans ==
  ASSUME NEW S, "0" \in S, NEW s \in Seq(S), NEW t, t = AsZero(s)
  PROVE  /\ t \in Seq(S) /\ Len(t) = Len(s)
         /\ \A i \in 1..Len(s) : t[i] = IF s[i] = "+" THEN "0" ELSE s[i]
         /\ PointAt(t) = PointAt(s)
         /\ \A d \in Nat : Representable(t, d) <=> Representable(s, d)
         /\ Lead(t) = Lead(s) /\ \A i \in Int : At(t, i) = At(s, i)
<1>1. Len(s) \in Nat /\ DOMAIN s = 1..Len(s) /\ \A i \in 1..Len(s) : s[i] \in S
  BY LenProperties
<1>2. /\ t \in [1..Len(s) -> S]
      /\ \A i \in 1..Len(s) : t[i] = IF s[i] = "+" THEN "0" ELSE s[i]
  BY <1>1 DEF AsZero
<1>3. t \in Seq(S) /\ Len(t) = Len(s) /\ DOMAIN t = 1..Len(s)
  BY <1>1, <1>2, SeqDef, LenProperties
<1>4. Dots(t) = Dots(s)
  <2>1. \A i \in 1..Len(s) : t[i] = "." <=> s[i] = "."
    BY <1>2
  <2> QED
    BY <1>1, <1>3, <2>1 DEF Dots
<1>5. PointAt(t) = PointAt(s)
  BY <1>3, <1>4 DEF PointAt
<1>6. Lead(t) = Lead(s)
  BY <1>5 DEF Lead
<1> QED
  BY <1>2, <1>3, <1>5, <1>6 DEF Representable, At

(* What SetString takes: digits, with a sign in front. *)
LEMMA SetStringTakes ==
  ASSUME NEW S, NEW u \in Seq(S), u # <<>>, SetString(u).ok, SetString(u).value > 0
  PROVE  \/ \A i \in 1..Len(u) : IsDigit(u[i])
         \/ /\ u[1] = "+" /\ SetString(u).value = Horner(Tail(u))
            /\ \A i \in 2..Len(u) : IsDigit(u[i])
<1>1. Len(u) \in Nat \ {0} /\ DOMAIN u = 1..Len(u)
  BY LenProperties, EmptySeq
<1>2. PICK r : r = Unsigned(u)
  OBVIOUS
<1>3. r # <<>> /\ \A i \in DOMAIN r : IsDigit(r[i])
  BY <1>2 DEF SetString, Invalid
<1>4. SetString(u) = Amount(IF u[1] = "-" THEN - Horner(r) ELSE Horner(r))
  BY <1>2, <1>3 DEF SetString
<1>5. CASE u[1] \notin {"+", "-"}
  BY <1>1, <1>2, <1>3, <1>5 DEF Unsigned
<1>6. CASE u[1] \in {"+", "-"}
  <2>1. r = Tail(u)
    BY <1>2, <1>6 DEF Unsigned
  <2>2. r \in Seq(S) /\ Len(r) = Len(u) - 1 /\ \A i \in 1..Len(r) : r[i] = u[i + 1]
    BY <2>1, HeadTailProperties
  <2>3. DOMAIN r = 1..Len(r) /\ Len(r) \in Nat
    BY <2>2, LenProperties
  <2>4. Horner(r) \in Nat
    <3>1. Len(r) \in 0..Len(r)
      BY <2>3
    <3> QED
      BY <1>3, <2>2, <2>3, <3>1, HornerTable
  <2>5. u[1] # "-"
    <3> SUFFICES ASSUME u[1] = "-" PROVE FALSE
      OBVIOUS
    <3>1. PICK h : h = Horner(r)
      OBVIOUS
    <3>2. SetString(u).value = - h
      BY <1>4, <3>1 DEF Amount
    <3> QED
      BY <2>4, <3>1, <3>2
  <2>6. SetString(u).value = Horner(Tail(u))
    BY <1>4, <2>1, <2>5 DEF Amount
  <2>7. ASSUME NEW i \in 2..Len(u) PROVE IsDigit(u[i])
    <3>1. i - 1 \in 1..Len(r) /\ (i - 1) + 1 = i
      BY <1>1, <2>2
    <3> QED
      BY <1>3, <2>2, <2>3, <3>1
  <2> QED
    BY <1>6, <2>5, <2>6, <2>7
<1> QED
  BY <1>5, <1>6

(* Where a text is accepted although it is no decimal, a single plus       *)
(* follows the zeros in front.                                             *)
LEMMA AcceptedShape ==
  ASSUME NEW S, "0" \in S, NEW c \in Seq(S),
         NEW u, u = OrZero(TrimLeft(c, {"0"})),
         SetString(u).ok, SetString(u).value > 0
  PROVE  \/ \A j \in 1..Len(c) : IsDigit(c[j])
         \/ \E k \in 1..Len(c) :
               /\ \A j \in 1..(k - 1) : c[j] = "0"
               /\ c[k] = "+"
               /\ \A j \in (k + 1)..Len(c) : IsDigit(c[j])
               /\ SetString(u).value = Horner(SubSeq(c, k + 1, Len(c)))
<1>1. PICK q \in 0..Len(c) :
            /\ \A i \in 1..q : c[i] = "0"
            /\ q = Len(c) => TrimLeft(c, {"0"}) = <<>>
            /\ q # Len(c) => /\ q + 1 \in 1..Len(c) /\ c[q + 1] # "0"
                             /\ TrimLeft(c, {"0"}) = SubSeq(c, q + 1, Len(c))
  BY TrimZeros
<1>2. PICK n : n = Len(c)
  OBVIOUS
<1>3. n \in Nat /\ q \in 0..n
  BY <1>2, LenProperties
<1>4. CASE q = n
  BY <1>1, <1>2, <1>4, ZeroDigit
<1>5. CASE q # n
  <2>1. PICK k : k = q + 1
    OBVIOUS
  <2>2. k \in 1..n /\ c[k] # "0" /\ TrimLeft(c, {"0"}) = SubSeq(c, k, n) /\ n \in k..n
    BY <1>1, <1>2, <1>3, <1>5, <2>1
  <2>3. PICK r : r = SubSeq(c, k, n)
    OBVIOUS
  <2>4. /\ r \in Seq(S) /\ Len(r) = n - k + 1
        /\ \A i \in 1..(n - k + 1) : r[i] = c[k + i - 1]
    <3>1. k \in Int /\ n \in Int /\ k <= n
      BY <2>2
    <3>2. \A i \in k..n : c[i] \in S
      BY <1>2, <2>2, LenProperties
    <3> QED
      BY <2>3, <3>1, <3>2, SubSeqProperties
  <2>5. r # <<>>
    <3>1. Len(r) # 0
      BY <2>2, <2>4
    <3> QED
      BY <3>1, EmptySeq
  <2>6. u = r
    BY <2>2, <2>3, <2>5 DEF OrZero
  <2>7. \A j \in 1..(k - 1) : c[j] = "0"
    BY <1>1, <1>3, <2>1
  <2>8. \A j \in k..n : j - k + 1 \in 1..(n - k + 1) /\ k + (j - k + 1) - 1 = j
    BY <2>2
  <2>9. \A j \in k..n : c[j] = r[j - k + 1]
    <3> SUFFICES ASSUME NEW j \in k..n PROVE c[j] = r[j - k + 1]
      OBVIOUS
    <3>1. PICK i : i = j - k + 1
      OBVIOUS
    <3>2. i \in 1..(n - k + 1) /\ k + i - 1 = j
      BY <2>2, <3>1
    <3> QED
      BY <2>4, <3>1, <3>2
  <2>10. CASE \A i \in 1..Len(r) : IsDigit(r[i])
    <3>1. \A j \in k..n : IsDigit(c[j])
      BY <2>4, <2>8, <2>9, <2>10
    <3>2. \A j \in 1..n : j \in 1..(k - 1) \/ j \in k..n
      BY <2>2
    <3> QED
      BY <1>2, <2>7, <3>1, <3>2, ZeroDigit
  <2>11. CASE /\ r[1] = "+" /\ SetString(r).value = Horner(Tail(r))
              /\ \A i \in 2..Len(r) : IsDigit(r[i])
    <3>1. c[k] = "+"
      <4>1. k - k + 1 = 1 /\ k \in k..n
        BY <2>2
      <4> QED
        BY <2>9, <2>11, <4>1
    <3>2. ASSUME NEW j \in (k + 1)..n PROVE IsDigit(c[j])
      <4>1. PICK i : i = j - k + 1
        OBVIOUS
      <4>2. i \in 2..Len(r) /\ j \in k..n
        BY <2>2, <2>4, <4>1
      <4> QED
        BY <2>9, <2>11, <4>1, <4>2
    <3>3. Tail(r) = SubSeq(c, k + 1, n)
      BY <1>2, <2>2, <2>3, HeadTailOfSubSeq
    <3>4. SetString(u).value = Horner(SubSeq(c, k + 1, n))
      BY <2>6, <2>11, <3>3
    <3> QED
      BY <1>2, <2>2, <2>7, <3>1, <3>2, <3>4
  <2> QED
    BY <2>4, <2>5, <2>6, <2>10, <2>11, SetStringTakes
<1> QED
  BY <1>4, <1>5

(* What such a text is the decimal of. *)
LEMMA SignedText ==
  ASSUME NEW S, "0" \in S, NEW s \in Seq(S), NEW decimals \in Nat,
         Representable(s, decimals),
         NEW c, c = Combined(s, decimals), NEW k \in 1..Len(c),
         \A j \in 1..(k - 1) : c[j] = "0", c[k] = "+",
         \A j \in (k + 1)..Len(c) : IsDigit(c[j])
  PROVE  /\ Plain(AsZero(s))
         /\ \A i \in 1..Len(s) : s[i] = "+" =>
               \A j \in 1..(i - 1) : s[j] \in {"0", "."}
         /\ Horner(SubSeq(c, k + 1, Len(c))) = ValueOf(AsZero(s), decimals)
<1>1. PICK n : n = Len(c)
  OBVIOUS
<1>2. PICK m : m = Len(s)
  OBVIOUS
<1>3. PICK p : p = PointAt(s)
  OBVIOUS
<1>4. PICK t : t = AsZero(s)
  OBVIOUS
<1>5. PICK d : d = Combined(t, decimals)
  OBVIOUS
<1>6. /\ c \in Seq(S) /\ n = Lead(s) + p - 1 + decimals
      /\ \A i \in 1..m : i # p => At(s, i) \in 1..n /\ c[At(s, i)] = s[i]
      /\ \A j \in 1..n : j <= At(s, 0) \/ At(s, m) < j => c[j] = "0"
      /\ At(s, m) \in 0..n
  BY <1>1, <1>2, <1>3, CombinedMeans
<1>7. /\ t \in Seq(S) /\ Len(t) = m
      /\ \A i \in 1..m : t[i] = IF s[i] = "+" THEN "0" ELSE s[i]
      /\ PointAt(t) = p /\ Representable(t, decimals)
      /\ Lead(t) = Lead(s) /\ \A i \in Int : At(t, i) = At(s, i)
  BY <1>2, <1>3, <1>4, AsZeroMeans
<1>8. /\ m \in Nat /\ n \in Nat /\ p \in 1..(m + 1) /\ (p <= m => s[p] = ".")
      /\ k \in 1..n
  BY <1>1, <1>2, <1>3, <1>6, PointMeans, LenProperties
<1>9. /\ d \in Seq(S) /\ Len(d) = n
      /\ \A i \in 1..m : i # p => d[At(s, i)] = t[i]
      /\ \A j \in 1..n : j <= At(s, 0) \/ At(s, m) < j => d[j] = "0"
  <2>1. /\ d \in Seq(S) /\ Len(d) = Lead(t) + PointAt(t) - 1 + decimals
        /\ \A i \in 1..Len(t) : i # PointAt(t) => d[At(t, i)] = t[i]
        /\ \A j \in 1..Len(d) : j <= At(t, 0) \/ At(t, Len(t)) < j => d[j] = "0"
    BY <1>5, <1>7, CombinedMeans
  <2>2. 0 \in Int /\ m \in Int /\ \A i \in 1..m : i \in Int
    BY <1>8
  <2> QED
    BY <1>6, <1>7, <2>1, <2>2
<1>10. \A j \in 1..n : c[j] = "0" \/ c[j] = "+" \/ IsDigit(c[j])
  <2>1. \A j \in 1..n : j \in 1..(k - 1) \/ j = k \/ j \in (k + 1)..n
    BY <1>8
  <2> QED
    BY <1>1, <2>1
<1>11. PlainDigits(t)
  <2> SUFFICES ASSUME NEW i \in 1..m, i # p PROVE IsDigit(t[i])
    BY <1>7 DEF PlainDigits
  <2>1. s[i] = "0" \/ s[i] = "+" \/ IsDigit(s[i])
    BY <1>6, <1>10
  <2> QED
    BY <1>7, <2>1, ZeroDigit
<1>12. Plain(t)
  BY <1>7, <1>11, PlainMeans
<1>13. ASSUME NEW i \in 1..m, s[i] = "+", NEW j \in 1..(i - 1) PROVE s[j] \in {"0", "."}
  <2>1. i # p /\ j \in 1..m
    BY <1>8, <1>13
  <2>2. At(s, i) \in 1..n /\ c[At(s, i)] = "+"
    BY <1>6, <1>13, <2>1
  <2>3. PICK a : a = At(s, i)
    OBVIOUS
  <2>4. a <= k
    <3> SUFFICES ASSUME ~ (a <= k) PROVE FALSE
      OBVIOUS
    <3>1. a \in (k + 1)..n
      BY <1>8, <2>2, <2>3
    <3> QED
      BY <1>1, <2>2, <2>3, <3>1, DigitChars
  <2>5. CASE j = p
    BY <1>8, <2>1, <2>5
  <2>6. CASE j # p
    <3>1. PICK b : b = At(s, j)
      OBVIOUS
    <3>2. b < a /\ b \in 1..n /\ c[b] = s[j]
      BY <1>2, <1>3, <1>6, <2>1, <2>3, <2>6, <3>1, PlacesOrdered
    <3>3. b \in 1..(k - 1)
      BY <1>8, <2>2, <2>3, <2>4, <3>2
    <3> QED
      BY <3>2, <3>3
  <2> QED
    BY <2>5, <2>6
<1>14. /\ \A j \in 1..n : IsDigit(d[j])
       /\ Horner(d) = ValueOf(t, decimals)
  BY <1>5, <1>7, <1>9, <1>11, ValueOfDigits
<1>15. ASSUME NEW j \in 1..n PROVE d[j] = IF c[j] = "+" THEN "0" ELSE c[j]
  <2>1. CASE j <= At(s, 0) \/ At(s, m) < j
    BY <1>6, <1>9, <2>1
  <2>2. CASE ~ (j <= At(s, 0) \/ At(s, m) < j)
    <3>1. At(s, 0) < j /\ j <= At(s, m) /\ j \in Nat
      <4>1. At(s, 0) \in Nat
        BY <1>3, <1>8 DEF At, Lead
      <4> QED
        BY <1>6, <2>2, <4>1
    <3>2. PICK i \in 1..m : i # p /\ j = At(s, i)
      BY <1>2, <1>3, <3>1, PlacesCover
    <3> QED
      BY <1>6, <1>7, <1>9, <3>2
  <2> QED
    BY <2>1, <2>2
<1>16. Horner(SubSeq(d, k + 1, n)) = Horner(d)
  <2>1. ASSUME NEW j \in 1..k PROVE DigitValue(d[j]) = 0
    <3>1. j \in 1..n /\ (j \in 1..(k - 1) \/ j = k)
      BY <1>8
    <3>2. d[j] = "0"
      BY <1>15, <3>1
    <3> QED
      BY <3>2, ZeroDigit
  <2>2. k \in 0..n
    BY <1>8
  <2> QED
    BY <1>9, <1>14, <2>1, <2>2, HornerTrims
<1>17. SubSeq(d, k + 1, n) = SubSeq(c, k + 1, n)
  <2>1. PICK x : x = SubSeq(c, k + 1, n)
    OBVIOUS
  <2>2. PICK y : y = SubSeq(d, k + 1, n)
    OBVIOUS
  <2>3. k + 1 \in Int /\ n \in Int /\ \A j \in (k + 1)..n : j \in 1..n
    BY <1>8
  <2>4. (\A j \in (k + 1)..n : c[j] \in S) /\ (\A j \in (k + 1)..n : d[j] \in S)
    BY <1>1, <1>6, <1>9, <2>3, LenProperties
  <2>5. PICK l : l = IF k + 1 <= n THEN n - (k + 1) + 1 ELSE 0
    OBVIOUS
  <2>6. /\ x \in Seq(S) /\ Len(x) = l
        /\ \A i \in 1..(n - (k + 1) + 1) : x[i] = c[k + 1 + i - 1]
    BY <2>1, <2>3, <2>4, <2>5, SubSeqProperties
  <2>7. /\ y \in Seq(S) /\ Len(y) = l
        /\ \A i \in 1..(n - (k + 1) + 1) : y[i] = d[k + 1 + i - 1]
    BY <2>2, <2>3, <2>4, <2>5, SubSeqProperties
  <2>8. ASSUME NEW i \in 1..l PROVE x[i] = y[i]
    <3>1. PICK j : j = k + 1 + i - 1
      OBVIOUS
    <3>2. i \in 1..(n - (k + 1) + 1) /\ j \in (k + 1)..n /\ j \in 1..n
      BY <1>8, <2>5, <3>1
    <3>3. c[j] # "+"
      BY <1>1, <3>2, DigitChars
    <3>4. d[j] = c[j]
      BY <1>15, <3>2, <3>3
    <3> QED
      BY <2>6, <2>7, <3>1, <3>2, <3>4
  <2> QED
    BY <2>1, <2>2, <2>6, <2>7, <2>8, SeqEqual
<1> QED
  BY <1>1, <1>2, <1>4, <1>12, <1>13, <1>14, <1>16, <1>17

(* Whatever is accepted is the decimal of its amount, whatever the         *)
(* characters of the text.                                                 *)
LEMMA ParsedDenotes ==
  ASSUME NEW C, NEW text \in Seq(C), NEW decimals \in Nat,
         NEW parsed, parsed = ParseAmountToSmallestUnit(text, decimals),
         parsed.ok, parsed.value > 0
  PROVE  Denotes(text, decimals, parsed.value)
<1>1. PICK S : S = C \cup {"0"}
  OBVIOUS
<1>2. "0" \in S /\ text \in Seq(S)
  BY <1>1, SeqMonotonic
<1>3. PICK s : s = TrimSpace(text)
  OBVIOUS
<1> SUFFICES /\ Plain(AsZero(s)) /\ Representable(s, decimals)
             /\ \A i \in {x \in DOMAIN s : s[x] = "+"} :
                   \A j \in 1..(i - 1) : s[j] \in {"0", "."}
             /\ parsed.value = ValueOf(AsZero(s), decimals)
  BY <1>3 DEF Denotes
<1>4. text # <<>>
  BY DEF ParseAmountToSmallestUnit, Invalid
<1>5. PICK c : c = Combined(s, decimals)
  OBVIOUS
<1>6. PICK u : u = OrZero(TrimLeft(c, {"0"}))
  OBVIOUS
<1>7. /\ s \in Seq(S) /\ Representable(s, decimals) /\ parsed = SetString(u)
  <2>1. /\ s \in Seq(S)
        /\ parsed = IF (s # <<>> /\ s[1] = "-") \/ ~ Representable(s, decimals) THEN Invalid
                    ELSE SetString(u)
    BY <1>2, <1>3, <1>4, <1>5, <1>6, ParsedMeans
  <2> QED
    BY <2>1 DEF Invalid
<1>8. c \in Seq(S) /\ DOMAIN s = 1..Len(s)
  BY <1>2, <1>5, <1>7, CombinedMeans, LenProperties
<1>9. CASE \A j \in 1..Len(c) : IsDigit(c[j])
  <2>1. PlainDigits(s)
    <3> SUFFICES ASSUME NEW i \in 1..Len(s), i # PointAt(s) PROVE IsDigit(s[i])
      BY DEF PlainDigits
    <3>1. At(s, i) \in 1..Len(c) /\ c[At(s, i)] = s[i]
      BY <1>2, <1>5, <1>7, CombinedMeans
    <3> QED
      BY <1>9, <3>1
  <2>2. Plain(s)
    BY <1>7, <2>1, PlainMeans
  <2>3. \A i \in 1..Len(s) : s[i] # "+"
    BY <1>8, <2>2, DigitChars DEF Plain
  <2>4. AsZero(s) = s
    <3>1. PICK t : t = AsZero(s)
      OBVIOUS
    <3>2. /\ t \in Seq(S) /\ Len(t) = Len(s)
          /\ \A i \in 1..Len(s) : t[i] = IF s[i] = "+" THEN "0" ELSE s[i]
      BY <1>2, <1>7, <3>1, AsZeroMeans
    <3> QED
      BY <1>7, <2>3, <3>1, <3>2, SeqEqual
  <2>5. Horner(c) = ValueOf(s, decimals)
    BY <1>2, <1>5, <1>7, <2>1, ValueOfDigits
  <2>6. SetString(u) = Amount(Horner(c))
    BY <1>2, <1>6, <1>8, <1>9, DigitsParsed
  <2>7. parsed.value = ValueOf(s, decimals)
    BY <1>7, <2>5, <2>6 DEF Amount
  <2> QED
    BY <1>7, <1>8, <2>2, <2>3, <2>4, <2>7
<1>10. CASE \E k \in 1..Len(c) :
             /\ \A j \in 1..(k - 1) : c[j] = "0"
             /\ c[k] = "+"
             /\ \A j \in (k + 1)..Len(c) : IsDigit(c[j])
             /\ SetString(u).value = Horner(SubSeq(c, k + 1, Len(c)))
  <2>1. PICK k \in 1..Len(c) :
             /\ \A j \in 1..(k - 1) : c[j] = "0"
             /\ c[k] = "+"
             /\ \A j \in (k + 1)..Len(c) : IsDigit(c[j])
             /\ SetString(u).value = Horner(SubSeq(c, k + 1, Len(c)))
    BY <1>10
  <2>2. /\ Plain(AsZero(s))
        /\ \A i \in 1..Len(s) : s[i] = "+" =>
              \A j \in 1..(i - 1) : s[j] \in {"0", "."}
        /\ Horner(SubSeq(c, k + 1, Len(c))) = ValueOf(AsZero(s), decimals)
    BY <1>2, <1>5, <1>7, <2>1, SignedText
  <2> QED
    BY <1>7, <1>8, <2>1, <2>2
<1> QED
  BY <1>2, <1>6, <1>7, <1>8, <1>9, <1>10, AcceptedShape
=============================================================================
