------------------------- MODULE AmountTextsProofs --------------------------
(***************************************************************************)
(* ParseAmountToSmallestUnit against positional notation, for texts of any *)
(* length over any characters and any number of decimals.                  *)
(***************************************************************************)
EXTENDS AmountTexts, AmountsProofs

-----------------------------------------------------------------------------
(* All that is known of a text: it consists of characters.                 *)
TextTyped == text \in Seq(Characters) /\ decimals \in Nat

LEMMA TextsTyped == Spec => []TextTyped
<1>1. Init => TextTyped
  BY AmountTextsAssumption, EmptySeq DEF Init, TextTyped
<1>2. TextTyped /\ [Next]_vars => TextTyped'
  BY DEF TextTyped, Next, Type, vars
<1> QED
  BY <1>1, <1>2, PTL DEF Spec

LEMMA TextInclZero ==
  ASSUME TextTyped
  PROVE  LET S == Characters \cup {"0"} IN "0" \in S /\ text \in Seq(S)
BY SeqMonotonic DEF TextTyped

(* "Uses string arithmetic" (transfer.go:15): for every decimal text and   *)
(* every number of decimals the amount is exact to the last digit, or the  *)
(* text is refused because the token has no unit for a digit of it.        *)
THEOREM DecimalsExact == Spec => []DecimalExact
<1>1. ASSUME TextTyped PROVE DecimalExact
  <2>1. PICK S : S = Characters \cup {"0"}
    OBVIOUS
  <2>2. "0" \in S /\ text \in Seq(S) /\ decimals \in Nat
    BY <1>1, <2>1, TextInclZero DEF TextTyped
  <2>3. PICK s : s = TrimSpace(text)
    OBVIOUS
  <2> SUFFICES ASSUME text # <<>>, Plain(s)
               PROVE  Parsed = IF Representable(s, decimals) THEN Amount(ValueOf(s, decimals)) ELSE Invalid
    BY <2>3 DEF DecimalExact
  <2>4. /\ s \in Seq(S)
        /\ Parsed = IF (s # <<>> /\ s[1] = "-") \/ ~ Representable(s, decimals) THEN Invalid
                    ELSE SetString(OrZero(TrimLeft(Combined(s, decimals), {"0"})))
    BY <2>2, <2>3, ParsedMeans DEF Parsed
  <2>5. ~ (s # <<>> /\ s[1] = "-")
    <3> SUFFICES ASSUME s # <<>>, s[1] = "-" PROVE FALSE
      OBVIOUS
    <3>1. 1 \in DOMAIN s
      BY <2>4, LenProperties, EmptySeq
    <3>2. IsDigit(s[1]) \/ s[1] = "."
      BY <3>1 DEF Plain
    <3> QED
      BY <3>2, DigitChars
  <2>6. CASE Representable(s, decimals)
    <3>1. PlainDigits(s)
      BY <2>4, PlainMeans
    <3>2. PICK c : c = Combined(s, decimals)
      OBVIOUS
    <3>3. c \in Seq(S) /\ (\A j \in 1..Len(c) : IsDigit(c[j])) /\ Horner(c) = ValueOf(s, decimals)
      BY <2>2, <2>4, <2>6, <3>1, <3>2, CombinedMeans, ValueOfDigits
    <3>4. SetString(OrZero(TrimLeft(c, {"0"}))) = Amount(Horner(c))
      BY <2>2, <3>3, DigitsParsed
    <3> QED
      BY <2>4, <2>5, <2>6, <3>2, <3>3, <3>4
  <2> QED
    BY <2>4, <2>6
<1> QED
  BY <1>1, TextsTyped, PTL

(* Whatever is accepted is the decimal of its amount, whatever the         *)
(* characters of the text: the one exception is the "+" behind zeros that  *)
(* big.Int.SetString sees once TrimLeft has cut them off.                  *)
THEOREM AcceptedDecimal == Spec => []AcceptedIsDecimal
<1>1. TextTyped => AcceptedIsDecimal
  BY ParsedDenotes DEF TextTyped, AcceptedIsDecimal, Parsed
<1> QED
  BY <1>1, TextsTyped, PTL
=============================================================================
