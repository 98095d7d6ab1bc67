--------------------------- MODULE DecimalNotation --------------------------
(***************************************************************************)
(* What a decimal text means, by positional notation: the reference that   *)
(* the parser is compared with.  No padding, no trimming of zeros, no      *)
(* sign.                                                                   *)
(***************************************************************************)
EXTENDS Amounts

(* Digits, and at most one dot. *)
Plain(s) == /\ \A i \in DOMAIN s : IsDigit(s[i]) \/ s[i] = "."
            /\ Cardinality(Dots(s)) <= 1

PointAt(s) == IF Dots(s) = {} THEN Len(s) + 1 ELSE Min(Dots(s))

(* The power of ten that position i of s counts, in the smallest unit. *)
Weight(s, i, decimals) == IF i < PointAt(s) THEN decimals + PointAt(s) - 1 - i
                                            ELSE decimals + PointAt(s) - i

Representable(s, decimals) == Len(s) - PointAt(s) <= decimals

Power10(n) == LET power[i \in 0..n] == IF i = 0 THEN 1 ELSE 10 * power[i - 1]
              IN  power[n]

Counts(s, i, decimals) ==
    IF s[i] = "." THEN 0 ELSE DigitValue(s[i]) * Power10(Weight(s, i, decimals))

ValueOf(s, decimals) ==
    LET upTo[i \in 0..Len(s)] ==
            IF i = 0 THEN 0 ELSE upTo[i - 1] + Counts(s, i, decimals)
    IN  upTo[Len(s)]

AsZero(s) == [i \in DOMAIN s |-> IF s[i] = "+" THEN "0" ELSE s[i]]

(* The text is a decimal of the amount n, up to one exception: SetString   *)
(* sees the text after the zeros in front are gone, so it takes a "+"      *)
(* behind zeros and the dot, which then counts as one more zero: "0+5" is  *)
(* 5 and ".+5" is 0.05.                                                    *)
Denotes(text, decimals, n) ==
    LET s    == TrimSpace(text)
        plus == {i \in DOMAIN s : s[i] = "+"}
    IN  /\ Plain(AsZero(s)) /\ Representable(s, decimals)
        /\ \A i \in plus : \A j \in 1..(i - 1) : s[j] \in {"0", "."}
        /\ n = ValueOf(AsZero(s), decimals)
=============================================================================
