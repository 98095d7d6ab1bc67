------------------------------ MODULE Amounts -------------------------------
(***************************************************************************)
(* internal/domain/transfer.go: ParseAmountToSmallestUnit, which turns the *)
(* decimal text of a request into an integer amount of the token's         *)
(* smallest unit, by string surgery and big.Int.SetString.  A text is a    *)
(* sequence of characters.                                                 *)
(***************************************************************************)
EXTENDS Integers, Sequences, FiniteSets, FiniteSetsExt

Digits == <<"0", "1", "2", "3", "4", "5", "6", "7", "8", "9">>

IsDigit(c) == \E i \in DOMAIN Digits : Digits[i] = c
DigitValue(c) == (CHOOSE i \in DOMAIN Digits : Digits[i] = c) - 1

(* The two ways to return: an amount, or an error. *)
Amount(n) == [ok |-> TRUE, value |-> n]
Invalid   == [ok |-> FALSE, value |-> 0]

(* strings.TrimSpace and strings.TrimLeft(_, "0"): drop the characters of  *)
(* a set from the end or from the start.                                   *)
Keeps(s, cut)     == {i \in DOMAIN s : s[i] \notin cut}
TrimLeft(s, cut)  == IF Keeps(s, cut) = {} THEN <<>>
                     ELSE SubSeq(s, Min(Keeps(s, cut)), Len(s))
TrimRight(s, cut) == IF Keeps(s, cut) = {} THEN <<>>
                     ELSE SubSeq(s, 1, Max(Keeps(s, cut)))

(* unicode.IsSpace: the Latin blanks, and those beyond by their names. *)
WhiteSpace ==
    {" ", "\t", "\n", "\f", "\r", "U+000B", "U+0085", "U+00A0", "U+1680",
     "U+2000", "U+2001", "U+2002", "U+2003", "U+2004", "U+2005", "U+2006",
     "U+2007", "U+2008", "U+2009", "U+200A", "U+2028", "U+2029", "U+202F",
     "U+205F", "U+3000"}

TrimSpace(s) == TrimLeft(TrimRight(s, WhiteSpace), WhiteSpace)

(* strings.SplitN(_, ".", 2): the text before and after the first dot. *)
Dots(s)     == {i \in DOMAIN s : s[i] = "."}
IntPart(s)  == IF Dots(s) = {} THEN s ELSE SubSeq(s, 1, Min(Dots(s)) - 1)

(* Mutant of FracPart: strings.Split, of which only the second part is     *)
(* taken.                                                                  *)
SecondPart(s) ==
    LET after == SubSeq(s, IF Dots(s) = {} THEN Len(s) + 1 ELSE Min(Dots(s)) + 1, Len(s))
    IN  IntPart(after)

FracPart(s) == IF Dots(s) = {} THEN <<>> ELSE SubSeq(s, Min(Dots(s)) + 1, Len(s))

(* strings.Repeat("0", n) *)
Zeros(n) == [i \in 1..n |-> "0"]

(* big.Int.SetString(_, 10): an optional sign and at least one digit. *)
Unsigned(s)  == IF s # <<>> /\ s[1] \in {"+", "-"} THEN Tail(s) ELSE s
Horner(s)    ==
    LET upTo[i \in 0..Len(s)] ==
            IF i = 0 THEN 0 ELSE 10 * upTo[i - 1] + DigitValue(s[i])
    IN  upTo[Len(s)]
SetString(s) ==
    IF Unsigned(s) = <<>> \/ \E i \in DOMAIN Unsigned(s) : ~ IsDigit(Unsigned(s)[i])
    THEN Invalid
    ELSE Amount(IF s[1] = "-" THEN - Horner(Unsigned(s)) ELSE Horner(Unsigned(s)))

OrZero(s) == IF s = <<>> THEN <<"0">> ELSE s

(* Mutant of PadFraction: one zero too few. *)
PadFractionShort(frac, decimals) ==
    frac \o Zeros(IF Len(frac) + 1 < decimals THEN decimals - Len(frac) - 1 ELSE 0)

(* The fraction, filled up to exactly `decimals` digits. *)
PadFraction(frac, decimals) == frac \o Zeros(decimals - Len(frac))

TooPrecise(frac, decimals) == Len(frac) > decimals

ParseAmountToSmallestUnit(text, decimals) ==
    LET amount   == TrimSpace(text)
        frac     == FracPart(amount)
        combined == OrZero(IntPart(amount)) \o PadFraction(frac, decimals)
    IN  IF \/ text = <<>>
           \/ amount # <<>> /\ amount[1] = "-"
           \/ TooPrecise(frac, decimals)
        THEN Invalid
        ELSE SetString(OrZero(TrimLeft(combined, {"0"})))
=============================================================================
