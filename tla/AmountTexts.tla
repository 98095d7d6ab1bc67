---------------------------- MODULE AmountTexts -----------------------------
(***************************************************************************)
(* Every text a client may write in the field "amount", one character at a *)
(* time, against what the decimal notation means.                          *)
(***************************************************************************)
EXTENDS DecimalNotation

CONSTANTS
    Characters,   \* what clients type
    MaxLength,    \* bound: length of a text
    MaxDecimals   \* bound: decimals of a token

ASSUME AmountTextsAssumption == MaxLength \in Nat /\ MaxDecimals \in Nat

VARIABLES
    text,       \* TransferRequest.Amount
    decimals    \* TokenConfig.Decimals or NativeTokenDecimals

vars == <<text, decimals>>

Init == text = <<>> /\ decimals \in 0..MaxDecimals

Type(c) ==
    /\ Len(text) < MaxLength
    /\ text' = Append(text, c)
    /\ UNCHANGED decimals

Next == \E c \in Characters : Type(c)

Spec == Init /\ [][Next]_vars

-----------------------------------------------------------------------------
Parsed == ParseAmountToSmallestUnit(text, decimals)

(* "Uses string arithmetic" (transfer.go:15): the amount of a decimal      *)
(* text is exact to the last digit, or the text is refused because it has  *)
(* a digit the token has no unit for; nothing is rounded or cut off.       *)
DecimalExact ==
    LET s == TrimSpace(text) IN
      text # <<>> /\ Plain(s) =>
        Parsed = IF Representable(s, decimals) THEN Amount(ValueOf(s, decimals))
                                              ELSE Invalid

(* Whatever is accepted (resolveTransfer refuses an amount that is not     *)
(* positive) is a decimal text of that amount, or one with the "+" that    *)
(* Denotes describes.  No other text gets through.                         *)
AcceptedIsDecimal ==
    Parsed.ok /\ Parsed.value > 0 => Denotes(text, decimals, Parsed.value)
=============================================================================
