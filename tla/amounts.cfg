SPECIFICATION Spec
CONSTANTS
    Characters = {"0", "1", "7", ".", "-", "+", " ", "U+00A0", "x"}
    MaxLength = 5
    MaxDecimals = 2
INVARIANTS
    DecimalExact
    AcceptedIsDecimal
CHECK_DEADLOCK FALSE
