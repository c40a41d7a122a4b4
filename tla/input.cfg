SPECIFICATION Spec
CONSTANTS
    Digits = {"1"}
    Devanagari <- MCDevanagari
    Letters = {"T"}
    Codes <- MCCodes
    PinLength = 2
    MaxLength = 6
    Nil = Nil
CHECK_DEADLOCK FALSE
INVARIANTS TypeOK DocumentedFormsAreRead EchoReadsBack
