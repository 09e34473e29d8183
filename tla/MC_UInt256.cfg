\* All values of four words of two bits, each with operands whose carries ripple.
SPECIFICATION Spec
CONSTANTS
    Words = 4
    WordBits = 2
    DigitBits = 1
    Operands <- CarryOperands
    Numerals <- ShortNumerals
INVARIANTS
    ArithmeticIsModular
    HexRoundTrips
