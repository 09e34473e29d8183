----------------------------- MODULE MC_UInt256 -----------------------------
EXTENDS UInt256

\* Strings of up to nine digits: one more than the array holds.
ShortNumerals == UNION {[1 .. n -> 0 .. DigitBase - 1] : n \in 0 .. 9}

\* Words of no ones, of one and of nothing else: carries start, ripple and end.
CarryOperands == [Index -> {0, 1, Base - 1}]
=============================================================================
