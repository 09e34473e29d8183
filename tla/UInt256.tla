------------------------------- MODULE UInt256 -------------------------------
(***************************************************************************)
(* csf_assign01/uint256.c: unsigned integers of 256 bits, kept as an array *)
(* of 8 words of 32 bits, least significant word first.  The module is     *)
(* about arrays of Words words of WordBits bits, written with digits of    *)
(* DigitBits bits (hexadecimal digits have 4).                             *)
(*                                                                         *)
(* A program computes with one such value; `number' is the integer that    *)
(* the same computation gives, modulo 2^256.  Strings are sequences of     *)
(* digits: what strtoul makes of other characters is left out.             *)
(***************************************************************************)
EXTENDS Naturals, Sequences, FiniteSetsExt

CONSTANTS Words, WordBits, DigitBits,
          Operands,      \* bound: the right operands of the arithmetic
          Numerals       \* bound: the strings that are read

ASSUME SizesAssumption == /\ Words \in Nat \ {0}
                          /\ WordBits \in Nat \ {0}
                          /\ DigitBits \in 1 .. WordBits
                          /\ WordBits % DigitBits = 0

Index == 0 .. Words - 1
Bits == Words * WordBits
DigitsPerWord == WordBits \div DigitBits

\* The powers of two.
TwoTo[n \in Nat] == IF n = 0 THEN 1 ELSE 2 * TwoTo[n - 1]

Base == TwoTo[WordBits]
Modulus == TwoTo[Bits]
DigitBase == TwoTo[DigitBits]

\* What the word at index i counts.
Weight(i) == TwoTo[WordBits * i]

UInt == [Index -> 0 .. Base - 1]
Digit == 0 .. DigitBase - 1

ASSUME InputsAssumption == /\ Operands \subseteq UInt
                           /\ Numerals \subseteq Seq(Digit)

VARIABLES value, number
vars == <<value, number>>

\* The integers that the lower words of an array stand for, and all of them.
Low(v) ==
    LET low[i \in 0 .. Words] ==
            IF i = 0 THEN 0 ELSE low[i - 1] + v[i - 1] * Weight(i - 1)
    IN  low

Value(v) == Low(v)[Words]
-----------------------------------------------------------------------------
(* Creation and inspection                                                 *)

CreateFromU32(val) == [i \in Index |-> IF i = 0 THEN val ELSE 0]

\* uint256_get_bits, for indices beyond the array too.
GetBits(v, index) == IF index >= Words THEN 0 ELSE v[index]

IsBitSet(v, index) ==
    /\ index < Bits
    /\ (v[index \div WordBits] \div TwoTo[index % WordBits]) % 2 = 1
-----------------------------------------------------------------------------
(* Arithmetic                                                              *)

WordSum(l, r, carry) == (l + r + carry) % Base

\* Mutant: a word that is reached again with a carry counts as no overflow.
SumOverflows(l, r, carry) == WordSum(l, r, carry) < l

\* The sum of two words and a carry did not fit, judged from its remainder.
Overflows(l, r, carry) == \/ WordSum(l, r, carry) < l
                          \/ WordSum(l, r, carry) = l /\ carry = 1

\* The carry into each word.
Carry(left, right) ==
    LET carry[i \in 0 .. Words] ==
            IF i > 0 /\ Overflows(left[i - 1], right[i - 1], carry[i - 1])
            THEN 1 ELSE 0
    IN  carry

Add(left, right) ==
    LET carry == Carry(left, right)
    IN  [i \in Index |-> WordSum(left[i], right[i], carry[i])]

Negate(v) == Add([i \in Index |-> Base - 1 - v[i]], CreateFromU32(1))

Sub(left, right) == Add(left, Negate(right))

\* The word at i, shifted: its left part goes into the next word but one.
ShiftedWord(v, i, shift) ==
    LET indexshift == shift \div WordBits
        bitshift == shift % WordBits
        right == (v[i] * TwoTo[bitshift]) % Base
        left == IF bitshift > 0 THEN v[i] \div TwoTo[WordBits - bitshift] ELSE 0
    IN  [k \in Index |-> CASE k = i + indexshift -> right
                           [] k = i + indexshift + 1 -> left
                           [] OTHER -> 0]

\* The sum after n words, from the most significant one down; the assertion wants
\* shift < 256.
Shifted(v, shift) ==
    LET result[n \in 0 .. Words] ==
            IF n = 0 THEN CreateFromU32(0)
            ELSE Add(result[n - 1], ShiftedWord(v, Words - n, shift))
    IN  result

Lshift(v, shift) == Shifted(v, shift)[Words]

\* The product with the n lowest bits.
Product(left, right) ==
    LET product[n \in 0 .. Bits] ==
            CASE n = 0 -> CreateFromU32(0)
              [] n > 0 /\ IsBitSet(right, n - 1) ->
                     Add(product[n - 1], Lshift(left, n - 1))
              [] OTHER -> product[n - 1]
    IN  product

Mul(left, right) == Product(left, right)[Bits]
-----------------------------------------------------------------------------
(* Hexadecimal strings                                                     *)

\* "%08x"
Padded(word) == [d \in 1 .. DigitsPerWord |->
                    (word \div TwoTo[DigitBits * (DigitsPerWord - d)]) % DigitBase]

\* "%x"
Unpadded(word) ==
    LET first == Min({d \in 1 .. DigitsPerWord : Padded(word)[d] # 0}
                     \union {DigitsPerWord})
    IN  SubSeq(Padded(word), first, DigitsPerWord)

\* The most significant word that is not zero.
EndPoint(v) == Max({i \in Index : v[i] # 0} \union {0})

\* Mutant: the words below the first are not padded.
TextUnpadded(v) ==
    LET text[n \in 0 .. EndPoint(v)] ==
            IF n = 0 THEN Unpadded(v[EndPoint(v)])
            ELSE text[n - 1] \o Unpadded(v[EndPoint(v) - n])
    IN  text

\* What is written when n words below the first are.
Text(v) ==
    LET text[n \in 0 .. EndPoint(v)] ==
            IF n = 0 THEN Unpadded(v[EndPoint(v)])
            ELSE text[n - 1] \o Padded(v[EndPoint(v) - n])
    IN  text

FormatAsHex(v) == Text(v)[EndPoint(v)]

\* The numbers that the first digits make.
Reading(digits) ==
    LET reading[n \in 0 .. Len(digits)] ==
            IF n = 0 THEN 0 ELSE reading[n - 1] * DigitBase + digits[n]
    IN  reading

Strtoul(digits) == Reading(digits)[Len(digits)]

\* The digits of word i, as many as there are, counted from the right.
Chunk(hex, i) ==
    LET last == Len(hex) - i * DigitsPerWord
    IN  SubSeq(hex, Max({1, last - DigitsPerWord + 1}), last)

\* Digits beyond the array's size are never reached.
CreateFromHex(hex) ==
    [i \in Index |-> IF Len(hex) > i * DigitsPerWord
                     THEN Strtoul(Chunk(hex, i)) ELSE 0]
-----------------------------------------------------------------------------
\* The first value is read from a string.
Init == \E hex \in Numerals : /\ value = CreateFromHex(hex)
                              /\ number = Strtoul(hex) % Modulus

Yields(v, n) == value' = v /\ number' = n % Modulus

Next == \/ \E v \in Operands : Yields(Add(value, v), number + Value(v))
        \/ \E v \in Operands : Yields(Sub(value, v), number + Modulus - Value(v))
        \/ \E v \in Operands : Yields(Mul(value, v), number * Value(v))
        \/ Yields(Negate(value), Modulus - number)
        \/ \E shift \in 0 .. Bits - 1 :
               Yields(Lshift(value, shift), number * TwoTo[shift])

Spec == Init /\ [][Next]_vars
-----------------------------------------------------------------------------
\* Sums, differences, products, negations, shifts and strings are those of the
\* integers modulo 2^256, whatever was computed before: no carry is lost or made
\* up between words (uint256.c:162), and a shift loses the top bits only.
\* The words read back are the number's digits in base 2^32, and what lies beyond
\* its size is 0 (uint256.c:119-126).
ArithmeticIsModular ==
    /\ value \in UInt
    /\ \A i \in 0 .. Words + 1 : GetBits(value, i) = (number \div Weight(i)) % Base

\* A value is written as the number it stands for, with no leading zero, and
\* reading the string gives the value back (uint256.c:69-113, 33-66).
HexRoundTrips ==
    LET hex == FormatAsHex(value)
    IN  /\ Strtoul(hex) = number
        /\ Len(hex) > 1 => Head(hex) # 0
        /\ CreateFromHex(hex) = value
=============================================================================
