--------------------------- MODULE UInt256_proofs ---------------------------
(***************************************************************************)
(* Proofs about UInt256, for any number of words of any size: the loops    *)
(* over words, bits and digits compute what the integers do.  The library's *)
(* induction theorems take operators as parameters, which the provers cannot *)
(* give them; here a set of naturals takes the operator's place.            *)
(***************************************************************************)
EXTENDS UInt256, SequenceTheorems, WellFoundedInduction, TLAPS

-----------------------------------------------------------------------------
(* Induction and recursion over the naturals                               *)

\* Induction: a set of naturals with 0 and every successor has them all.
LEMMA Induction ==
    ASSUME NEW S, 0 \in S, \A n \in Nat : n \in S => n + 1 \in S
    PROVE  \A n \in Nat : n \in S
<1> SUFFICES ASSUME \E n \in Nat : n \notin S PROVE FALSE
    OBVIOUS
<1> DEFINE Less == {ss \in Nat \X Nat : ss[1] < ss[2]}
<1> DEFINE Missing == Nat \ S
<1>1. IsWellFoundedOn(Less, Nat)
    BY NatLessThanWellFounded DEF OpToRel
<1>2. \E x \in Missing : \A y \in Missing : <<y, x>> \notin Less
    BY <1>1, WFMin
<1>3. PICK x \in Missing : \A y \in Missing : <<y, x>> \notin Less
    BY <1>2
<1>4. x \in Nat /\ x # 0 /\ x - 1 \in Nat /\ x = (x - 1) + 1 /\ x - 1 < x
    OBVIOUS
<1>5. <<x - 1, x>> \in Less
    BY <1>4
<1>6. x - 1 \in S
    BY <1>3, <1>4, <1>5
<1> QED
    BY <1>4, <1>6

\* What the passes of a loop do to what it computes, one function for each pass.
Passes(A) == [Nat -> [A -> A]]

\* f[n] is what n passes make of a.
Computes(f, A, a, step) ==
    /\ f \in [Nat -> A]
    /\ f[0] = a
    /\ \A n \in Nat : f[n + 1] = step[n][f[n]]

\* A loop computes something.
LEMMA Recursion ==
    ASSUME NEW A, NEW a \in A, NEW step \in Passes(A)
    PROVE  \E f : Computes(f, A, a, step)
<1> USE DEF Passes
<1> DEFINE Follows(f, n) ==
        f[0] = a /\ \A i \in 0 .. n - 1 : f[i + 1] = step[i][f[i]]
    S == {n \in Nat : \E f \in [Nat -> A] : Follows(f, n)}
<1>1. 0 \in S
  <2>1. [i \in Nat |-> a] \in [Nat -> A] /\ Follows([i \in Nat |-> a], 0)
    OBVIOUS
  <2> QED BY <2>1
<1>2. ASSUME NEW n \in Nat, n \in S PROVE n + 1 \in S
  <2>1. PICK f \in [Nat -> A] : Follows(f, n)
    BY <1>2
  <2> DEFINE g == [f EXCEPT ![n + 1] = step[n][f[n]]]
  <2>2. g \in [Nat -> A] /\ n + 1 \in Nat
    OBVIOUS
  <2>3. g[0] = a
    BY <2>1
  <2>4. ASSUME NEW i \in 0 .. n PROVE g[i + 1] = step[i][g[i]]
    <3>1. CASE i = n
      BY <3>1
    <3>2. CASE i # n
      BY <3>2, <2>1
    <3> QED BY <3>1, <3>2
  <2>5. \A i \in 0 .. (n + 1) - 1 : g[i + 1] = step[i][g[i]]
    BY <2>4
  <2>6. Follows(g, n + 1)
    BY <2>3, <2>5
  <2> HIDE DEF g, Follows
  <2> QED BY <2>2, <2>6
<1>3. \A n \in Nat : n \in S
  <2> HIDE DEF S
  <2> QED BY <1>1, <1>2, Induction
<1> DEFINE F == [n \in Nat |-> CHOOSE f \in [Nat -> A] : Follows(f, n)]
<1>4. ASSUME NEW n \in Nat PROVE F[n] \in [Nat -> A] /\ Follows(F[n], n)
  <2>1. \E f \in [Nat -> A] : Follows(f, n)
    BY <1>3
  <2> HIDE DEF Follows
  <2> QED BY <2>1
<1> HIDE DEF F
\* What one loop computed is what a longer one computes.
<1>5. ASSUME NEW n \in Nat PROVE F[n + 1][n] = F[n][n]
  <2> DEFINE T == {i \in Nat : i <= n => F[n + 1][i] = F[n][i]}
  <2>1. 0 \in T
    BY <1>4
  <2>2. ASSUME NEW i \in Nat, i \in T PROVE i + 1 \in T
    <3> SUFFICES ASSUME i + 1 <= n PROVE F[n + 1][i + 1] = F[n][i + 1]
      OBVIOUS
    <3>1. i \in 0 .. n - 1 /\ i \in 0 .. (n + 1) - 1
      OBVIOUS
    <3>2. F[n + 1][i + 1] = step[i][F[n + 1][i]] /\ F[n][i + 1] = step[i][F[n][i]]
      BY <3>1, <1>4
    <3> QED BY <3>2, <2>2
  <2>3. \A i \in Nat : i \in T
    <3> HIDE DEF T
    <3> QED BY <2>1, <2>2, Induction
  <2> QED BY <2>3
<1> DEFINE f == [n \in Nat |-> F[n][n]]
<1>6. f \in [Nat -> A] /\ f[0] = a
    BY <1>4
<1>7. ASSUME NEW n \in Nat PROVE f[n + 1] = step[n][f[n]]
  <2>1. n \in 0 .. (n + 1) - 1
    OBVIOUS
  <2> QED BY <2>1, <1>4, <1>5
<1> HIDE DEF f
<1> QED
    BY <1>6, <1>7 DEF Computes

\* What a loop of n passes computes, as a recursive function defines it.
ComputesTo(f, A, a, step, n) ==
    /\ f \in [0 .. n -> A]
    /\ \A i \in 0 .. n : f[i] = IF i = 0 THEN a ELSE step[i - 1][f[i - 1]]

\* Such a loop computes something: what Recursion gives, up to n.
LEMMA RecursionTo ==
    ASSUME NEW A, NEW a \in A, NEW step \in Passes(A), NEW n \in Nat
    PROVE  \E f : ComputesTo(f, A, a, step, n)
<1>1. PICK f : Computes(f, A, a, step)
    BY Recursion
<1> DEFINE g == [i \in 0 .. n |-> f[i]]
<1>2. g \in [0 .. n -> A]
    BY <1>1 DEF Computes
<1>3. ASSUME NEW i \in 0 .. n PROVE g[i] = IF i = 0 THEN a ELSE step[i - 1][g[i - 1]]
  <2>1. CASE i = 0
    BY <2>1, <1>1 DEF Computes
  <2>2. CASE i # 0
    <3>1. i - 1 \in Nat /\ (i - 1) + 1 = i /\ i - 1 \in 0 .. n
      BY <2>2
    <3>2. f[i] = step[i - 1][f[i - 1]]
      BY <3>1, <1>1 DEF Computes
    <3> QED BY <2>2, <3>1, <3>2
  <2> QED BY <2>1, <2>2
<1> HIDE DEF g
<1> QED
    BY <1>2, <1>3 DEF ComputesTo

-----------------------------------------------------------------------------
(* Powers of two                                                           *)

\* The powers of two double.
LEMMA TwoToStep ==
    /\ TwoTo[0] = 1
    /\ \A n \in Nat : TwoTo[n] \in Nat \ {0} /\ TwoTo[n + 1] = 2 * TwoTo[n]
<1> DEFINE A == Nat
           a == 1
           step == [n \in Nat |-> [x \in A |-> 2 * x]]
<1>1. a \in A /\ step \in Passes(A)
    BY DEF Passes
<1>2. PICK f : Computes(f, A, a, step)
  <2> HIDE DEF step, A, a
  <2> QED BY <1>1, Recursion
<1>3. f = [n \in Nat |-> IF n = 0 THEN 1 ELSE 2 * f[n - 1]]
  <2>1. ASSUME NEW n \in Nat PROVE f[n] = IF n = 0 THEN 1 ELSE 2 * f[n - 1]
    <3>1. CASE n = 0
      BY <3>1, <1>2 DEF Computes
    <3>2. CASE n # 0
      <4>1. n - 1 \in Nat /\ (n - 1) + 1 = n
        BY <3>2
      <4> QED BY <4>1, <3>2, <1>2 DEF Computes
    <3> QED BY <3>1, <3>2
  <2> HIDE DEF step
  <2> QED BY <2>1, <1>2 DEF Computes
<1>4. TwoTo = [n \in Nat |-> IF n = 0 THEN 1 ELSE 2 * TwoTo[n - 1]]
    BY <1>3 DEF TwoTo
<1>5. TwoTo[0] = 1 /\ \A n \in Nat : TwoTo[n + 1] = 2 * TwoTo[n]
    BY <1>4
<1> DEFINE S == {n \in Nat : TwoTo[n] \in Nat \ {0}}
<1>6. 0 \in S /\ \A n \in Nat : n \in S => n + 1 \in S
    BY <1>5
<1>7. \A n \in Nat : n \in S
  <2> HIDE DEF S
  <2> QED BY <1>6, Induction
<1> QED
    BY <1>5, <1>7

\* The power of a sum is the product of the powers.
LEMMA TwoToSum ==
    ASSUME NEW m \in Nat
    PROVE  \A n \in Nat : TwoTo[m + n] = TwoTo[m] * TwoTo[n]
<1> DEFINE S == {n \in Nat : TwoTo[m + n] = TwoTo[m] * TwoTo[n]}
<1>1. 0 \in S
    BY TwoToStep
<1>2. ASSUME NEW n \in Nat, n \in S PROVE n + 1 \in S
  <2>1. TwoTo[m + (n + 1)] = 2 * TwoTo[m + n]
    <3>1. m + n \in Nat /\ m + (n + 1) = (m + n) + 1
      OBVIOUS
    <3> QED BY <3>1, TwoToStep
  <2>2. TwoTo[n + 1] = 2 * TwoTo[n]
    BY TwoToStep
  <2>3. TwoTo[m] \in Nat /\ TwoTo[n] \in Nat
    BY TwoToStep
  <2>4. 2 * (TwoTo[m] * TwoTo[n]) = TwoTo[m] * (2 * TwoTo[n])
    BY <2>3
  <2> QED BY <1>2, <2>1, <2>2, <2>4
<1>3. \A n \in Nat : n \in S
  <2> HIDE DEF S
  <2> QED BY <1>1, <1>2, Induction
<1> QED
    BY <1>3

-----------------------------------------------------------------------------
(* Division                                                                *)

\* What quotient and remainder are.
LEMMA Division ==
    ASSUME NEW a \in Nat, NEW b \in Nat \ {0}
    PROVE  a \div b \in Nat /\ a % b \in 0 .. b - 1 /\ a = (a \div b) * b + (a % b)
OBVIOUS

\* A quotient and a remainder that fit are the quotient and the remainder.
LEMMA QuotientIs ==
    ASSUME NEW b \in Nat \ {0}, NEW q \in Nat, NEW r \in 0 .. b - 1
    PROVE  (q * b + r) \div b = q /\ (q * b + r) % b = r
<1> DEFINE a == q * b + r
           p == a \div b
           s == a % b
<1>1. a \in Nat
    OBVIOUS
<1>2. p \in Nat /\ s \in 0 .. b - 1 /\ a = p * b + s
    BY <1>1, Division
<1>3. p * b + s = q * b + r
    BY <1>2
<1>4. p = q
  <2> HIDE DEF p, s
  <2>1. (p - q) * b = r - s
    BY <1>2, <1>3
  <2>2. CASE p > q
    <3>1. (p - q) * b >= b
      BY <2>2, <1>2
    <3> QED BY <3>1, <2>1, <1>2
  <2>3. CASE p < q
    <3>1. (p - q) * b <= -b
      BY <2>3, <1>2
    <3> QED BY <3>1, <2>1, <1>2
  <2> QED BY <2>2, <2>3, <1>2
<1>5. s = r
  <2> HIDE DEF p, s
  <2> QED BY <1>2, <1>3, <1>4
<1> QED
    BY <1>4, <1>5

\* A sum times a weight, and that nothing in it is negative.
LEMMA Products ==
    ASSUME NEW x \in Nat, NEW y \in Nat, NEW w \in Nat, NEW b \in Nat
    PROVE  /\ (x * w + y) * b = x * (b * w) + y * b
           /\ x * (b * w) \in Nat /\ y * b \in Nat
OBVIOUS

\* Multiples of the divisor do not change the remainder.
LEMMA RemainderIs ==
    ASSUME NEW b \in Nat \ {0}, NEW a \in Nat, NEW q \in Nat
    PROVE  (a + q * b) % b = a % b
<1> DEFINE p == a \div b
           r == a % b
<1>1. p \in Nat /\ r \in 0 .. b - 1 /\ a = p * b + r
    BY Division
<1>2. a + q * b = (p + q) * b + r /\ p + q \in Nat
    BY <1>1
<1>3. ((p + q) * b + r) % b = r
  <2> HIDE DEF p, r
  <2> QED BY <1>1, <1>2, QuotientIs
<1> QED
    BY <1>2, <1>3

-----------------------------------------------------------------------------
(* Words and their weights                                                 *)

\* What SizesAssumption says of all the sizes (uint256.h:14-16).
LEMMA SizeFacts ==
    /\ Words \in Nat \ {0} /\ WordBits \in Nat \ {0}
    /\ DigitsPerWord \in Nat \ {0} /\ WordBits = DigitsPerWord * DigitBits
    /\ DigitBits \in Nat \ {0} /\ Bits \in Nat
    /\ Index = 0 .. Words - 1 /\ 0 \in Index
<1>1. Words \in Nat \ {0} /\ WordBits \in Nat \ {0} /\ DigitBits \in 1 .. WordBits
      /\ WordBits % DigitBits = 0
    BY SizesAssumption
<1>2. /\ DigitsPerWord \in Nat
      /\ WordBits = DigitsPerWord * DigitBits + (WordBits % DigitBits)
    BY <1>1, Division DEF DigitsPerWord
<1>3. WordBits = DigitsPerWord * DigitBits
    BY <1>1, <1>2
<1>4. DigitsPerWord # 0
    BY <1>1, <1>3
<1> QED
    BY <1>1, <1>2, <1>3, <1>4 DEF Bits, Index

\* Each word counts Base times as much as the one below it, and the word
\* beyond the last 2^256.
LEMMA WeightFacts ==
    /\ Base \in Nat /\ Base >= 2
    /\ DigitBase \in Nat /\ DigitBase >= 2
    /\ Weight(0) = 1 /\ Weight(1) = Base
    /\ Modulus = Weight(Words)
    /\ \A i \in Nat : Weight(i) \in Nat \ {0} /\ Weight(i + 1) = Base * Weight(i)
<1>1. \A n \in Nat : TwoTo[n] \in Nat \ {0} /\ TwoTo[n + 1] = 2 * TwoTo[n]
    BY TwoToStep
<1>2. ASSUME NEW n \in Nat \ {0} PROVE TwoTo[n] \in Nat /\ TwoTo[n] >= 2
  <2>1. n - 1 \in Nat /\ n = (n - 1) + 1
    OBVIOUS
  <2>2. TwoTo[n] = 2 * TwoTo[n - 1] /\ TwoTo[n - 1] \in Nat \ {0}
    BY <2>1, <1>1
  <2> QED BY <2>2
<1>3. Base \in Nat /\ Base >= 2 /\ DigitBase \in Nat /\ DigitBase >= 2
    BY <1>2, SizeFacts DEF Base, DigitBase
<1>4. Weight(0) = 1
    BY TwoToStep, SizeFacts DEF Weight
<1>5. ASSUME NEW i \in Nat
      PROVE  Weight(i) \in Nat \ {0} /\ Weight(i + 1) = Base * Weight(i)
  <2>1. /\ WordBits * i \in Nat /\ WordBits \in Nat
        /\ WordBits * (i + 1) = WordBits + WordBits * i
    BY SizeFacts
  <2> QED BY <2>1, <1>1, TwoToSum DEF Weight, Base
<1>6. Modulus = Weight(Words)
  <2>1. Bits = WordBits * Words
    BY SizeFacts DEF Bits
  <2> QED BY <2>1 DEF Modulus, Weight
<1>7. Weight(1) = Base
  <2>1. Weight(0 + 1) = Base * Weight(0)
    BY <1>5
  <2> QED BY <2>1, <1>3, <1>4
<1> QED
    BY <1>3, <1>4, <1>5, <1>6, <1>7

\* The weight of a word so many words further up.
LEMMA WeightSum ==
    ASSUME NEW i \in Nat, NEW j \in Nat
    PROVE  Weight(i + j) = Weight(i) * Weight(j)
<1>1. /\ WordBits * i \in Nat /\ WordBits * j \in Nat
      /\ WordBits * (i + j) = WordBits * i + WordBits * j
    BY SizeFacts
<1> QED
    BY <1>1, TwoToSum DEF Weight

\* An index is a position, and so is the next one.
LEMMA IndexFacts ==
    ASSUME NEW i \in Index
    PROVE  /\ i \in Nat /\ i + 1 \in Nat /\ i < Words
           /\ i \in 0 .. Words /\ i + 1 \in 0 .. Words
           /\ Weight(i) \in Nat \ {0}
<1>1. /\ i \in Nat /\ i + 1 \in Nat /\ i < Words
      /\ i \in 0 .. Words /\ i + 1 \in 0 .. Words
    BY SizeFacts
<1> QED
    BY <1>1, WeightFacts

\* A word is less than 2^32.
LEMMA WordFacts ==
    ASSUME NEW v \in UInt, NEW i \in Index
    PROVE  v[i] \in Nat /\ v[i] < Base /\ v[i] <= Base - 1
<1>1. v[i] \in 0 .. Base - 1 /\ Base \in Nat
    BY WeightFacts DEF UInt
<1> QED
    BY <1>1

\* Each word adds its value times its weight.
LEMMA LowSteps ==
    ASSUME NEW v \in UInt
    PROVE  /\ Low(v)[0] = 0
           /\ \A i \in Index : Low(v)[i + 1] = Low(v)[i] + v[i] * Weight(i)
           /\ \A i \in 0 .. Words : Low(v)[i] \in Nat
<1> DEFINE A == Nat
           a == 0
           step == [i \in Nat |->
                       [x \in A |-> IF i \in Index THEN x + v[i] * Weight(i) ELSE x]]
<1>1. \A i \in Index : v[i] \in Nat /\ Weight(i) \in Nat
    BY IndexFacts, WordFacts
<1>2. a \in A /\ step \in Passes(A) /\ Words \in Nat
  <2>1. ASSUME NEW i \in Nat, NEW x \in Nat, i \in Index
        PROVE  x + v[i] * Weight(i) \in Nat
    <3>1. v[i] * Weight(i) \in Nat
      BY <1>1, <2>1
    <3> QED BY <3>1
  <2> QED BY <2>1, SizeFacts DEF Passes
<1>3. PICK f : ComputesTo(f, A, a, step, Words)
  <2> HIDE DEF A, a, step
  <2> QED BY <1>2, RecursionTo
<1>4. f = [i \in 0 .. Words |->
              IF i = 0 THEN 0 ELSE f[i - 1] + v[i - 1] * Weight(i - 1)]
  <2>1. ASSUME NEW i \in 0 .. Words
        PROVE  f[i] = IF i = 0 THEN 0 ELSE f[i - 1] + v[i - 1] * Weight(i - 1)
    <3>1. CASE i = 0
      BY <3>1, <1>3 DEF ComputesTo
    <3>2. CASE i # 0
      <4>1. i - 1 \in Index /\ i - 1 \in Nat /\ i - 1 \in 0 .. Words
        BY <3>2, SizeFacts
      <4>2. f[i] = step[i - 1][f[i - 1]] /\ f[i - 1] \in A
        BY <4>1, <3>2, <1>3 DEF ComputesTo
      <4> QED BY <4>1, <4>2, <3>2
    <3> QED BY <3>1, <3>2
  <2> HIDE DEF step
  <2> QED BY <2>1, <1>3 DEF ComputesTo
<1>5. Low(v) = [i \in 0 .. Words |->
                   IF i = 0 THEN 0 ELSE Low(v)[i - 1] + v[i - 1] * Weight(i - 1)]
    BY <1>4 DEF Low
<1> HIDE DEF A, a, step
<1>6. Low(v)[0] = 0
    BY <1>5, SizeFacts
<1>7. ASSUME NEW i \in Index PROVE Low(v)[i + 1] = Low(v)[i] + v[i] * Weight(i)
  <2>1. i + 1 \in 0 .. Words /\ i + 1 # 0 /\ (i + 1) - 1 = i
    BY SizeFacts
  <2> QED BY <2>1, <1>5
<1> DEFINE S == {i \in Nat : i <= Words => Low(v)[i] \in Nat}
<1>8. 0 \in S
    BY <1>6
<1>9. ASSUME NEW i \in Nat, i \in S PROVE i + 1 \in S
  <2> SUFFICES ASSUME i + 1 <= Words PROVE Low(v)[i + 1] \in Nat
    OBVIOUS
  <2>1. i \in Index /\ i <= Words
    BY SizeFacts
  <2>2. Low(v)[i] \in Nat
    BY <1>9, <2>1
  <2>3. v[i] * Weight(i) \in Nat
    BY <1>1, <2>1
  <2> QED BY <2>1, <2>2, <2>3, <1>7
<1>10. \A i \in Nat : i \in S
  <2> HIDE DEF S
  <2> QED BY <1>8, <1>9, Induction
<1> QED
    BY <1>6, <1>7, <1>10

\* What lower words stand for is less than the weight of the next one.
LEMMA LowBound ==
    ASSUME NEW v \in UInt
    PROVE  \A i \in 0 .. Words : Low(v)[i] \in 0 .. Weight(i) - 1
<1> DEFINE S == {i \in Nat : i <= Words => Low(v)[i] < Weight(i)}
<1>1. 0 \in S
    BY LowSteps, WeightFacts
<1>2. ASSUME NEW i \in Nat, i \in S PROVE i + 1 \in S
  <2> SUFFICES ASSUME i + 1 <= Words PROVE Low(v)[i + 1] < Weight(i + 1)
    OBVIOUS
  <2>1. i \in Index /\ i \in 0 .. Words /\ v[i] \in 0 .. Base - 1
    BY SizeFacts DEF UInt
  <2>2. Low(v)[i + 1] = Low(v)[i] + v[i] * Weight(i) /\ Low(v)[i] \in Nat
    BY <2>1, LowSteps
  <2>3. Low(v)[i] < Weight(i)
    BY <1>2, <2>1
  <2>4. Weight(i) \in Nat /\ Weight(i + 1) = Base * Weight(i) /\ Base \in Nat
    BY WeightFacts
  <2>5. v[i] * Weight(i) <= (Base - 1) * Weight(i)
    BY <2>1, <2>4
  <2>6. (Base - 1) * Weight(i) = Base * Weight(i) - Weight(i)
    BY <2>4
  <2> QED BY <2>1, <2>2, <2>3, <2>4, <2>5, <2>6
<1>3. \A i \in Nat : i \in S
  <2> HIDE DEF S
  <2> QED BY <1>1, <1>2, Induction
<1>4. ASSUME NEW i \in 0 .. Words PROVE Low(v)[i] \in 0 .. Weight(i) - 1
  <2>1. i \in Nat /\ i <= Words
    BY SizeFacts
  <2>2. Low(v)[i] < Weight(i)
    BY <1>3, <2>1
  <2>3. Low(v)[i] \in Nat /\ Weight(i) \in Nat
    BY <2>1, LowSteps, WeightFacts
  <2> QED BY <2>2, <2>3
<1> QED
    BY <1>4

\* The words from i on stand for a multiple of the weight of word i.
LEMMA HighWords ==
    ASSUME NEW v \in UInt, NEW i \in 0 .. Words
    PROVE  \E h \in Nat : Value(v) = Low(v)[i] + h * Weight(i)
<1> DEFINE S == {j \in Nat : i + j <= Words =>
                     \E h \in Nat : Low(v)[i + j] = Low(v)[i] + h * Weight(i)}
<1>1. 0 \in S
  <2>1. Low(v)[i + 0] = Low(v)[i] + 0 * Weight(i)
    BY LowSteps, WeightFacts
  <2> QED BY <2>1
<1>2. ASSUME NEW j \in Nat, j \in S PROVE j + 1 \in S
  <2> SUFFICES ASSUME i + (j + 1) <= Words
               PROVE  \E h \in Nat : Low(v)[i + (j + 1)] = Low(v)[i] + h * Weight(i)
    OBVIOUS
  <2>0. i \in Nat /\ i + (j + 1) = (i + j) + 1
    BY SizeFacts
  <2>1. i + j \in Index /\ v[i + j] \in Nat /\ i + j <= Words
    <3>1. i + j \in Index
      BY <2>0, SizeFacts
    <3> QED BY <3>1, IndexFacts, WordFacts
  <2>2. PICK h \in Nat : Low(v)[i + j] = Low(v)[i] + h * Weight(i)
    BY <1>2, <2>1
  <2>3. Low(v)[i + (j + 1)] = Low(v)[i + j] + v[i + j] * Weight(i + j)
    BY <2>0, <2>1, LowSteps
  <2>4. Weight(i + j) = Weight(i) * Weight(j) /\ Weight(i) \in Nat /\ Weight(j) \in Nat
    BY <2>0, WeightSum, WeightFacts
  <2> DEFINE g == h + v[i + j] * Weight(j)
  <2>5. v[i + j] * Weight(i + j) = (v[i + j] * Weight(j)) * Weight(i)
    BY <2>1, <2>4
  <2>6. g \in Nat /\ g * Weight(i) = h * Weight(i) + (v[i + j] * Weight(j)) * Weight(i)
    BY <2>1, <2>4
  <2>7. Low(v)[i] \in Nat
    BY LowSteps
  <2>8. Low(v)[i + (j + 1)] = Low(v)[i] + g * Weight(i)
    <3> HIDE DEF g
    <3>1. h * Weight(i) \in Nat /\ (v[i + j] * Weight(j)) * Weight(i) \in Nat
      BY <2>1, <2>4
    <3> QED BY <2>2, <2>3, <2>5, <2>6, <2>7, <3>1
  <2> QED BY <2>6, <2>8
<1>3. \A j \in Nat : j \in S
  <2> HIDE DEF S
  <2> QED BY <1>1, <1>2, Induction
<1>4. Words - i \in Nat /\ i + (Words - i) = Words
    BY SizeFacts
<1>5. Words - i \in S
    BY <1>3, <1>4
<1> QED
    BY <1>4, <1>5 DEF Value

\* A value is less than 2^256.
LEMMA ValueBound ==
    ASSUME NEW v \in UInt
    PROVE  Value(v) \in Nat /\ Value(v) < Modulus /\ Modulus \in Nat \ {0}
<1>1. Words \in 0 .. Words /\ Words \in Nat
    BY SizeFacts
<1>2. Low(v)[Words] \in 0 .. Weight(Words) - 1
    BY <1>1, LowBound
<1>3. Weight(Words) \in Nat \ {0}
    BY <1>1, WeightFacts
<1> QED
    BY <1>2, <1>3, WeightFacts DEF Value

\* The words are the digits of the value in the base of a word.
LEMMA WordOfValue ==
    ASSUME NEW v \in UInt, NEW i \in Index
    PROVE  (Value(v) \div Weight(i)) % Base = v[i]
<1>1. /\ i \in Nat /\ i + 1 \in 0 .. Words /\ i \in 0 .. Words
      /\ Weight(i) \in Nat \ {0}
    BY IndexFacts
<1>2. v[i] \in Nat /\ v[i] \in 0 .. Base - 1 /\ Base \in Nat \ {0}
    BY WordFacts, WeightFacts DEF UInt
<1>3. PICK h \in Nat : Value(v) = Low(v)[i + 1] + h * Weight(i + 1)
    BY <1>1, HighWords
<1>4. Low(v)[i + 1] = Low(v)[i] + v[i] * Weight(i) /\ Weight(i + 1) = Base * Weight(i)
    BY <1>1, LowSteps, WeightFacts
<1>5. Low(v)[i] \in 0 .. Weight(i) - 1 /\ Low(v)[i] \in Nat
    BY <1>1, LowBound, LowSteps
<1> DEFINE q == h * Base + v[i]
<1>6. q \in Nat /\ q * Weight(i) = h * (Base * Weight(i)) + v[i] * Weight(i)
    BY <1>1, <1>2
<1>7. Value(v) = q * Weight(i) + Low(v)[i]
  <2> HIDE DEF q
  <2>1. h * (Base * Weight(i)) \in Nat /\ v[i] * Weight(i) \in Nat
    BY <1>1, <1>2
  <2> QED BY <1>3, <1>4, <1>5, <1>6, <2>1
<1>8. Value(v) \div Weight(i) = q
  <2> HIDE DEF q
  <2> QED BY <1>1, <1>5, <1>6, <1>7, QuotientIs
<1>9. q % Base = v[i]
    BY <1>2, QuotientIs
<1> QED
    BY <1>8, <1>9

\* Different arrays stand for different numbers.
LEMMA ValueDetermines ==
    ASSUME NEW v \in UInt, NEW w \in UInt, Value(v) = Value(w)
    PROVE  v = w
<1>1. \A i \in Index : v[i] = w[i]
    BY WordOfValue
<1> QED
    BY <1>1 DEF UInt

\* The words of a value with the numbers low[i] below them.
LEMMA ValueIs ==
    ASSUME NEW v \in UInt, NEW low, low[0] = 0,
           \A i \in Index : low[i + 1] = low[i] + v[i] * Weight(i)
    PROVE  \A i \in 0 .. Words : Low(v)[i] = low[i]
<1> DEFINE S == {i \in Nat : i <= Words => Low(v)[i] = low[i]}
<1>1. 0 \in S
    BY LowSteps
<1>2. ASSUME NEW i \in Nat, i \in S PROVE i + 1 \in S
  <2> SUFFICES ASSUME i + 1 <= Words PROVE Low(v)[i + 1] = low[i + 1]
    OBVIOUS
  <2>1. i \in Index /\ i <= Words
    BY SizeFacts
  <2> QED BY <1>2, <2>1, LowSteps
<1>3. \A i \in Nat : i \in S
  <2> HIDE DEF S
  <2> QED BY <1>1, <1>2, Induction
<1>4. ASSUME NEW i \in 0 .. Words PROVE i \in Nat /\ i <= Words
    BY SizeFacts
<1> QED
    BY <1>3, <1>4

-----------------------------------------------------------------------------
(* Addition and negation                                                   *)

\* The loop of uint256_add carries from word to word (uint256.c:156-171).
LEMMA CarrySteps ==
    ASSUME NEW l \in UInt, NEW r \in UInt
    PROVE  /\ Carry(l, r)[0] = 0
           /\ \A i \in Index :
                  Carry(l, r)[i + 1] =
                      IF Overflows(l[i], r[i], Carry(l, r)[i]) THEN 1 ELSE 0
           /\ \A i \in 0 .. Words : Carry(l, r)[i] \in {0, 1}
<1> DEFINE A == {0, 1}
           a == 0
           step == [i \in Nat |->
                       [c \in A |-> IF Overflows(l[i], r[i], c) THEN 1 ELSE 0]]
<1>1. a \in A /\ step \in Passes(A) /\ Words \in Nat
    BY SizeFacts DEF Passes
<1>2. PICK f : ComputesTo(f, A, a, step, Words)
  <2> HIDE DEF A, a, step
  <2> QED BY <1>1, RecursionTo
<1>3. f = [i \in 0 .. Words |->
              IF i > 0 /\ Overflows(l[i - 1], r[i - 1], f[i - 1]) THEN 1 ELSE 0]
  <2>1. ASSUME NEW i \in 0 .. Words
        PROVE  f[i] = IF i > 0 /\ Overflows(l[i - 1], r[i - 1], f[i - 1])
                      THEN 1 ELSE 0
    <3>1. CASE i = 0
      <4> HIDE DEF A, a, step
      <4>1. f[i] = a /\ ~(i > 0)
        BY <3>1, <1>2 DEF ComputesTo
      <4> QED BY <4>1 DEF a
    <3>2. CASE i # 0
      <4>1. i > 0 /\ i - 1 \in Nat /\ i - 1 \in 0 .. Words
        BY <3>2, SizeFacts
      <4>2. f[i] = step[i - 1][f[i - 1]] /\ f[i - 1] \in A
        BY <4>1, <3>2, <1>2 DEF ComputesTo
      <4> QED BY <4>1, <4>2, <3>2
    <3> QED BY <3>1, <3>2
  <2> HIDE DEF step
  <2> QED BY <2>1, <1>2 DEF ComputesTo
<1>4. Carry(l, r) =
          [i \in 0 .. Words |->
              IF i > 0 /\ Overflows(l[i - 1], r[i - 1], Carry(l, r)[i - 1])
              THEN 1 ELSE 0]
    BY <1>3 DEF Carry
<1> HIDE DEF A, a, step
<1>5. Carry(l, r)[0] = 0
    BY <1>4, SizeFacts
<1>6. ASSUME NEW i \in Index
      PROVE  Carry(l, r)[i + 1] =
                 IF Overflows(l[i], r[i], Carry(l, r)[i]) THEN 1 ELSE 0
  <2>1. i + 1 \in 0 .. Words /\ i + 1 > 0 /\ (i + 1) - 1 = i
    BY SizeFacts
  <2> QED BY <2>1, <1>4
<1>7. \A i \in 0 .. Words : Carry(l, r)[i] \in {0, 1}
    BY <1>4
<1> QED
    BY <1>5, <1>6, <1>7

\* The carry is what the sum of two words loses.
LEMMA CarryIsRight ==
    ASSUME NEW l \in Nat, l < Base, NEW r \in Nat, r < Base, NEW c \in {0, 1}
    PROVE  /\ WordSum(l, r, c) \in 0 .. Base - 1
           /\ WordSum(l, r, c) + (IF Overflows(l, r, c) THEN 1 ELSE 0) * Base = l + r + c
<1>1. Base \in Nat \ {0} /\ Base \in Int
    BY WeightFacts
<1>2. CASE l + r + c < Base
  <2>1. l + r + c \in 0 .. Base - 1 /\ l + r + c = 0 * Base + (l + r + c)
    BY <1>1, <1>2
  <2>2. WordSum(l, r, c) = l + r + c
    BY <1>1, <2>1, QuotientIs DEF WordSum
  <2> QED BY <1>1, <2>1, <2>2 DEF Overflows
<1>3. CASE l + r + c >= Base
  <2> DEFINE rest == l + r + c - Base
  <2>1. rest \in 0 .. Base - 1 /\ l + r + c = 1 * Base + rest
    BY <1>1, <1>3
  <2>2. WordSum(l, r, c) = rest
    <3> HIDE DEF rest
    <3> QED BY <1>1, <2>1, QuotientIs DEF WordSum
  <2>3. Overflows(l, r, c)
    BY <1>1, <2>2 DEF Overflows
  <2> QED BY <1>1, <2>1, <2>2, <2>3
<1> QED
    BY <1>1, <1>2, <1>3

\* Each pass of uint256_add loses nothing (uint256.c:161-169).
LEMMA AddWords ==
    ASSUME NEW l \in UInt, NEW r \in UInt
    PROVE  /\ Add(l, r) \in UInt
           /\ \A i \in Index :
                  Add(l, r)[i] + Carry(l, r)[i + 1] * Base
                      = l[i] + r[i] + Carry(l, r)[i]
<1>1. \A i \in Index : Add(l, r)[i] = WordSum(l[i], r[i], Carry(l, r)[i])
    BY DEF Add
<1>2. ASSUME NEW i \in Index
      PROVE  /\ Add(l, r)[i] \in 0 .. Base - 1
             /\ Add(l, r)[i] + Carry(l, r)[i + 1] * Base
                    = l[i] + r[i] + Carry(l, r)[i]
  <2>1. l[i] \in Nat /\ l[i] < Base /\ r[i] \in Nat /\ r[i] < Base
    BY WordFacts
  <2>2. Carry(l, r)[i] \in {0, 1}
    BY CarrySteps, IndexFacts
  <2>3. Carry(l, r)[i + 1] = IF Overflows(l[i], r[i], Carry(l, r)[i]) THEN 1 ELSE 0
    BY CarrySteps
  <2> QED BY <1>1, <2>1, <2>2, <2>3, CarryIsRight
<1>3. Add(l, r) \in UInt
  <2>1. Add(l, r) = [i \in Index |-> Add(l, r)[i]]
    BY DEF Add
  <2> QED BY <1>2, <2>1 DEF UInt
<1> QED
    BY <1>2, <1>3

\* The lower words of a sum, with the carry out of them, are the sum of the lower words.
LEMMA AddLow ==
    ASSUME NEW l \in UInt, NEW r \in UInt
    PROVE  \A i \in 0 .. Words :
               Low(Add(l, r))[i] + Carry(l, r)[i] * Weight(i) = Low(l)[i] + Low(r)[i]
<1> DEFINE s == Add(l, r)
           c == Carry(l, r)
           S == {i \in Nat : i <= Words =>
                    Low(s)[i] + c[i] * Weight(i) = Low(l)[i] + Low(r)[i]}
<1>1. s \in UInt
    BY AddWords
<1>2. 0 \in S
    BY <1>1, LowSteps, CarrySteps, WeightFacts
<1>3. ASSUME NEW i \in Nat, i \in S PROVE i + 1 \in S
  <2> SUFFICES ASSUME i + 1 <= Words
               PROVE  Low(s)[i + 1] + c[i + 1] * Weight(i + 1)
                          = Low(l)[i + 1] + Low(r)[i + 1]
    OBVIOUS
  <2>1. i \in Index /\ i <= Words
    BY SizeFacts
  <2>2. i \in 0 .. Words /\ i + 1 \in 0 .. Words /\ Weight(i) \in Nat
    BY <2>1, IndexFacts
  <2>3. Low(s)[i] + c[i] * Weight(i) = Low(l)[i] + Low(r)[i]
    BY <1>3, <2>1
  <2>4. s[i] + c[i + 1] * Base = l[i] + r[i] + c[i]
    BY <2>1, AddWords
  <2>5. Weight(i + 1) = Base * Weight(i) /\ Base \in Nat
    BY <2>2, WeightFacts
  <2>6. s[i] \in Nat /\ l[i] \in Nat /\ r[i] \in Nat
    BY <1>1, <2>1, WordFacts
  <2>7. c[i] \in Nat /\ c[i + 1] \in Nat
    BY <2>2, CarrySteps
  <2>8. Low(s)[i] \in Nat /\ Low(l)[i] \in Nat /\ Low(r)[i] \in Nat
    BY <1>1, <2>2, LowSteps
  <2>9. /\ Low(s)[i + 1] = Low(s)[i] + s[i] * Weight(i)
        /\ Low(l)[i + 1] = Low(l)[i] + l[i] * Weight(i)
        /\ Low(r)[i + 1] = Low(r)[i] + r[i] * Weight(i)
    BY <1>1, <2>1, LowSteps
  <2> HIDE DEF s, c
  <2>10. (s[i] + c[i + 1] * Base) * Weight(i)
             = s[i] * Weight(i) + c[i + 1] * (Base * Weight(i))
    BY <2>2, <2>5, <2>6, <2>7
  <2>11. (l[i] + r[i] + c[i]) * Weight(i)
             = l[i] * Weight(i) + r[i] * Weight(i) + c[i] * Weight(i)
    BY <2>2, <2>6, <2>7
  <2>12. /\ s[i] * Weight(i) \in Nat /\ c[i + 1] * (Base * Weight(i)) \in Nat
         /\ l[i] * Weight(i) \in Nat /\ r[i] * Weight(i) \in Nat
         /\ c[i] * Weight(i) \in Nat
    BY <2>2, <2>5, <2>6, <2>7
  <2> QED BY <2>3, <2>4, <2>5, <2>8, <2>9, <2>10, <2>11, <2>12
<1>4. \A i \in Nat : i \in S
  <2> HIDE DEF S
  <2> QED BY <1>2, <1>3, Induction
<1>5. ASSUME NEW i \in 0 .. Words PROVE i \in Nat /\ i <= Words
    BY SizeFacts
<1> QED
    BY <1>4, <1>5

\* uint256_add is addition modulo 2^256 (uint256.c:153-175).
LEMMA AddValue ==
    ASSUME NEW l \in UInt, NEW r \in UInt
    PROVE  Add(l, r) \in UInt /\ Value(Add(l, r)) = (Value(l) + Value(r)) % Modulus
<1> DEFINE x == Value(Add(l, r))
           c == Carry(l, r)[Words]
<1>1. Add(l, r) \in UInt
    BY AddWords
<1>2. Words \in 0 .. Words
    BY SizeFacts
<1>3. x + c * Modulus = Value(l) + Value(r)
    BY <1>2, AddLow, WeightFacts DEF Value
<1>4. x \in Nat /\ x < Modulus /\ Modulus \in Nat \ {0}
    BY <1>1, ValueBound
<1>5. c \in Nat
    BY <1>2, CarrySteps
<1>6. (c * Modulus + x) % Modulus = x
  <2> HIDE DEF x, c
  <2> QED BY <1>4, <1>5, QuotientIs
<1>7. c * Modulus + x = Value(l) + Value(r)
  <2> HIDE DEF x, c
  <2>1. c * Modulus \in Nat
    BY <1>4, <1>5
  <2> QED BY <1>3, <1>4, <2>1
<1> QED
    BY <1>1, <1>6, <1>7

\* A summand may be replaced by its remainder.
LEMMA SumOfRemainder ==
    ASSUME NEW m \in Nat \ {0}, NEW a \in Nat, NEW b \in Nat
    PROVE  (a + (b % m)) % m = (a + b) % m
<1> DEFINE q == b \div m
           r == b % m
<1>1. q \in Nat /\ r \in Nat /\ b = q * m + r
    BY Division
<1>2. a + r \in Nat /\ (a + r) + q * m = a + b
  <2> HIDE DEF q, r
  <2>1. q * m \in Nat
    BY <1>1
  <2> QED BY <1>1, <2>1
<1>3. ((a + r) + q * m) % m = (a + r) % m
  <2> HIDE DEF q, r
  <2> QED BY <1>1, <1>2, RemainderIs
<1> QED
    BY <1>2, <1>3

\* Both summands may be replaced by their remainders.
LEMMA SumOfRemainders ==
    ASSUME NEW m \in Nat \ {0}, NEW a \in Nat, NEW b \in Nat
    PROVE  ((a % m) + (b % m)) % m = (a + b) % m
<1> DEFINE r == a % m
<1>1. r \in Nat
    BY Division
<1>2. (r + (b % m)) % m = (r + b) % m
  <2> HIDE DEF r
  <2> QED BY <1>1, SumOfRemainder
<1>3. (b + (a % m)) % m = (b + a) % m
    BY SumOfRemainder
<1>4. r + b = b + (a % m) /\ b + a = a + b
    BY <1>1
<1> QED
    BY <1>2, <1>3, <1>4

\* uint256_create_from_u32 stands for its argument (uint256.c:11-18).
LEMMA CreateValue ==
    ASSUME NEW w \in 0 .. Base - 1
    PROVE  CreateFromU32(w) \in UInt /\ Value(CreateFromU32(w)) = w
<1> DEFINE v == CreateFromU32(w)
           low == [i \in 0 .. Words |-> IF i = 0 THEN 0 ELSE w]
<1>1. 0 \in 0 .. Base - 1 /\ w \in Nat
    BY WeightFacts
<1>2. v \in UInt
    BY <1>1 DEF CreateFromU32, UInt
<1>3. low[0] = 0 /\ low[Words] = w /\ Words \in 0 .. Words
    BY SizeFacts
<1>4. ASSUME NEW i \in Index PROVE low[i + 1] = low[i] + v[i] * Weight(i)
  <2>1. i \in 0 .. Words /\ i + 1 \in 0 .. Words /\ i + 1 # 0 /\ Weight(i) \in Nat
    <3>1. i \in Nat
      BY IndexFacts
    <3> QED BY <3>1, IndexFacts
  <2>2. low[i + 1] = w
    BY <2>1
  <2>3. CASE i = 0
    BY <2>1, <2>2, <2>3, <1>1, WeightFacts DEF CreateFromU32
  <2>4. CASE i # 0
    <3>1. v[i] = 0 /\ low[i] = w
      BY <2>1, <2>4 DEF CreateFromU32
    <3> QED BY <2>1, <2>2, <3>1, <1>1
  <2> QED BY <2>3, <2>4
<1>5. Low(v)[Words] = low[Words]
  <2> HIDE DEF low, v
  <2> QED BY <1>2, <1>3, <1>4, ValueIs
<1> QED
    BY <1>2, <1>3, <1>5 DEF Value

\* Multiplying out a complement.
LEMMA Distribute ==
    ASSUME NEW a \in Int, NEW b \in Int, NEW w \in Int
    PROVE  (a - 1 - b) * w = a * w - w - b * w
OBVIOUS

\* uint256_negate is the complement to 2^256 (uint256.c:187-199).
LEMMA NegateValue ==
    ASSUME NEW v \in UInt
    PROVE  /\ Negate(v) \in UInt
           /\ Value(Negate(v)) = (Modulus - Value(v)) % Modulus
<1> DEFINE w == [i \in Index |-> Base - 1 - v[i]]
           low == [i \in 0 .. Words |-> Weight(i) - 1 - Low(v)[i]]
<1>1. w \in UInt
  <2>1. \A i \in Index : Base - 1 - v[i] \in 0 .. Base - 1
    BY WordFacts, WeightFacts
  <2> QED BY <2>1 DEF UInt
<1>2. low[0] = 0 /\ Words \in 0 .. Words
  <2>1. 0 \in 0 .. Words /\ Words \in 0 .. Words
    BY SizeFacts
  <2>2. Low(v)[0] = 0 /\ Weight(0) = 1
    BY LowSteps, WeightFacts
  <2> QED BY <2>1, <2>2
<1>3. ASSUME NEW i \in Index PROVE low[i + 1] = low[i] + w[i] * Weight(i)
  <2>1. /\ i \in Nat /\ i \in 0 .. Words /\ i + 1 \in 0 .. Words
        /\ Weight(i) \in Nat
    BY IndexFacts
  <2>2. Low(v)[i + 1] = Low(v)[i] + v[i] * Weight(i) /\ Low(v)[i] \in Nat
    BY <2>1, LowSteps
  <2>3. Weight(i + 1) = Base * Weight(i) /\ Base \in Nat
    BY <2>1, WeightFacts
  <2>4. v[i] \in Nat
    BY WordFacts
  <2>5. (Base - 1 - v[i]) * Weight(i) = Base * Weight(i) - Weight(i) - v[i] * Weight(i)
    <3> HIDE DEF w, low
    <3>1. Base \in Int /\ v[i] \in Int /\ Weight(i) \in Int
      BY <2>1, <2>3, <2>4
    <3> QED BY <3>1, Distribute
  <2>6. Base * Weight(i) \in Nat /\ v[i] * Weight(i) \in Nat
    BY <2>1, <2>3, <2>4
  <2>7. /\ low[i + 1] = Base * Weight(i) - 1 - (Low(v)[i] + v[i] * Weight(i))
        /\ low[i] = Weight(i) - 1 - Low(v)[i]
    BY <2>1, <2>2, <2>3
  <2> QED BY <2>1, <2>2, <2>5, <2>6, <2>7
<1>4. Low(w)[Words] = low[Words]
  <2> HIDE DEF low, w
  <2> QED BY <1>1, <1>2, <1>3, ValueIs
<1>5. Value(w) = Modulus - 1 - Value(v)
    BY <1>2, <1>4, WeightFacts DEF Value
<1>6. 1 \in 0 .. Base - 1
    BY WeightFacts
<1> DEFINE one == CreateFromU32(1)
<1>7. one \in UInt /\ Value(one) = 1
    BY <1>6, CreateValue
<1>8. Add(w, one) \in UInt /\ Value(Add(w, one)) = (Value(w) + Value(one)) % Modulus
  <2> HIDE DEF w, one
  <2> QED BY <1>1, <1>7, AddValue
<1>9. Value(w) + Value(one) = Modulus - Value(v)
  <2> HIDE DEF w, one
  <2> QED BY <1>5, <1>7, ValueBound
<1>10. Negate(v) = Add(w, one)
    BY DEF Negate
<1> HIDE DEF w, one
<1> QED
    BY <1>8, <1>9, <1>10

\* uint256_sub is subtraction modulo 2^256 (uint256.c:180-184).
LEMMA SubValue ==
    ASSUME NEW l \in UInt, NEW r \in UInt
    PROVE  /\ Sub(l, r) \in UInt
           /\ Value(Sub(l, r)) = (Value(l) + Modulus - Value(r)) % Modulus
<1>1. Negate(r) \in UInt /\ Value(Negate(r)) = (Modulus - Value(r)) % Modulus
    BY NegateValue
<1>2. /\ Sub(l, r) \in UInt
      /\ Value(Sub(l, r)) = (Value(l) + Value(Negate(r))) % Modulus
    BY <1>1, AddValue DEF Sub
<1>3. Value(l) \in Nat /\ Modulus - Value(r) \in Nat /\ Modulus \in Nat \ {0}
    BY ValueBound
<1>4. (Value(l) + ((Modulus - Value(r)) % Modulus)) % Modulus
          = (Value(l) + (Modulus - Value(r))) % Modulus
    BY <1>3, SumOfRemainder
<1>5. Value(l) + (Modulus - Value(r)) = Value(l) + Modulus - Value(r)
    BY ValueBound
<1> QED
    BY <1>1, <1>2, <1>4, <1>5

-----------------------------------------------------------------------------
(* Shifts                                                                  *)

\* The two parts of a shifted word.
RightPart(v, i, shift) == (v[i] * TwoTo[shift % WordBits]) % Base
LeftPart(v, i, shift) ==
    IF shift % WordBits > 0 THEN v[i] \div TwoTo[WordBits - (shift % WordBits)] ELSE 0

\* A shifted word is its two parts, and no bit is in both (uint256.c:238-244).
LEMMA PartsOfWord ==
    ASSUME NEW v \in UInt, NEW i \in Index, NEW shift \in Nat
    PROVE  /\ RightPart(v, i, shift) \in 0 .. Base - 1
           /\ LeftPart(v, i, shift) \in 0 .. Base - 1
           /\ v[i] * TwoTo[shift % WordBits]
                  = LeftPart(v, i, shift) * Base + RightPart(v, i, shift)
<1> DEFINE b == shift % WordBits
           x == v[i] * TwoTo[b]
           left == LeftPart(v, i, shift)
<1>1. /\ WordBits \in Nat \ {0} /\ b \in Nat /\ b < WordBits
      /\ Base \in Nat \ {0} /\ v[i] \in Nat /\ v[i] < Base
  <2>1. WordBits \in Nat \ {0}
    BY SizeFacts
  <2>2. b \in Nat /\ b < WordBits
    BY <2>1, Division
  <2>3. Base \in Nat \ {0}
    BY WeightFacts
  <2> QED BY <2>1, <2>2, <2>3, WordFacts
<1>2. TwoTo[b] \in Nat \ {0} /\ x \in Nat
  <2>1. TwoTo[b] \in Nat \ {0}
    BY <1>1, TwoToStep
  <2> QED BY <1>1, <2>1
<1>3. x \div Base \in Nat /\ x % Base \in 0 .. Base - 1 /\ x = (x \div Base) * Base + (x % Base)
  <2> HIDE DEF x
  <2> QED BY <1>1, <1>2, Division
<1>4. left \in Nat /\ left < Base /\ left = x \div Base
  <2>1. CASE b = 0
    <3>1. x = v[i] /\ left = 0
      BY <1>1, <2>1, TwoToStep DEF LeftPart
    <3>2. v[i] = 0 * Base + v[i] /\ v[i] \in 0 .. Base - 1
      BY <1>1
    <3>3. v[i] \div Base = 0
      BY <1>1, <3>2, QuotientIs
    <3> QED BY <1>1, <3>1, <3>3
  <2>2. CASE b > 0
    <3> DEFINE rest == WordBits - b
               p == v[i] \div TwoTo[rest]
               r == v[i] % TwoTo[rest]
    <3>1. rest \in Nat /\ rest + b = WordBits
      BY <1>1
    <3>2. TwoTo[rest] \in Nat \ {0} /\ TwoTo[rest] * TwoTo[b] = Base
      <4> HIDE DEF rest, b
      <4> QED BY <1>1, <3>1, TwoToStep, TwoToSum DEF Base
    <3>3. left = p
      BY <2>2 DEF LeftPart
    <3>4. p \in Nat /\ r \in 0 .. TwoTo[rest] - 1 /\ v[i] = p * TwoTo[rest] + r
      <4> HIDE DEF rest
      <4> QED BY <1>1, <3>2, Division
    <3> HIDE DEF rest, b, p, r
    <3>5. p < Base
      <4>1. p * TwoTo[rest] >= p
        BY <3>2, <3>4
      <4> QED BY <1>1, <3>2, <3>4, <4>1
    <3>6. x = p * Base + r * TwoTo[b]
      <4>1. (p * TwoTo[rest] + r) * TwoTo[b]
                = p * (TwoTo[rest] * TwoTo[b]) + r * TwoTo[b]
        BY <1>2, <3>2, <3>4
      <4> QED BY <3>2, <3>4, <4>1
    <3>7. r * TwoTo[b] \in 0 .. Base - 1
      <4>1. r * TwoTo[b] \in Nat /\ r * TwoTo[b] <= (TwoTo[rest] - 1) * TwoTo[b]
        BY <1>2, <3>2, <3>4
      <4>2. (TwoTo[rest] - 1) * TwoTo[b] = Base - TwoTo[b]
        BY <1>2, <3>2
      <4> QED BY <1>1, <1>2, <4>1, <4>2
    <3>8. x \div Base = p
      <4> HIDE DEF x
      <4> QED BY <1>1, <3>4, <3>6, <3>7, QuotientIs
    <3> QED BY <3>3, <3>4, <3>5, <3>8
  <2> QED BY <1>1, <2>1, <2>2
<1>5. RightPart(v, i, shift) = x % Base
    BY DEF RightPart
<1> HIDE DEF x, left
<1> QED
    BY <1>1, <1>3, <1>4, <1>5 DEF x, left

\* The array temp of uint256_lshift, with the parts' names (uint256.c:245-252).
LEMMA ShiftedWordIs ==
    ASSUME NEW v, NEW i \in Index, NEW shift \in Nat
    PROVE  ShiftedWord(v, i, shift) =
               [k \in Index |->
                   CASE k = i + (shift \div WordBits) -> RightPart(v, i, shift)
                     [] k = i + (shift \div WordBits) + 1 -> LeftPart(v, i, shift)
                     [] OTHER -> 0]
BY DEF ShiftedWord, RightPart, LeftPart

\* What is left of a word and its weight when the array ends at either of its parts.
LEMMA TwoWords ==
    ASSUME NEW k \in Nat, NEW right \in 0 .. Base - 1, NEW left \in 0 .. Base - 1,
           NEW w \in UInt,
           \A j \in Index : w[j] = CASE j = k -> right
                                     [] j = k + 1 -> left
                                     [] OTHER -> 0
    PROVE  Value(w) = ((left * Base + right) * Weight(k)) % Modulus
<1> DEFINE one == right * Weight(k)
           two == right * Weight(k) + left * Weight(k + 1)
           low == [j \in 0 .. Words |-> IF j <= k THEN 0
                                        ELSE IF j = k + 1 THEN one ELSE two]
<1>1. /\ Words \in Nat \ {0} /\ Words \in 0 .. Words /\ 0 \in 0 .. Words
      /\ Base \in Nat \ {0} /\ right \in Nat /\ left \in Nat
      /\ right <= Base - 1 /\ left <= Base - 1
  <2>1. Words \in Nat \ {0} /\ Base \in Nat \ {0}
    BY SizeFacts, WeightFacts
  <2> QED BY <2>1
<1>2. /\ Weight(k) \in Nat \ {0} /\ Weight(k + 1) = Base * Weight(k)
      /\ Weight(k + 1) \in Nat
  <2>1. k + 1 \in Nat
    OBVIOUS
  <2> QED BY <2>1, WeightFacts
<1>3. one \in Nat /\ left * Weight(k + 1) \in Nat /\ two \in Nat
      /\ two = one + left * Weight(k + 1)
    BY <1>1, <1>2
<1>4. low[0] = 0
    BY <1>1
<1>5. ASSUME NEW j \in Index PROVE low[j + 1] = low[j] + w[j] * Weight(j)
  <2> HIDE DEF one, two
  <2>1. /\ j \in Nat /\ j \in 0 .. Words /\ j + 1 \in 0 .. Words
        /\ Weight(j) \in Nat
    BY IndexFacts
  <2>2. CASE j < k
    <3>1. w[j] = 0 /\ low[j] = 0 /\ low[j + 1] = 0
      BY <2>1, <2>2
    <3> QED BY <2>1, <3>1
  <2>3. CASE j = k
    <3>1. w[j] = right /\ low[j] = 0 /\ low[j + 1] = one
      BY <2>1, <2>3
    <3> QED BY <2>3, <3>1, <1>3 DEF one
  <2>4. CASE j = k + 1
    <3>1. w[j] = left /\ low[j] = one /\ low[j + 1] = two
      BY <2>1, <2>4
    <3> QED BY <2>4, <3>1, <1>3
  <2>5. CASE j > k + 1
    <3>1. w[j] = 0 /\ low[j] = two /\ low[j + 1] = two
      BY <2>1, <2>5
    <3> QED BY <2>1, <3>1, <1>3
  <2> QED BY <2>1, <2>2, <2>3, <2>4, <2>5
<1>6. Value(w) = low[Words]
  <2> HIDE DEF low
  <2> QED BY <1>1, <1>4, <1>5, ValueIs DEF Value
<1>7. Value(w) \in Nat /\ Value(w) < Modulus /\ Modulus \in Nat \ {0}
    BY ValueBound
<1> DEFINE all == (left * Base + right) * Weight(k)
<1>8. all \in Nat /\ all = two
  <2>1. (left * Base + right) * Weight(k) = left * (Base * Weight(k)) + right * Weight(k)
    BY <1>1, <1>2
  <2> QED BY <2>1, <1>2, <1>3
<1>9. \E q \in Nat : all = q * Modulus + Value(w)
  <2>1. CASE Words <= k
    <3> DEFINE n == k - Words
    <3>1. n \in Nat /\ Words + n = k
      BY <1>1, <2>1
    <3>2. Weight(k) = Modulus * Weight(n) /\ Weight(n) \in Nat
      <4> HIDE DEF n
      <4> QED BY <3>1, <1>1, WeightSum, WeightFacts
    <3>3. Value(w) = 0
      BY <1>1, <1>6, <2>1
    <3> HIDE DEF n
    <3>4. all = ((left * Base + right) * Weight(n)) * Modulus + 0
      BY <3>2, <1>1, <1>7
    <3>5. (left * Base + right) * Weight(n) \in Nat
      BY <3>2, <1>1
    <3> HIDE DEF all
    <3> QED BY <3>3, <3>4, <3>5
  <2>2. CASE Words = k + 1
    <3>1. Value(w) = one
      BY <1>1, <1>6, <2>2
    <3>2. Weight(k + 1) = Modulus
      BY <2>2, WeightFacts
    <3> HIDE DEF all, one, two
    <3> QED BY <3>1, <3>2, <1>1, <1>3, <1>8
  <2>3. CASE Words > k + 1
    <3>1. Value(w) = two
      BY <1>1, <1>6, <2>3
    <3> HIDE DEF all, one, two
    <3>2. all = 0 * Modulus + Value(w)
      BY <3>1, <1>7, <1>8
    <3> QED BY <3>2
  <2> QED BY <1>1, <2>1, <2>2, <2>3
<1>10. PICK q \in Nat : all = q * Modulus + Value(w)
    BY <1>9
<1>11. (q * Modulus + Value(w)) % Modulus = Value(w)
    BY <1>7, QuotientIs
<1> QED
    BY <1>10, <1>11

\* temp stands for the shifted word, as far as the array goes (uint256.c:236-252).
LEMMA ShiftedWordValue ==
    ASSUME NEW v \in UInt, NEW i \in Index, NEW shift \in Nat
    PROVE  /\ ShiftedWord(v, i, shift) \in UInt
           /\ Value(ShiftedWord(v, i, shift))
                  = ((v[i] * Weight(i)) * TwoTo[shift]) % Modulus
<1> DEFINE n == shift \div WordBits
           b == shift % WordBits
           k == i + n
           w == ShiftedWord(v, i, shift)
           right == RightPart(v, i, shift)
           left == LeftPart(v, i, shift)
<1>1. i \in Nat /\ WordBits \in Nat \ {0} /\ v[i] \in Nat /\ Weight(i) \in Nat
    BY IndexFacts, WordFacts, SizeFacts
<1>2. n \in Nat /\ b \in Nat /\ shift = n * WordBits + b /\ k \in Nat
  <2>1. n \in Nat /\ b \in 0 .. WordBits - 1 /\ shift = n * WordBits + b
    BY <1>1, Division
  <2>2. k \in Nat
    BY <1>1, <2>1
  <2> QED BY <1>1, <2>1, <2>2
<1>3. /\ right \in 0 .. Base - 1 /\ left \in 0 .. Base - 1
      /\ v[i] * TwoTo[b] = left * Base + right
    BY PartsOfWord
<1>4. \A j \in Index : w[j] = CASE j = k -> right
                                [] j = k + 1 -> left
                                [] OTHER -> 0
    BY ShiftedWordIs
<1>5. w \in UInt
  <2>1. \A j \in Index : w[j] \in 0 .. Base - 1
    <3>1. 0 \in 0 .. Base - 1
      BY WeightFacts
    <3> HIDE DEF w, right, left, k
    <3> QED BY <3>1, <1>3, <1>4
  <2>2. w = [j \in Index |-> w[j]]
    BY ShiftedWordIs
  <2> HIDE DEF w
  <2> QED BY <2>1, <2>2 DEF UInt
<1> HIDE DEF n, b, k, w, right, left
<1>6. Value(w) = ((left * Base + right) * Weight(k)) % Modulus
    BY <1>2, <1>3, <1>4, <1>5, TwoWords
<1>7. TwoTo[shift] = Weight(n) * TwoTo[b]
  <2>1. WordBits * n \in Nat /\ shift = WordBits * n + b
    BY <1>1, <1>2
  <2> QED BY <2>1, <1>2, TwoToSum DEF Weight
<1>8. Weight(k) = Weight(i) * Weight(n)
    BY <1>1, <1>2, WeightSum DEF k
<1>9. Weight(n) \in Nat /\ TwoTo[b] \in Nat
    BY <1>2, WeightFacts, TwoToStep
<1>10. (v[i] * TwoTo[b]) * (Weight(i) * Weight(n))
           = (v[i] * Weight(i)) * (Weight(n) * TwoTo[b])
    BY <1>1, <1>9
<1> QED
    BY <1>3, <1>5, <1>6, <1>7, <1>8, <1>10 DEF w

\* The loop of uint256_lshift adds temp in each pass (uint256.c:254).
LEMMA ShiftedSteps ==
    ASSUME NEW v \in UInt, NEW shift \in Nat
    PROVE  /\ Shifted(v, shift)[0] = CreateFromU32(0)
           /\ \A n \in Index :
                  Shifted(v, shift)[n + 1] =
                      Add(Shifted(v, shift)[n], ShiftedWord(v, Words - (n + 1), shift))
           /\ \A n \in 0 .. Words : Shifted(v, shift)[n] \in UInt
<1> DEFINE A == UInt
           a == CreateFromU32(0)
           step == [n \in Nat |->
                       [x \in A |->
                           IF n \in Index
                           THEN Add(x, ShiftedWord(v, Words - (n + 1), shift)) ELSE x]]
<1>1. a \in A
  <2>1. 0 \in 0 .. Base - 1
    BY WeightFacts
  <2> QED BY <2>1, CreateValue
<1>2. step \in Passes(A) /\ Words \in Nat
  <2>1. ASSUME NEW n \in Index, NEW x \in UInt
        PROVE  Add(x, ShiftedWord(v, Words - (n + 1), shift)) \in UInt
    <3>1. Words - (n + 1) \in Index
      BY SizeFacts
    <3> DEFINE m == Words - (n + 1)
    <3>2. ShiftedWord(v, m, shift) \in UInt
      <4> HIDE DEF m
      <4> QED BY <3>1, ShiftedWordValue DEF m
    <3> QED BY <3>2, AddValue
  <2> QED BY <2>1, SizeFacts DEF Passes
<1>3. PICK f : ComputesTo(f, A, a, step, Words)
  <2> HIDE DEF A, a, step
  <2> QED BY <1>1, <1>2, RecursionTo
<1>4. f = [n \in 0 .. Words |->
              IF n = 0 THEN CreateFromU32(0)
              ELSE Add(f[n - 1], ShiftedWord(v, Words - n, shift))]
  <2>1. ASSUME NEW n \in 0 .. Words
        PROVE  f[n] = IF n = 0 THEN CreateFromU32(0)
                      ELSE Add(f[n - 1], ShiftedWord(v, Words - n, shift))
    <3>1. CASE n = 0
      <4> HIDE DEF A, a, step
      <4>1. f[n] = a
        BY <3>1, <1>3 DEF ComputesTo
      <4> QED BY <3>1, <4>1 DEF a
    <3>2. CASE n # 0
      <4>1. /\ n - 1 \in Index /\ n - 1 \in Nat /\ n - 1 \in 0 .. Words
            /\ (n - 1) + 1 = n
        BY <3>2, SizeFacts
      <4>2. f[n] = step[n - 1][f[n - 1]] /\ f[n - 1] \in A
        <5> HIDE DEF A, a, step
        <5> QED BY <4>1, <3>2, <1>3 DEF ComputesTo
      <4>3. step[n - 1][f[n - 1]]
                = Add(f[n - 1], ShiftedWord(v, Words - ((n - 1) + 1), shift))
        BY <4>1, <4>2
      <4> QED BY <3>2, <4>1, <4>2, <4>3
    <3> QED BY <3>1, <3>2
  <2> HIDE DEF A, a, step
  <2> QED BY <2>1, <1>3 DEF ComputesTo
<1>5. Shifted(v, shift) =
          [n \in 0 .. Words |->
              IF n = 0 THEN CreateFromU32(0)
              ELSE Add(Shifted(v, shift)[n - 1], ShiftedWord(v, Words - n, shift))]
    BY <1>4 DEF Shifted
<1>6. Shifted(v, shift)[0] = CreateFromU32(0)
    BY <1>5, SizeFacts
<1>7. ASSUME NEW n \in Index
      PROVE  Shifted(v, shift)[n + 1] =
                 Add(Shifted(v, shift)[n], ShiftedWord(v, Words - (n + 1), shift))
  <2>1. n + 1 \in 0 .. Words /\ n + 1 # 0 /\ (n + 1) - 1 = n
    BY SizeFacts
  <2> HIDE DEF A, a, step
  <2>2. Shifted(v, shift)[n + 1] =
            Add(Shifted(v, shift)[(n + 1) - 1], ShiftedWord(v, Words - (n + 1), shift))
    BY <2>1, <1>5
  <2> QED BY <2>1, <2>2
<1> DEFINE S == {n \in Nat : n <= Words => Shifted(v, shift)[n] \in UInt}
<1>8. 0 \in S
    BY <1>1, <1>6
<1>9. ASSUME NEW n \in Nat, n \in S PROVE n + 1 \in S
  <2> SUFFICES ASSUME n + 1 <= Words PROVE Shifted(v, shift)[n + 1] \in UInt
    OBVIOUS
  <2>1. n \in Index /\ n <= Words /\ Words - (n + 1) \in Index
    BY SizeFacts
  <2>2. Shifted(v, shift)[n] \in UInt
    BY <1>9, <2>1
  <2>3. ShiftedWord(v, Words - (n + 1), shift) \in UInt
    BY <2>1, ShiftedWordValue
  <2> QED BY <2>1, <2>2, <2>3, <1>7, AddValue
<1>10. \A n \in Nat : n \in S
  <2> HIDE DEF S
  <2> QED BY <1>8, <1>9, Induction
<1>11. ASSUME NEW n \in 0 .. Words PROVE n \in Nat /\ n <= Words
    BY SizeFacts
<1> QED
    BY <1>6, <1>7, <1>10, <1>11

\* The words that were shifted so far stand for what their shifted value is.
LEMMA ShiftValue ==
    ASSUME NEW v \in UInt, NEW shift \in Nat
    PROVE  /\ Lshift(v, shift) \in UInt
           /\ Value(Lshift(v, shift)) = (Value(v) * TwoTo[shift]) % Modulus
<1> DEFINE f == Shifted(v, shift)
           t == TwoTo[shift]
           part == [i \in 0 .. Words |-> (Value(v) - Low(v)[i]) * t]
           S == {n \in Nat : n <= Words => Value(f[n]) = part[Words - n] % Modulus}
<1>1. /\ t \in Nat /\ Modulus \in Nat \ {0} /\ Value(v) \in Nat
      /\ Words \in Nat \ {0}
    BY TwoToStep, ValueBound, SizeFacts
<1>2. ASSUME NEW i \in 0 .. Words PROVE part[i] \in Nat
  <2>1. i \in Nat
    BY SizeFacts
  <2>2. PICK h \in Nat : Value(v) = Low(v)[i] + h * Weight(i)
    BY HighWords
  <2>3. Low(v)[i] \in Nat /\ h * Weight(i) \in Nat
    BY <2>1, LowSteps, WeightFacts
  <2>4. Value(v) - Low(v)[i] \in Nat
    BY <2>2, <2>3
  <2>5. (Value(v) - Low(v)[i]) * t \in Nat
    <3> HIDE DEF t
    <3> QED BY <2>4, <1>1
  <2> QED BY <2>5
<1>3. 0 \in S
  <2>1. f[0] = CreateFromU32(0) /\ 0 \in 0 .. Base - 1
    BY ShiftedSteps, WeightFacts
  <2>2. Value(f[0]) = 0
    BY <2>1, CreateValue
  <2>3. Words \in 0 .. Words /\ Words - 0 = Words
    BY <1>1
  <2>4. part[Words] = 0 * t
    <3> HIDE DEF t
    <3> QED BY <2>3, <1>1 DEF Value
  <2>5. 0 = 0 * Modulus + 0 /\ 0 \in 0 .. Modulus - 1
    BY <1>1
  <2>6. 0 % Modulus = 0
    BY <1>1, <2>5, QuotientIs
  <2>7. part[Words] = 0
    BY <1>1, <2>4
  <2> HIDE DEF part, f, t
  <2> QED BY <2>2, <2>3, <2>6, <2>7
<1>4. ASSUME NEW n \in Nat, n \in S PROVE n + 1 \in S
  <2> SUFFICES ASSUME n + 1 <= Words
               PROVE  Value(f[n + 1]) = part[Words - (n + 1)] % Modulus
    OBVIOUS
  <2> DEFINE i == Words - (n + 1)
  <2>1. /\ n \in Index /\ n <= Words /\ n \in 0 .. Words
        /\ i \in Index /\ i + 1 = Words - n
    BY SizeFacts
  <2>2. /\ i \in Nat /\ i \in 0 .. Words /\ i + 1 \in 0 .. Words
        /\ Weight(i) \in Nat /\ v[i] \in Nat
    <3> HIDE DEF i
    <3> QED BY <2>1, IndexFacts, WordFacts
  <2> DEFINE w == ShiftedWord(v, i, shift)
             x == (v[i] * Weight(i)) * t
  <2>3. f[n + 1] = Add(f[n], w) /\ f[n] \in UInt
    <3>1. f[n + 1] = Add(f[n], ShiftedWord(v, Words - (n + 1), shift)) /\ f[n] \in UInt
      <4> HIDE DEF i
      <4> QED BY <2>1, ShiftedSteps
    <3> QED BY <3>1
  <2>4. w \in UInt /\ Value(w) = x % Modulus
    <3> HIDE DEF i
    <3> QED BY <2>1, ShiftedWordValue
  <2>5. Value(f[n + 1]) = (Value(f[n]) + Value(w)) % Modulus
    <3> HIDE DEF f, w
    <3> QED BY <2>3, <2>4, AddValue
  <2>6. Value(f[n]) = part[Words - n] % Modulus
    BY <1>4, <2>1
  <2>7. part[i] = part[i + 1] + x
    <3>1. Low(v)[i + 1] = Low(v)[i] + v[i] * Weight(i)
      <4> HIDE DEF i
      <4> QED BY <2>1, LowSteps
    <3>2. Low(v)[i] \in Nat /\ Low(v)[i + 1] \in Nat
      <4> HIDE DEF i
      <4> QED BY <2>2, LowSteps
    <3> HIDE DEF i, t
    <3>3. v[i] * Weight(i) \in Nat
      BY <2>2
    <3> DEFINE y == v[i] * Weight(i)
               d == Value(v) - Low(v)[i + 1]
    <3>4. y \in Nat /\ d \in Int /\ Value(v) - Low(v)[i] = d + y
      <4> HIDE DEF y
      <4>1. Low(v)[i + 1] = Low(v)[i] + y
        BY <3>1 DEF y
      <4> QED BY <3>2, <3>3, <4>1, <1>1 DEF y
    <3>5. (d + y) * t = d * t + y * t
      <4> HIDE DEF y, d
      <4> QED BY <3>4, <1>1
    <3>6. part[i] = (Value(v) - Low(v)[i]) * t /\ part[i + 1] = d * t
      BY <2>2
    <3> HIDE DEF d
    <3> QED BY <3>4, <3>5, <3>6
  <2>8. part[i + 1] \in Nat /\ x \in Nat
    <3>1. part[i + 1] \in Nat
      <4> HIDE DEF part, i
      <4> QED BY <1>2, <2>2
    <3>2. x \in Nat
      <4> HIDE DEF i, t
      <4> QED BY <1>1, <2>2
    <3> HIDE DEF part, x, i
    <3> QED BY <3>1, <3>2
  <2>9. Value(f[n + 1]) = ((part[i + 1] % Modulus) + (x % Modulus)) % Modulus
    <3> HIDE DEF f, w, part, x
    <3> QED BY <2>1, <2>4, <2>5, <2>6
  <2>10. ((part[i + 1] % Modulus) + (x % Modulus)) % Modulus = (part[i + 1] + x) % Modulus
    <3> HIDE DEF part, x, i
    <3> QED BY <1>1, <2>8, SumOfRemainders
  <2> HIDE DEF f, part, x
  <2> QED BY <2>7, <2>9, <2>10
<1>5. \A n \in Nat : n \in S
  <2> HIDE DEF S
  <2> QED BY <1>3, <1>4, Induction
<1>6. Words \in 0 .. Words /\ 0 \in 0 .. Words /\ Words - Words = 0 /\ Words <= Words
    BY <1>1
<1>7. Value(f[Words]) = part[0] % Modulus
    BY <1>1, <1>5, <1>6
<1>8. part[0] = Value(v) * t
  <2>1. Value(v) - Low(v)[0] = Value(v)
    BY <1>1, LowSteps
  <2>2. part[0] = (Value(v) - Low(v)[0]) * t
    BY <1>6
  <2> QED BY <2>1, <2>2
<1>9. f[Words] \in UInt /\ Lshift(v, shift) = f[Words]
    BY <1>6, ShiftedSteps DEF Lshift
<1> QED
    BY <1>7, <1>8, <1>9

-----------------------------------------------------------------------------
(* Products                                                                *)

\* The next bit of a number.
LEMMA NextBit ==
    ASSUME NEW a \in Nat, NEW b \in Nat \ {0}
    PROVE  a % (2 * b) = (a % b) + ((a \div b) % 2) * b
<1> DEFINE q == a \div b
           r == a % b
           h == q \div 2
           bit == q % 2
<1>1. q \in Nat /\ r \in 0 .. b - 1 /\ a = q * b + r
    BY Division
<1>2. h \in Nat /\ bit \in 0 .. 1 /\ q = h * 2 + bit
  <2> HIDE DEF q
  <2> QED BY <1>1, Division
<1> HIDE DEF q, r, h, bit
<1>3. q * b = h * (2 * b) + bit * b
    BY <1>1, <1>2
<1>4. a = h * (2 * b) + (r + bit * b)
    BY <1>1, <1>2, <1>3
<1>5. r + bit * b \in 0 .. 2 * b - 1
  <2>1. CASE bit = 0
    BY <2>1, <1>1
  <2>2. CASE bit = 1
    BY <2>2, <1>1
  <2> QED BY <2>1, <2>2, <1>2
<1>6. (h * (2 * b) + (r + bit * b)) % (2 * b) = r + bit * b
  <2> DEFINE m == 2 * b
             s == r + bit * b
  <2>1. m \in Nat \ {0} /\ s \in 0 .. m - 1
    BY <1>5
  <2>2. (h * m + s) % m = s
    <3> HIDE DEF m, s
    <3> QED BY <1>2, <2>1, QuotientIs
  <2> QED BY <2>2
<1> QED
    BY <1>4, <1>6 DEF q, r, bit

\* A bit of an array is a bit of its value.
LEMMA BitOfValue ==
    ASSUME NEW v \in UInt, NEW n \in Nat, n < Bits
    PROVE  IsBitSet(v, n) <=> (Value(v) \div TwoTo[n]) % 2 = 1
<1> DEFINE i == n \div WordBits
           b == n % WordBits
           c == WordBits - (b + 1)
           q == v[i] \div TwoTo[b]
           r == v[i] % TwoTo[b]
<1>1. WordBits \in Nat \ {0} /\ Words \in Nat \ {0}
    BY SizeFacts
<1>2. i \in Nat /\ b \in Nat /\ b < WordBits /\ n = i * WordBits + b
    BY <1>1, Division
<1>3. c \in Nat /\ c + (b + 1) = WordBits
    BY <1>1, <1>2
<1>4. i \in Index
  <2>1. CASE i >= Words
    <3>1. i * WordBits >= Words * WordBits
      <4> HIDE DEF i
      <4> QED BY <1>1, <1>2, <2>1
    <3> HIDE DEF i, b
    <3> QED BY <1>1, <1>2, <3>1 DEF Bits
  <2> QED BY <1>1, <1>2, <2>1, SizeFacts
<1> HIDE DEF i, b, c
<1>5. /\ i + 1 \in 0 .. Words /\ i \in 0 .. Words
      /\ Weight(i) \in Nat \ {0} /\ v[i] \in Nat
    BY <1>4, IndexFacts, WordFacts
<1>6. TwoTo[b] \in Nat \ {0} /\ TwoTo[c] \in Nat \ {0}
    BY <1>2, <1>3, TwoToStep
<1>7. q \in Nat /\ r \in 0 .. TwoTo[b] - 1 /\ v[i] = q * TwoTo[b] + r
    BY <1>5, <1>6, Division
<1>8. Base = TwoTo[c] * (2 * TwoTo[b])
  <2>1. TwoTo[b + 1] = 2 * TwoTo[b]
    BY <1>2, TwoToStep
  <2>2. b + 1 \in Nat
    BY <1>2
  <2>3. TwoTo[c + (b + 1)] = TwoTo[c] * TwoTo[b + 1]
    BY <1>3, <2>2, TwoToSum
  <2> QED BY <1>3, <2>1, <2>3 DEF Base
<1>9. TwoTo[n] = Weight(i) * TwoTo[b]
  <2>1. WordBits * i \in Nat /\ n = WordBits * i + b
    BY <1>1, <1>2
  <2> QED BY <2>1, <1>2, TwoToSum DEF Weight
<1>10. PICK h \in Nat : Value(v) = Low(v)[i + 1] + h * Weight(i + 1)
    BY <1>5, HighWords
<1>11. Low(v)[i + 1] = Low(v)[i] + v[i] * Weight(i) /\ Weight(i + 1) = Base * Weight(i)
    BY <1>2, <1>4, LowSteps, WeightFacts
<1>12. Low(v)[i] \in 0 .. Weight(i) - 1 /\ Low(v)[i] \in Nat
    BY <1>5, LowBound, LowSteps
<1> DEFINE p == q + (h * TwoTo[c]) * 2
           s == r * Weight(i) + Low(v)[i]
<1> HIDE DEF q, r
<1>13. p \in Nat /\ s \in Nat
    BY <1>5, <1>6, <1>7, <1>12
<1>14. s < TwoTo[n]
  <2>1. r * Weight(i) <= (TwoTo[b] - 1) * Weight(i)
    BY <1>5, <1>6, <1>7
  <2>2. (TwoTo[b] - 1) * Weight(i) = TwoTo[n] - Weight(i)
    BY <1>5, <1>6, <1>9
  <2>3. TwoTo[n] \in Nat /\ r * Weight(i) \in Nat
    BY <1>5, <1>7, TwoToStep
  <2> QED BY <1>5, <1>12, <2>1, <2>2, <2>3
<1>15. Value(v) = p * TwoTo[n] + s
  <2> DEFINE W == Weight(i)
             T == TwoTo[b]
             C == TwoTo[c]
  <2>0. W \in Nat /\ T \in Nat /\ C \in Nat
    BY <1>5, <1>6
  <2>1. Value(v) = Low(v)[i] + (q * T + r) * W + h * ((C * (2 * T)) * W)
    BY <1>7, <1>8, <1>10, <1>11
  <2> HIDE DEF W, T, C
  <2>2. (q * T + r) * W = (q * T) * W + r * W
    BY <1>7, <2>0
  <2>3. h * ((C * (2 * T)) * W) = ((h * C) * 2) * (W * T)
    BY <2>0
  <2>4. (q + (h * C) * 2) * (W * T) = (q * T) * W + ((h * C) * 2) * (W * T)
    BY <1>7, <2>0
  <2>5. /\ (q * T) * W \in Nat /\ r * W \in Nat /\ ((h * C) * 2) * (W * T) \in Nat
    BY <1>7, <2>0
  <2>6. Value(v) = (q + (h * C) * 2) * (W * T) + (r * W + Low(v)[i])
    BY <1>12, <2>1, <2>2, <2>3, <2>4, <2>5
  <2> QED BY <1>9, <2>6 DEF W, T, C
<1>16. Value(v) \div TwoTo[n] = p
  <2> HIDE DEF p, s
  <2>1. TwoTo[n] \in Nat \ {0} /\ s \in 0 .. TwoTo[n] - 1
    BY <1>13, <1>14, TwoToStep
  <2> QED BY <1>13, <1>15, <2>1, QuotientIs
<1>17. p % 2 = q % 2
  <2>1. h * TwoTo[c] \in Nat
    BY <1>6
  <2>2. (q + (h * TwoTo[c]) * 2) % 2 = q % 2
    <3> DEFINE g == h * TwoTo[c]
    <3> HIDE DEF g
    <3>1. (q + g * 2) % 2 = q % 2
      BY <1>7, <2>1, RemainderIs DEF g
    <3> QED BY <3>1 DEF g
  <2> QED BY <2>2
<1> HIDE DEF p
<1>18. IsBitSet(v, n) <=> q % 2 = 1
    BY DEF IsBitSet, q, i, b
<1> QED
    BY <1>16, <1>17, <1>18

\* The loops of uint256_mul add a shifted left for each bit (uint256.c:216-224).
LEMMA ProductSteps ==
    ASSUME NEW l \in UInt, NEW r \in UInt
    PROVE  /\ Product(l, r)[0] = CreateFromU32(0)
           /\ \A n \in 0 .. Bits - 1 :
                  Product(l, r)[n + 1] =
                      IF IsBitSet(r, n) THEN Add(Product(l, r)[n], Lshift(l, n))
                      ELSE Product(l, r)[n]
           /\ \A n \in 0 .. Bits : Product(l, r)[n] \in UInt
<1> DEFINE A == UInt
           a == CreateFromU32(0)
           step == [n \in Nat |->
                       [x \in A |-> IF IsBitSet(r, n) THEN Add(x, Lshift(l, n)) ELSE x]]
<1>1. a \in A /\ Bits \in Nat
  <2>1. 0 \in 0 .. Base - 1
    BY WeightFacts
  <2> QED BY <2>1, CreateValue, SizeFacts
<1>2. step \in Passes(A)
  <2>1. ASSUME NEW n \in Nat, NEW x \in UInt PROVE Add(x, Lshift(l, n)) \in UInt
    BY ShiftValue, AddValue
  <2> QED BY <2>1 DEF Passes
<1>3. PICK f : ComputesTo(f, A, a, step, Bits)
  <2> HIDE DEF A, a, step
  <2> QED BY <1>1, <1>2, RecursionTo
<1>4. f = [n \in 0 .. Bits |->
              CASE n = 0 -> CreateFromU32(0)
                [] n > 0 /\ IsBitSet(r, n - 1) -> Add(f[n - 1], Lshift(l, n - 1))
                [] OTHER -> f[n - 1]]
  <2>1. ASSUME NEW n \in 0 .. Bits
        PROVE  f[n] = CASE n = 0 -> CreateFromU32(0)
                        [] n > 0 /\ IsBitSet(r, n - 1) -> Add(f[n - 1], Lshift(l, n - 1))
                        [] OTHER -> f[n - 1]
    <3>1. CASE n = 0
      <4> HIDE DEF A, a, step
      <4>1. f[n] = a /\ ~(n > 0)
        BY <3>1, <1>3 DEF ComputesTo
      <4> QED BY <3>1, <4>1 DEF a
    <3>2. CASE n # 0
      <4>1. n - 1 \in Nat /\ n - 1 \in 0 .. Bits /\ n > 0
        BY <3>2, <1>1
      <4>2. f[n] = step[n - 1][f[n - 1]] /\ f[n - 1] \in A
        <5> HIDE DEF A, a, step
        <5> QED BY <4>1, <3>2, <1>3 DEF ComputesTo
      <4>3. f[n] = IF IsBitSet(r, n - 1) THEN Add(f[n - 1], Lshift(l, n - 1))
                   ELSE f[n - 1]
        BY <4>1, <4>2
      <4> QED BY <3>2, <4>1, <4>3
    <3> QED BY <3>1, <3>2
  <2> HIDE DEF A, a, step
  <2> QED BY <2>1, <1>3 DEF ComputesTo
<1>5. Product(l, r) =
          [n \in 0 .. Bits |->
              CASE n = 0 -> CreateFromU32(0)
                [] n > 0 /\ IsBitSet(r, n - 1) ->
                       Add(Product(l, r)[n - 1], Lshift(l, n - 1))
                [] OTHER -> Product(l, r)[n - 1]]
    BY <1>4 DEF Product
<1> HIDE DEF A, a, step
<1>6. Product(l, r)[0] = CreateFromU32(0)
  <2>1. 0 \in 0 .. Bits
    BY <1>1
  <2> QED BY <2>1, <1>5
<1>7. ASSUME NEW n \in 0 .. Bits - 1
      PROVE  Product(l, r)[n + 1] =
                 IF IsBitSet(r, n) THEN Add(Product(l, r)[n], Lshift(l, n))
                 ELSE Product(l, r)[n]
  <2> DEFINE m == n + 1
  <2>1. m \in 0 .. Bits /\ m # 0 /\ m > 0 /\ m - 1 = n
    BY <1>1
  <2> HIDE DEF m
  <2>2. Product(l, r)[m] =
            IF IsBitSet(r, m - 1) THEN Add(Product(l, r)[m - 1], Lshift(l, m - 1))
            ELSE Product(l, r)[m - 1]
    BY <2>1, <1>5
  <2>3. Product(l, r)[m] = IF IsBitSet(r, n) THEN Add(Product(l, r)[n], Lshift(l, n))
                           ELSE Product(l, r)[n]
    BY <2>1, <2>2
  <2> QED BY <2>3 DEF m
<1> DEFINE S == {n \in Nat : n <= Bits => Product(l, r)[n] \in UInt}
<1>8. 0 \in S
    BY <1>1, <1>6 DEF a, A
<1>9. ASSUME NEW n \in Nat, n \in S PROVE n + 1 \in S
  <2> SUFFICES ASSUME n + 1 <= Bits PROVE Product(l, r)[n + 1] \in UInt
    OBVIOUS
  <2>1. n \in 0 .. Bits - 1 /\ n <= Bits
    BY <1>1
  <2>2. Product(l, r)[n] \in UInt /\ Lshift(l, n) \in UInt
    BY <1>9, <2>1, ShiftValue
  <2> QED BY <2>1, <2>2, <1>7, AddValue
<1>10. \A n \in Nat : n \in S
  <2> HIDE DEF S
  <2> QED BY <1>8, <1>9, Induction
<1>11. ASSUME NEW n \in 0 .. Bits PROVE n \in Nat /\ n <= Bits
    BY <1>1
<1> QED
    BY <1>6, <1>7, <1>10, <1>11

\* A factor may be replaced by its remainder.
LEMMA ProductOfRemainder ==
    ASSUME NEW m \in Nat \ {0}, NEW a \in Nat, NEW b \in Nat
    PROVE  (a * (b % m)) % m = (a * b) % m
<1> DEFINE q == b \div m
           r == b % m
<1>1. q \in Nat /\ r \in Nat /\ b = q * m + r
    BY Division
<1> HIDE DEF q, r
<1>2. a * r \in Nat /\ a * q \in Nat /\ a * b = a * r + (a * q) * m
    BY <1>1
<1> DEFINE x == a * r
           y == a * q
<1>3. (x + y * m) % m = x % m
  <2> HIDE DEF x, y
  <2> QED BY <1>2, RemainderIs DEF x, y
<1> QED
    BY <1>2, <1>3 DEF r

\* The product with the lower bits is the product with what they stand for.
LEMMA MulValue ==
    ASSUME NEW l \in UInt, NEW r \in UInt
    PROVE  /\ Mul(l, r) \in UInt
           /\ Value(Mul(l, r)) = (Value(l) * Value(r)) % Modulus
<1> DEFINE f == Product(l, r)
           part == [n \in Nat |-> Value(l) * (Value(r) % TwoTo[n])]
           S == {n \in Nat : n <= Bits => Value(f[n]) = part[n] % Modulus}
<1>1. /\ Modulus \in Nat \ {0} /\ Bits \in Nat
      /\ Value(l) \in Nat /\ Value(r) \in Nat /\ Value(r) < Modulus
    BY ValueBound, SizeFacts
<1>2. ASSUME NEW n \in Nat
      PROVE  TwoTo[n] \in Nat \ {0} /\ Value(r) % TwoTo[n] \in Nat /\ part[n] \in Nat
  <2>1. TwoTo[n] \in Nat \ {0}
    BY TwoToStep
  <2>2. Value(r) % TwoTo[n] \in Nat
    <3>1. Value(r) % TwoTo[n] \in 0 .. TwoTo[n] - 1
      BY <2>1, <1>1, Division
    <3> HIDE DEF part
    <3> QED BY <2>1, <3>1
  <2> QED BY <1>1, <2>1, <2>2
<1>3. 0 \in S
  <2>1. f[0] = CreateFromU32(0) /\ 0 \in 0 .. Base - 1
    BY ProductSteps, WeightFacts
  <2>2. Value(f[0]) = 0
    BY <2>1, CreateValue
  <2>3. Value(r) % TwoTo[0] = 0
    <3>1. Value(r) = Value(r) * 1 + 0 /\ 0 \in 0 .. 1 - 1
      BY <1>1
    <3>2. TwoTo[0] = 1
      BY TwoToStep
    <3> QED BY <1>1, <3>1, <3>2
  <2>4. part[0] = 0
    BY <1>1, <2>3
  <2>5. 0 % Modulus = 0
    <3>1. 0 = 0 * Modulus + 0 /\ 0 \in 0 .. Modulus - 1
      BY <1>1
    <3> QED BY <1>1, <3>1, QuotientIs
  <2> HIDE DEF part, f
  <2> QED BY <2>2, <2>4, <2>5
<1>4. ASSUME NEW n \in Nat, n \in S PROVE n + 1 \in S
  <2> SUFFICES ASSUME n + 1 <= Bits PROVE Value(f[n + 1]) = part[n + 1] % Modulus
    OBVIOUS
  <2>1. n \in 0 .. Bits - 1 /\ n <= Bits /\ n \in 0 .. Bits /\ n < Bits
    BY <1>1
  <2>2. Value(f[n]) = part[n] % Modulus /\ f[n] \in UInt
    BY <1>4, <2>1, ProductSteps
  <2> DEFINE bit == (Value(r) \div TwoTo[n]) % 2
  <2>3. bit \in {0, 1}
    <3>1. Value(r) \div TwoTo[n] \in Nat
      BY <1>1, <1>2, Division
    <3> QED BY <3>1
  <2>4. Value(r) % TwoTo[n + 1] = (Value(r) % TwoTo[n]) + bit * TwoTo[n]
    <3>1. TwoTo[n + 1] = 2 * TwoTo[n]
      BY TwoToStep
    <3>2. Value(r) % (2 * TwoTo[n]) = (Value(r) % TwoTo[n]) + bit * TwoTo[n]
      BY <1>1, <1>2, NextBit
    <3> QED BY <3>1, <3>2
  <2>5. IsBitSet(r, n) <=> bit = 1
    BY <2>1, BitOfValue
  <2>6. n + 1 \in Nat /\ part[n] = Value(l) * (Value(r) % TwoTo[n])
        /\ part[n + 1] = Value(l) * (Value(r) % TwoTo[n + 1])
    OBVIOUS
  <2> HIDE DEF bit
  <2>7. CASE bit = 0
    <3>1. f[n + 1] = f[n]
      BY <2>1, <2>5, <2>7, ProductSteps
    <3>2. Value(r) % TwoTo[n + 1] = Value(r) % TwoTo[n]
      BY <1>2, <2>4, <2>7
    <3> HIDE DEF part, f
    <3> QED BY <2>2, <2>6, <3>1, <3>2
  <2>8. CASE bit = 1
    <3> DEFINE s == Lshift(l, n)
               x == Value(l) * TwoTo[n]
    <3>1. f[n + 1] = Add(f[n], s)
      BY <2>1, <2>5, <2>8, ProductSteps
    <3>2. s \in UInt /\ Value(s) = x % Modulus
      BY ShiftValue
    <3>3. Value(f[n + 1]) = (Value(f[n]) + Value(s)) % Modulus
      <4> HIDE DEF f, s
      <4> QED BY <2>2, <3>1, <3>2, AddValue
    <3>4. part[n + 1] = part[n] + x
      <4> DEFINE y == Value(r) % TwoTo[n]
                 t == TwoTo[n]
      <4>1. y \in Nat /\ t \in Nat /\ Value(r) % TwoTo[n + 1] = y + t
        BY <1>2, <2>4, <2>8
      <4>2. Value(l) * (y + t) = Value(l) * y + Value(l) * t
        <5> HIDE DEF y, t
        <5> QED BY <4>1, <1>1
      <4> HIDE DEF part
      <4> QED BY <2>6, <4>1, <4>2
    <3>5. part[n] \in Nat /\ x \in Nat
      BY <1>1, <1>2
    <3>6. ((part[n] % Modulus) + (x % Modulus)) % Modulus = (part[n] + x) % Modulus
      <4> HIDE DEF part, x
      <4> QED BY <1>1, <3>5, SumOfRemainders
    <3> HIDE DEF part, f, x
    <3> QED BY <2>2, <3>2, <3>3, <3>4, <3>6
  <2> QED BY <2>3, <2>7, <2>8
<1>5. \A n \in Nat : n \in S
  <2> HIDE DEF S
  <2> QED BY <1>3, <1>4, Induction
<1>6. Bits \in 0 .. Bits /\ Bits <= Bits
    BY <1>1
<1>7. Value(f[Bits]) = part[Bits] % Modulus
    BY <1>1, <1>5, <1>6
<1>8. Value(r) % TwoTo[Bits] = Value(r)
  <2>1. Value(r) = 0 * Modulus + Value(r) /\ Value(r) \in 0 .. Modulus - 1
    BY <1>1
  <2>2. Value(r) % Modulus = Value(r)
    BY <1>1, <2>1, QuotientIs
  <2> QED BY <2>2 DEF Modulus
<1>9. part[Bits] = Value(l) * Value(r)
    BY <1>1, <1>8
<1>10. f[Bits] \in UInt /\ Mul(l, r) = f[Bits]
    BY <1>6, ProductSteps DEF Mul
<1> HIDE DEF part, f
<1> QED
    BY <1>7, <1>9, <1>10

-----------------------------------------------------------------------------
(* Digits                                                                  *)

\* What a digit with n digits to its right counts.
DigitWeight(n) == TwoTo[DigitBits * n]

\* Each digit counts DigitBase times as much as the one to its right.
LEMMA DigitWeightFacts ==
    /\ DigitWeight(0) = 1 /\ DigitWeight(DigitsPerWord) = Base
    /\ \A n \in Nat : /\ DigitWeight(n) \in Nat \ {0}
                      /\ DigitWeight(n + 1) = DigitBase * DigitWeight(n)
<1>1. DigitWeight(0) = 1
    BY TwoToStep, SizeFacts DEF DigitWeight
<1>2. ASSUME NEW n \in Nat
      PROVE  /\ DigitWeight(n) \in Nat \ {0}
             /\ DigitWeight(n + 1) = DigitBase * DigitWeight(n)
  <2>1. /\ DigitBits * n \in Nat /\ DigitBits \in Nat
        /\ DigitBits * (n + 1) = DigitBits + DigitBits * n
    BY SizeFacts
  <2> DEFINE k == DigitBits * n
  <2>2. DigitWeight(n) = TwoTo[k] /\ DigitWeight(n + 1) = TwoTo[DigitBits + k]
        /\ k \in Nat
    BY <2>1 DEF DigitWeight
  <2> HIDE DEF k
  <2>3. TwoTo[DigitBits + k] = DigitBase * TwoTo[k] /\ TwoTo[k] \in Nat \ {0}
    BY <2>1, <2>2, TwoToStep, TwoToSum DEF DigitBase
  <2> QED BY <2>2, <2>3
<1>3. DigitWeight(DigitsPerWord) = Base
  <2>1. DigitBits * DigitsPerWord = WordBits
    BY SizeFacts
  <2> QED BY <2>1 DEF DigitWeight, Base
<1> QED
    BY <1>1, <1>2, <1>3

\* The weight of a digit so many digits further left.
LEMMA DigitWeightSum ==
    ASSUME NEW m \in Nat, NEW n \in Nat
    PROVE  DigitWeight(m + n) = DigitWeight(m) * DigitWeight(n)
<1>1. /\ DigitBits * m \in Nat /\ DigitBits * n \in Nat
      /\ DigitBits * (m + n) = DigitBits * m + DigitBits * n
    BY SizeFacts
<1> QED
    BY <1>1, TwoToSum DEF DigitWeight

\* Digits further left count no less.
LEMMA DigitWeightMonotone ==
    ASSUME NEW m \in Nat, NEW n \in Nat, m <= n
    PROVE  DigitWeight(m) <= DigitWeight(n)
<1> DEFINE d == n - m
<1>1. d \in Nat /\ m + d = n
    OBVIOUS
<1>2. DigitWeight(n) = DigitWeight(m) * DigitWeight(d)
  <2> HIDE DEF d
  <2> QED BY <1>1, DigitWeightSum
<1>3. DigitWeight(m) \in Nat \ {0} /\ DigitWeight(d) \in Nat \ {0}
  <2> HIDE DEF d
  <2> QED BY <1>1, DigitWeightFacts
<1> HIDE DEF d
<1> QED
    BY <1>2, <1>3

\* strtoul takes in one digit after the other.
LEMMA ReadingSteps ==
    ASSUME NEW s \in Seq(Digit)
    PROVE  /\ Reading(s)[0] = 0
           /\ \A n \in 0 .. Len(s) - 1 :
                  Reading(s)[n + 1] = Reading(s)[n] * DigitBase + s[n + 1]
           /\ \A n \in 0 .. Len(s) : Reading(s)[n] \in Nat
<1> DEFINE A == Nat
           a == 0
           step == [n \in Nat |->
                       [x \in A |-> IF n \in 0 .. Len(s) - 1
                                    THEN x * DigitBase + s[n + 1] ELSE x]]
<1>1. Len(s) \in Nat /\ DigitBase \in Nat
    BY WeightFacts
<1>2. ASSUME NEW n \in 0 .. Len(s) - 1, NEW x \in Nat
      PROVE  x * DigitBase + s[n + 1] \in Nat
  <2>1. n + 1 \in 1 .. Len(s)
    BY <1>1
  <2>2. s[n + 1] \in Digit
    BY <2>1
  <2>3. s[n + 1] \in Nat
    BY <2>2, <1>1 DEF Digit
  <2> QED BY <1>1, <2>3
<1>3. a \in A /\ step \in Passes(A)
    BY <1>2 DEF Passes
<1>4. PICK f : ComputesTo(f, A, a, step, Len(s))
  <2> HIDE DEF A, a, step
  <2> QED BY <1>1, <1>3, RecursionTo
<1>5. f = [n \in 0 .. Len(s) |-> IF n = 0 THEN 0 ELSE f[n - 1] * DigitBase + s[n]]
  <2>1. ASSUME NEW n \in 0 .. Len(s)
        PROVE  f[n] = IF n = 0 THEN 0 ELSE f[n - 1] * DigitBase + s[n]
    <3>1. CASE n = 0
      <4> HIDE DEF A, a, step
      <4>1. f[n] = a
        BY <3>1, <1>4 DEF ComputesTo
      <4> QED BY <3>1, <4>1 DEF a
    <3>2. CASE n # 0
      <4>1. n - 1 \in Nat /\ n - 1 \in 0 .. Len(s) /\ n - 1 \in 0 .. Len(s) - 1
            /\ (n - 1) + 1 = n
        BY <3>2, <1>1
      <4>2. f[n] = step[n - 1][f[n - 1]] /\ f[n - 1] \in A
        <5> HIDE DEF A, a, step
        <5> QED BY <4>1, <3>2, <1>4 DEF ComputesTo
      <4>3. f[n] = f[n - 1] * DigitBase + s[(n - 1) + 1]
        BY <4>1, <4>2
      <4> QED BY <3>2, <4>1, <4>3
    <3> QED BY <3>1, <3>2
  <2> HIDE DEF A, a, step
  <2> QED BY <2>1, <1>4 DEF ComputesTo
<1>6. Reading(s) = [n \in 0 .. Len(s) |->
                       IF n = 0 THEN 0 ELSE Reading(s)[n - 1] * DigitBase + s[n]]
    BY <1>5 DEF Reading
<1> HIDE DEF A, a, step
<1>7. Reading(s)[0] = 0
  <2>1. 0 \in 0 .. Len(s)
    BY <1>1
  <2> QED BY <2>1, <1>6
<1>8. ASSUME NEW n \in 0 .. Len(s) - 1
      PROVE  Reading(s)[n + 1] = Reading(s)[n] * DigitBase + s[n + 1]
  <2> DEFINE m == n + 1
  <2>1. m \in 0 .. Len(s) /\ m # 0 /\ m - 1 = n
    BY <1>1
  <2> HIDE DEF m
  <2>2. Reading(s)[m] = Reading(s)[m - 1] * DigitBase + s[m]
    BY <2>1, <1>6
  <2> QED BY <2>1, <2>2 DEF m
<1> DEFINE S == {n \in Nat : n <= Len(s) => Reading(s)[n] \in Nat}
<1>9. 0 \in S
    BY <1>7
<1>10. ASSUME NEW n \in Nat, n \in S PROVE n + 1 \in S
  <2> SUFFICES ASSUME n + 1 <= Len(s) PROVE Reading(s)[n + 1] \in Nat
    OBVIOUS
  <2>1. n \in 0 .. Len(s) - 1 /\ n <= Len(s)
    BY <1>1
  <2> QED BY <2>1, <1>2, <1>8, <1>10
<1>11. \A n \in Nat : n \in S
  <2> HIDE DEF S
  <2> QED BY <1>9, <1>10, Induction
<1>12. ASSUME NEW n \in 0 .. Len(s) PROVE n \in Nat /\ n <= Len(s)
    BY <1>1
<1> QED
    BY <1>7, <1>8, <1>11, <1>12

\* Reading goes on with the digits of t where s has them.
LEMMA ReadingPart ==
    ASSUME NEW s \in Seq(Digit), NEW t \in Seq(Digit), NEW m \in Nat,
           m + Len(t) <= Len(s), \A n \in 1 .. Len(t) : s[m + n] = t[n]
    PROVE  \A n \in 0 .. Len(t) :
               Reading(s)[m + n] = Reading(s)[m] * DigitWeight(n) + Reading(t)[n]
<1> DEFINE S == {n \in Nat : n <= Len(t) =>
                    Reading(s)[m + n] = Reading(s)[m] * DigitWeight(n) + Reading(t)[n]}
<1>1. Len(s) \in Nat /\ Len(t) \in Nat /\ DigitBase \in Nat /\ m \in 0 .. Len(s)
  <2>1. Len(s) \in Nat /\ Len(t) \in Nat
    OBVIOUS
  <2> QED BY <2>1, WeightFacts
<1>2. Reading(s)[m] \in Nat
    BY <1>1, ReadingSteps
<1>3. 0 \in S
  <2>1. Reading(t)[0] = 0 /\ DigitWeight(0) = 1 /\ m + 0 = m
    BY ReadingSteps, DigitWeightFacts
  <2>2. Reading(s)[m + 0] = Reading(s)[m] * DigitWeight(0) + Reading(t)[0]
    BY <1>2, <2>1
  <2> QED BY <2>2
<1>4. ASSUME NEW n \in Nat, n \in S PROVE n + 1 \in S
  <2> SUFFICES ASSUME n + 1 <= Len(t)
               PROVE  Reading(s)[m + (n + 1)] =
                          Reading(s)[m] * DigitWeight(n + 1) + Reading(t)[n + 1]
    OBVIOUS
  <2>1. /\ n <= Len(t) /\ n \in 0 .. Len(t) /\ n \in 0 .. Len(t) - 1
        /\ n + 1 \in 1 .. Len(t)
        /\ m + n \in 0 .. Len(s) - 1 /\ m + (n + 1) = (m + n) + 1
    BY <1>1
  <2>2. Reading(s)[m + n] = Reading(s)[m] * DigitWeight(n) + Reading(t)[n]
    BY <1>4, <2>1
  <2>3. Reading(s)[(m + n) + 1] = Reading(s)[m + n] * DigitBase + s[(m + n) + 1]
    BY <2>1, ReadingSteps
  <2>4. s[(m + n) + 1] = t[n + 1] /\ t[n + 1] \in Nat
    <3>1. s[m + (n + 1)] = t[n + 1] /\ t[n + 1] \in Digit
      BY <2>1
    <3> QED BY <2>1, <3>1, <1>1 DEF Digit
  <2>5. Reading(t)[n + 1] = Reading(t)[n] * DigitBase + t[n + 1] /\ Reading(t)[n] \in Nat
    BY <2>1, ReadingSteps
  <2>6. DigitWeight(n + 1) = DigitBase * DigitWeight(n) /\ DigitWeight(n) \in Nat
    BY DigitWeightFacts
  <2> DEFINE x == Reading(s)[m]
             y == Reading(t)[n]
             w == DigitWeight(n)
  <2>7. x \in Nat /\ y \in Nat /\ w \in Nat
    BY <1>2, <2>5, <2>6
  <2>8. /\ (x * w + y) * DigitBase = x * (DigitBase * w) + y * DigitBase
        /\ x * (DigitBase * w) \in Nat /\ y * DigitBase \in Nat
    <3> HIDE DEF x, y, w
    <3> QED BY <1>1, <2>7, Products
  <2>9. Reading(s)[m + (n + 1)] = (x * w + y) * DigitBase + t[n + 1]
    BY <2>1, <2>2, <2>3, <2>4
  <2>10. /\ Reading(t)[n + 1] = y * DigitBase + t[n + 1]
         /\ DigitWeight(n + 1) = DigitBase * w
    BY <2>5, <2>6
  <2>11. x * (DigitBase * w) + y * DigitBase + t[n + 1]
             = x * (DigitBase * w) + (y * DigitBase + t[n + 1])
    BY <2>4, <2>8
  <2> QED BY <2>8, <2>9, <2>10, <2>11
<1>5. \A n \in Nat : n \in S
  <2> HIDE DEF S
  <2> QED BY <1>3, <1>4, Induction
<1>6. ASSUME NEW n \in 0 .. Len(t) PROVE n \in Nat /\ n <= Len(t)
    BY <1>1
<1> QED
    BY <1>5, <1>6

\* Digits make less than the weight of the digit before them.
LEMMA ReadingBound ==
    ASSUME NEW s \in Seq(Digit)
    PROVE  Strtoul(s) \in Nat /\ Strtoul(s) < DigitWeight(Len(s))
<1> DEFINE S == {n \in Nat : n <= Len(s) => Reading(s)[n] < DigitWeight(n)}
<1>1. Len(s) \in Nat /\ DigitBase \in Nat
    BY WeightFacts
<1>2. 0 \in S
  <2>1. Reading(s)[0] = 0 /\ DigitWeight(0) = 1
    BY ReadingSteps, DigitWeightFacts
  <2> QED BY <2>1
<1>3. ASSUME NEW n \in Nat, n \in S PROVE n + 1 \in S
  <2> SUFFICES ASSUME n + 1 <= Len(s) PROVE Reading(s)[n + 1] < DigitWeight(n + 1)
    OBVIOUS
  <2>1. n \in 0 .. Len(s) /\ n \in 0 .. Len(s) - 1 /\ n <= Len(s) /\ n + 1 \in 1 .. Len(s)
    BY <1>1
  <2>2. Reading(s)[n + 1] = Reading(s)[n] * DigitBase + s[n + 1] /\ Reading(s)[n] \in Nat
    BY <2>1, ReadingSteps
  <2>3. s[n + 1] \in Nat /\ s[n + 1] <= DigitBase - 1
    <3>1. s[n + 1] \in Digit
      BY <2>1
    <3> QED BY <3>1, <1>1 DEF Digit
  <2>4. DigitWeight(n + 1) = DigitBase * DigitWeight(n) /\ DigitWeight(n) \in Nat
    BY DigitWeightFacts
  <2>5. Reading(s)[n] <= DigitWeight(n) - 1
    BY <1>3, <2>1, <2>2, <2>4
  <2> DEFINE x == Reading(s)[n]
             w == DigitWeight(n)
  <2>6. x \in Nat /\ w \in Nat /\ x <= w - 1
    BY <2>2, <2>4, <2>5
  <2>7. x * DigitBase <= (w - 1) * DigitBase
        /\ (w - 1) * DigitBase = DigitBase * w - DigitBase
    <3> HIDE DEF x, w
    <3> QED BY <1>1, <2>6
  <2>8. x * DigitBase \in Nat /\ DigitBase * w \in Nat
    <3> HIDE DEF x, w
    <3> QED BY <1>1, <2>6
  <2>9. /\ Reading(s)[n + 1] = x * DigitBase + s[n + 1]
        /\ DigitWeight(n + 1) = DigitBase * w
    BY <2>2, <2>4
  <2> HIDE DEF x, w
  <2> QED BY <1>1, <2>3, <2>7, <2>8, <2>9
<1>4. \A n \in Nat : n \in S
  <2> HIDE DEF S
  <2> QED BY <1>2, <1>3, Induction
<1>5. Len(s) \in 0 .. Len(s) /\ Len(s) <= Len(s)
    BY <1>1
<1> QED
    BY <1>1, <1>4, <1>5, ReadingSteps DEF Strtoul

\* Of a concatenation the lengths and the first digit are known.
LEMMA ConcatFacts ==
    ASSUME NEW s \in Seq(Digit), NEW t \in Seq(Digit)
    PROVE  /\ s \o t \in Seq(Digit) /\ Len(s \o t) = Len(s) + Len(t)
           /\ s # <<>> => (s \o t)[1] = s[1]
BY ConcatProperties

\* What two strings one after the other make.
LEMMA StrtoulConcat ==
    ASSUME NEW s \in Seq(Digit), NEW t \in Seq(Digit)
    PROVE  Strtoul(s \o t) = Strtoul(s) * DigitWeight(Len(t)) + Strtoul(t)
<1> DEFINE u == s \o t
           m == Len(s)
<1>1. /\ u \in Seq(Digit) /\ m \in Nat /\ Len(t) \in Nat
      /\ m + Len(t) = Len(u)
      /\ \A n \in 1 .. m : u[n] = s[n]
      /\ \A n \in 1 .. Len(t) : u[m + n] = t[n]
    OBVIOUS
<1>2. \A n \in 1 .. m : u[0 + n] = s[n]
    BY <1>1
<1> HIDE DEF u
<1>3. Reading(u)[m + Len(t)] = Reading(u)[m] * DigitWeight(Len(t)) + Reading(t)[Len(t)]
  <2>1. m + Len(t) <= Len(u) /\ Len(t) \in 0 .. Len(t)
    BY <1>1
  <2> QED BY <1>1, <2>1, ReadingPart
<1>4. Reading(u)[0 + m] = Reading(u)[0] * DigitWeight(m) + Reading(s)[m]
  <2>1. 0 + m <= Len(u) /\ m \in 0 .. m /\ 0 \in Nat
    BY <1>1
  <2> QED BY <1>1, <1>2, <2>1, ReadingPart
<1>5. Reading(u)[m] = Reading(s)[m]
  <2>1. Reading(u)[0] = 0 /\ Reading(s)[m] \in Nat /\ DigitWeight(m) \in Nat
    <3>1. m \in 0 .. Len(s)
      BY <1>1
    <3> QED BY <1>1, <3>1, ReadingSteps, DigitWeightFacts
  <2> QED BY <1>1, <1>4, <2>1
<1> QED
    BY <1>1, <1>3, <1>5 DEF Strtoul, u

-----------------------------------------------------------------------------
(* Reading a value                                                         *)

\* How many digits are left when i words are read.
Rest(hex, i) == IF Len(hex) > i * DigitsPerWord THEN Len(hex) - i * DigitsPerWord ELSE 0

\* The greater of two numbers.
LEMMA MaxOfTwo ==
    ASSUME NEW a \in Int, NEW b \in Int
    PROVE  Max({a, b}) = IF a >= b THEN a ELSE b
<1> DEFINE m == IF a >= b THEN a ELSE b
<1>1. m \in {a, b} /\ \A y \in {a, b} : m >= y
    OBVIOUS
<1>2. \A x \in {a, b} : (\A y \in {a, b} : x >= y) => x = m
    OBVIOUS
<1> HIDE DEF m
<1>3. Max({a, b}) = m
    BY <1>1, <1>2 DEF Max
<1> QED
    BY <1>3 DEF m

\* Each pass of uint256_create_from_hex takes eight digits, or what is left
\* (uint256.c:44-61).
LEMMA RestFacts ==
    ASSUME NEW hex \in Seq(Digit), NEW i \in Nat
    PROVE  /\ Rest(hex, i) \in 0 .. Len(hex)
           /\ Rest(hex, i + 1) =
                  IF Rest(hex, i) > DigitsPerWord THEN Rest(hex, i) - DigitsPerWord ELSE 0
           /\ Rest(hex, 0) = Len(hex)
           /\ Len(hex) > i * DigitsPerWord <=> Rest(hex, i) > 0
<1>1. /\ Len(hex) \in Nat /\ DigitsPerWord \in Nat \ {0} /\ i * DigitsPerWord \in Nat
      /\ (i + 1) * DigitsPerWord = i * DigitsPerWord + DigitsPerWord
      /\ 0 * DigitsPerWord = 0
  <2>1. Len(hex) \in Nat /\ DigitsPerWord \in Nat \ {0}
    BY SizeFacts
  <2> QED BY <2>1
<1> DEFINE x == i * DigitsPerWord
<1> HIDE DEF x
<1>2. x \in Nat /\ (i + 1) * DigitsPerWord = x + DigitsPerWord
    BY <1>1 DEF x
<1>3. Rest(hex, i) = IF Len(hex) > x THEN Len(hex) - x ELSE 0
    BY DEF Rest, x
<1>4. Rest(hex, i + 1) = IF Len(hex) > x + DigitsPerWord
                         THEN Len(hex) - (x + DigitsPerWord) ELSE 0
    BY <1>2 DEF Rest
<1>5. Rest(hex, 0) = Len(hex)
    BY <1>1 DEF Rest
<1> QED
    BY <1>1, <1>2, <1>3, <1>4, <1>5 DEF x

\* The digits of a word are those between what was left before and after it.
LEMMA ChunkFacts ==
    ASSUME NEW hex \in Seq(Digit), NEW i \in Nat, Rest(hex, i) > 0
    PROVE  /\ Chunk(hex, i) \in Seq(Digit)
           /\ Len(Chunk(hex, i)) = Rest(hex, i) - Rest(hex, i + 1)
           /\ \A n \in 1 .. Len(Chunk(hex, i)) :
                  hex[Rest(hex, i + 1) + n] = Chunk(hex, i)[n]
<1> DEFINE last == Rest(hex, i)
           m == Rest(hex, i + 1)
<1>1. /\ last \in 0 .. Len(hex) /\ Len(hex) > i * DigitsPerWord
      /\ m = IF last > DigitsPerWord THEN last - DigitsPerWord ELSE 0
      /\ last = Len(hex) - i * DigitsPerWord
      /\ DigitsPerWord \in Nat \ {0} /\ Len(hex) \in Nat
  <2>1. Len(hex) > i * DigitsPerWord
    BY RestFacts
  <2>2. last = Len(hex) - i * DigitsPerWord
    BY <2>1 DEF Rest
  <2>3. /\ last \in 0 .. Len(hex)
        /\ m = IF last > DigitsPerWord THEN last - DigitsPerWord ELSE 0
    BY RestFacts
  <2>4. Len(hex) \in Nat /\ DigitsPerWord \in Nat \ {0}
    BY SizeFacts
  <2> HIDE DEF last, m
  <2> QED BY <2>1, <2>2, <2>3, <2>4
<1> HIDE DEF last, m
<1>2. last \in Nat /\ last - DigitsPerWord + 1 \in Int /\ m \in Nat /\ m < last
      /\ last <= Len(hex) /\ last > 0 /\ Len(hex) \in Nat
  <2>1. last > 0
    BY DEF last
  <2> QED BY <1>1, <2>1
<1>3. Max({1, last - DigitsPerWord + 1}) = m + 1
  <2> DEFINE b == last - DigitsPerWord + 1
  <2>1. Max({1, b}) = IF 1 >= b THEN 1 ELSE b
    <3> HIDE DEF b
    <3> QED BY <1>2, MaxOfTwo DEF b
  <2> QED BY <1>1, <1>2, <2>1
<1>4. Chunk(hex, i) = SubSeq(hex, m + 1, last)
    BY <1>1, <1>3 DEF Chunk
<1>5. m + 1 \in 1 .. Len(hex) /\ last \in m .. Len(hex)
    BY <1>2
<1>6. /\ SubSeq(hex, m + 1, last) \in Seq(Digit)
      /\ Len(SubSeq(hex, m + 1, last)) = last - m
      /\ \A n \in 1 .. last - m : SubSeq(hex, m + 1, last)[n] = hex[m + n]
  <2>1. m + 1 \in 1 .. last + 1
    BY <1>2
  <2>2. last - (m + 1) + 1 = last - m
    BY <1>2
  <2>3. \A n \in 1 .. last - m : (m + 1) + n - 1 = m + n
    BY <1>2
  <2> QED BY <1>2, <1>5, <2>1, <2>2, <2>3, SubSeqProperties
<1> QED
    BY <1>4, <1>6 DEF last, m

\* uint256_create_from_hex reads the string's number modulo 2^256, however long
\* the string is (uint256.c:32-65).
LEMMA CreateFromHexFacts ==
    ASSUME NEW hex \in Seq(Digit)
    PROVE  /\ CreateFromHex(hex) \in UInt
           /\ Value(CreateFromHex(hex)) = Strtoul(hex) % Modulus
<1> DEFINE v == CreateFromHex(hex)
           R == Reading(hex)
           L == Len(hex)
           S == {i \in Nat : i <= Words =>
                    R[L] = R[Rest(hex, i)] * Weight(i) + Low(v)[i]}
<1>1. /\ L \in Nat /\ DigitsPerWord \in Nat \ {0} /\ Words \in Nat \ {0}
      /\ Base \in Nat \ {0}
  <2>1. L \in Nat
    OBVIOUS
  <2>2. Base \in Nat \ {0}
    BY WeightFacts
  <2> QED BY <2>1, <2>2, SizeFacts
<1>2. ASSUME NEW i \in Index
      PROVE  /\ i \in Nat
             /\ Rest(hex, i) > 0 => v[i] = Strtoul(Chunk(hex, i))
             /\ ~(Rest(hex, i) > 0) => v[i] = 0
             /\ v[i] \in 0 .. Base - 1
  <2>1. i \in Nat
    BY IndexFacts
  <2>2. Len(hex) > i * DigitsPerWord <=> Rest(hex, i) > 0
    BY <2>1, RestFacts
  <2>3. /\ Rest(hex, i) > 0 => v[i] = Strtoul(Chunk(hex, i))
        /\ ~(Rest(hex, i) > 0) => v[i] = 0
    BY <2>2 DEF CreateFromHex
  <2>4. CASE Rest(hex, i) > 0
    <3> DEFINE t == Chunk(hex, i)
    <3>1. t \in Seq(Digit) /\ Len(t) = Rest(hex, i) - Rest(hex, i + 1)
      BY <2>1, <2>4, ChunkFacts
    <3>2. Len(t) \in Nat /\ Len(t) <= DigitsPerWord
      <4>1. /\ Rest(hex, i) \in 0 .. Len(hex)
            /\ Rest(hex, i + 1) =
                  IF Rest(hex, i) > DigitsPerWord THEN Rest(hex, i) - DigitsPerWord ELSE 0
        BY <2>1, RestFacts
      <4> HIDE DEF t
      <4> QED BY <1>1, <3>1, <4>1
    <3>3. DigitWeight(Len(t)) <= Base /\ DigitWeight(Len(t)) \in Nat
      <4> HIDE DEF t
      <4> QED BY <1>1, <3>2, DigitWeightMonotone, DigitWeightFacts
    <3>4. Strtoul(t) \in Nat /\ Strtoul(t) < DigitWeight(Len(t))
      <4> HIDE DEF t
      <4> QED BY <3>1, ReadingBound
    <3> HIDE DEF v
    <3> QED BY <1>1, <2>1, <2>3, <2>4, <3>3, <3>4
  <2>5. CASE ~(Rest(hex, i) > 0)
    <3> HIDE DEF v
    <3> QED BY <1>1, <2>1, <2>3, <2>5
  <2> QED BY <2>4, <2>5
<1>3. v \in UInt
  <2>1. v = [i \in Index |-> v[i]]
    BY DEF CreateFromHex
  <2> HIDE DEF v
  <2> QED BY <1>2, <2>1 DEF UInt
<1> HIDE DEF v
<1>4. \A k \in 0 .. L : R[k] \in Nat
    BY ReadingSteps
<1>5. 0 \in S
  <2>1. Rest(hex, 0) = L /\ Weight(0) = 1 /\ Low(v)[0] = 0 /\ R[L] \in Nat
    <3>1. L \in 0 .. L /\ 0 \in Nat
      BY <1>1
    <3> QED BY <1>3, <1>4, <3>1, RestFacts, WeightFacts, LowSteps
  <2>2. R[L] = R[Rest(hex, 0)] * Weight(0) + Low(v)[0]
    BY <2>1
  <2> QED BY <2>2
<1>6. ASSUME NEW i \in Nat, i \in S PROVE i + 1 \in S
  <2> SUFFICES ASSUME i + 1 <= Words
               PROVE  R[L] = R[Rest(hex, i + 1)] * Weight(i + 1) + Low(v)[i + 1]
    OBVIOUS
  <2>1. i \in Index /\ i <= Words /\ i + 1 \in Nat
    BY SizeFacts
  <2>2. R[L] = R[Rest(hex, i)] * Weight(i) + Low(v)[i]
    BY <1>6, <2>1
  <2>3. Low(v)[i + 1] = Low(v)[i] + v[i] * Weight(i) /\ Low(v)[i] \in Nat /\ v[i] \in Nat
    BY <1>3, <2>1, LowSteps, IndexFacts, WordFacts
  <2>4. Weight(i + 1) = Base * Weight(i) /\ Weight(i) \in Nat
    BY WeightFacts
  <2> DEFINE last == Rest(hex, i)
             m == Rest(hex, i + 1)
  <2>5. /\ last \in 0 .. L /\ m \in 0 .. L
        /\ m = IF last > DigitsPerWord THEN last - DigitsPerWord ELSE 0
    BY <2>1, RestFacts
  <2>6. R[last] \in Nat /\ R[m] \in Nat
    <3> HIDE DEF last, m, R, L
    <3> QED BY <1>4, <2>5
  <2>7. R[last] = R[m] * Base + v[i]
    <3>1. R[0] = 0
      BY ReadingSteps
    <3>2. CASE last = 0
      <4>1. m = 0 /\ v[i] = 0
        BY <1>1, <1>2, <2>1, <2>5, <3>2
      <4> HIDE DEF last, m, R
      <4> QED BY <1>1, <3>1, <3>2, <4>1
    <3>3. CASE last > 0
      <4> DEFINE t == Chunk(hex, i)
      <4>1. /\ t \in Seq(Digit) /\ Len(t) = last - m
            /\ \A n \in 1 .. Len(t) : hex[m + n] = t[n]
        BY <3>3, ChunkFacts
      <4>2. m \in Nat /\ Len(t) \in Nat /\ m + Len(t) <= Len(hex)
            /\ Len(t) \in 0 .. Len(t) /\ m + Len(t) = last
        <5> HIDE DEF last, m, t
        <5> QED BY <1>1, <2>5, <4>1
      <4>3. R[m + Len(t)] = R[m] * DigitWeight(Len(t)) + Reading(t)[Len(t)]
        <5> HIDE DEF m, t
        <5> QED BY <4>1, <4>2, ReadingPart
      <4>4. v[i] = Reading(t)[Len(t)]
        BY <1>2, <2>1, <3>3 DEF Strtoul
      <4>5. DigitWeight(Len(t)) \in Nat /\ v[i] \in Nat
        <5> HIDE DEF t
        <5> QED BY <2>3, <4>2, DigitWeightFacts
      <4> HIDE DEF last, m, t, R
      <4>6. CASE last >= DigitsPerWord
        <5>1. Len(t) = DigitsPerWord
          BY <1>1, <2>5, <4>1, <4>6
        <5> QED BY <4>2, <4>3, <4>4, <5>1, DigitWeightFacts
      <4>7. CASE ~(last >= DigitsPerWord)
        <5>1. m = 0
          BY <1>1, <2>5, <4>7
        <5> QED BY <1>1, <3>1, <4>2, <4>3, <4>4, <4>5, <5>1
      <4> QED BY <4>6, <4>7
    <3> HIDE DEF last
    <3> QED BY <2>5, <3>2, <3>3
  <2> DEFINE w == Weight(i)
             x == R[m]
             y == v[i]
  <2>8. x \in Nat /\ y \in Nat /\ w \in Nat
    BY <2>3, <2>4, <2>6
  <2>9. (x * Base + y) * w = x * (Base * w) + y * w /\ x * (Base * w) \in Nat /\ y * w \in Nat
    <3> HIDE DEF x, y, w
    <3> QED BY <1>1, <2>8
  <2>10. /\ R[L] = (x * Base + y) * w + Low(v)[i]
         /\ Low(v)[i + 1] = Low(v)[i] + y * w
         /\ Weight(i + 1) = Base * w
    BY <2>2, <2>3, <2>4, <2>7
  <2>11. R[L] = x * Weight(i + 1) + Low(v)[i + 1]
    <3> HIDE DEF x, y, w, R, L
    <3> QED BY <2>3, <2>9, <2>10
  <2> QED BY <2>11
<1>7. \A i \in Nat : i \in S
  <2> HIDE DEF S
  <2> QED BY <1>5, <1>6, Induction
<1> DEFINE q == R[Rest(hex, Words)]
<1>8. q \in Nat
  <2>1. Rest(hex, Words) \in 0 .. L
    BY <1>1, RestFacts
  <2> HIDE DEF R
  <2> QED BY <1>4, <2>1
<1>9. Strtoul(hex) = q * Modulus + Value(v)
  <2>1. Words \in Nat /\ Words <= Words
    BY <1>1
  <2> QED BY <1>7, <2>1, WeightFacts DEF Strtoul, Value
<1>10. Value(v) \in 0 .. Modulus - 1 /\ Modulus \in Nat \ {0}
    BY <1>3, ValueBound
<1>11. (q * Modulus + Value(v)) % Modulus = Value(v)
  <2> HIDE DEF q
  <2> QED BY <1>8, <1>10, QuotientIs
<1> HIDE DEF q
<1> QED
    BY <1>3, <1>9, <1>11 DEF v

-----------------------------------------------------------------------------
(* Writing a value                                                         *)

\* A set of naturals with a member has a least one.
LEMMA MinOf ==
    ASSUME NEW S \in SUBSET Nat, NEW n \in S
    PROVE  Min(S) \in S /\ \A y \in S : Min(S) <= y
<1>1. \E x \in S : \A y \in S : x <= y
  <2> SUFFICES ASSUME \A x \in S : \E y \in S : ~(x <= y) PROVE FALSE
    OBVIOUS
  <2> DEFINE T == {k \in Nat : \A y \in S : k <= y}
  <2>1. 0 \in T
    OBVIOUS
  <2>2. ASSUME NEW k \in Nat, k \in T PROVE k + 1 \in T
    <3>1. k \notin S
      BY <2>2
    <3>2. ASSUME NEW y \in S PROVE k + 1 <= y
      <4>1. y \in Nat /\ k <= y /\ y # k
        BY <2>2, <3>1
      <4> QED BY <4>1
    <3> QED BY <3>2
  <2>3. \A k \in Nat : k \in T
    <3> HIDE DEF T
    <3> QED BY <2>1, <2>2, Induction
  <2>4. n + 1 \in T
    BY <2>3
  <2> QED BY <2>4
<1>2. PICK x \in S : \A y \in S : x <= y
    BY <1>1
<1> QED
    BY <1>2 DEF Min

\* A bounded set of naturals with a member has a greatest one.
LEMMA MaxOf ==
    ASSUME NEW m \in Nat, NEW S \in SUBSET (0 .. m), NEW n \in S
    PROVE  Max(S) \in S /\ \A y \in S : Max(S) >= y
<1> DEFINE T == {m - x : x \in S}
<1>1. T \in SUBSET Nat /\ m - n \in T
    OBVIOUS
<1>2. Min(T) \in T /\ \A y \in T : Min(T) <= y
  <2> DEFINE k == m - n
  <2> HIDE DEF T, k
  <2> QED BY <1>1, MinOf DEF k
<1>3. PICK x \in S : Min(T) = m - x
    BY <1>2
<1>4. ASSUME NEW y \in S PROVE x >= y
  <2>1. m - y \in T
    OBVIOUS
  <2>2. m - x <= m - y
    BY <1>2, <1>3, <2>1
  <2>3. x \in Nat /\ y \in Nat
    OBVIOUS
  <2> QED BY <2>2, <2>3
<1> HIDE DEF T
<1> QED
    BY <1>4 DEF Max

\* endPoint is the most significant word that is not zero (uint256.c:75-82).
LEMMA EndPointFacts ==
    ASSUME NEW v \in UInt
    PROVE  /\ EndPoint(v) \in Index
           /\ \A i \in Index : i > EndPoint(v) => v[i] = 0
           /\ EndPoint(v) # 0 => v[EndPoint(v)] # 0
<1> DEFINE S == {i \in Index : v[i] # 0} \union {0}
           m == Words - 1
<1>1. m \in Nat /\ S \in SUBSET (0 .. m) /\ 0 \in S /\ Index = 0 .. m
    BY SizeFacts
<1>2. Max(S) \in S /\ \A y \in S : Max(S) >= y
  <2> HIDE DEF S, m
  <2> QED BY <1>1, MaxOf
<1>3. EndPoint(v) = Max(S)
    BY DEF EndPoint
<1>4. EndPoint(v) \in Index
  <2> HIDE DEF S, m
  <2> QED BY <1>1, <1>2, <1>3
<1>5. ASSUME NEW i \in Index, i > EndPoint(v) PROVE v[i] = 0
  <2>1. i \in Nat /\ EndPoint(v) \in Nat
    BY <1>4, IndexFacts
  <2>2. i \notin S
    <3> HIDE DEF S
    <3> QED BY <1>2, <1>3, <1>5, <2>1
  <2> QED BY <2>2
<1>6. EndPoint(v) # 0 => v[EndPoint(v)] # 0
    BY <1>2, <1>3
<1> QED
    BY <1>4, <1>5, <1>6

\* Dividing twice is dividing by the product.
LEMMA QuotientOfQuotient ==
    ASSUME NEW w \in Nat, NEW a \in Nat \ {0}, NEW b \in Nat \ {0}
    PROVE  (w \div a) \div b = w \div (b * a)
<1> DEFINE q == w \div a
           r == w % a
           p == q \div b
           s == q % b
<1>1. q \in Nat /\ r \in 0 .. a - 1 /\ w = q * a + r
    BY Division
<1>2. p \in Nat /\ s \in 0 .. b - 1 /\ q = p * b + s
  <2> HIDE DEF q
  <2> QED BY <1>1, Division
<1> HIDE DEF q, r, p, s
<1>3. b * a \in Nat \ {0} /\ s * a \in Nat /\ s * a <= (b - 1) * a
      /\ (b - 1) * a = b * a - a
    BY <1>2
<1>4. s * a + r \in 0 .. b * a - 1
    BY <1>1, <1>3
<1>5. w = p * (b * a) + (s * a + r)
  <2>1. (p * b + s) * a = p * (b * a) + s * a
    BY <1>2
  <2>2. p * (b * a) \in Nat
    BY <1>2, <1>3
  <2> QED BY <1>1, <1>2, <1>3, <2>1, <2>2
<1> DEFINE m == b * a
           t == s * a + r
<1>6. (p * m + t) \div m = p
  <2>1. m \in Nat \ {0} /\ t \in 0 .. m - 1
    BY <1>3, <1>4
  <2> HIDE DEF m, t
  <2> QED BY <1>2, <2>1, QuotientIs
<1> QED
    BY <1>5, <1>6 DEF p, q

\* All the digits of a word, those of zeros too.
LEMMA PaddedFacts ==
    ASSUME NEW w \in 0 .. Base - 1
    PROVE  /\ Padded(w) \in Seq(Digit)
           /\ Len(Padded(w)) = DigitsPerWord
           /\ Strtoul(Padded(w)) = w
<1> DEFINE s == Padded(w)
           D == DigitsPerWord
           q == [n \in 0 .. D |-> w \div DigitWeight(D - n)]
           S == {n \in Nat : n <= D => Reading(s)[n] = q[n]}
<1>1. /\ D \in Nat \ {0} /\ Base \in Nat \ {0} /\ w \in Nat
      /\ DigitBase \in Nat \ {0}
  <2>1. Base \in Nat \ {0} /\ DigitBase \in Nat \ {0}
    BY WeightFacts
  <2>2. w \in Nat
    BY <2>1
  <2> QED BY <2>1, <2>2, SizeFacts
<1>2. ASSUME NEW n \in 0 .. D
      PROVE  DigitWeight(D - n) \in Nat \ {0} /\ q[n] = w \div DigitWeight(D - n)
             /\ q[n] \in Nat
  <2>1. D - n \in Nat
    BY <1>1
  <2>2. DigitWeight(D - n) \in Nat \ {0}
    BY <2>1, DigitWeightFacts
  <2>3. w \div DigitWeight(D - n) \in Nat
    BY <1>1, <2>2, Division
  <2> QED BY <2>2, <2>3
<1>3. ASSUME NEW d \in 1 .. D
      PROVE  d \in 0 .. D /\ s[d] = q[d] % DigitBase /\ s[d] \in Digit
  <2>1. d \in 0 .. D
    BY <1>1
  <2>2. s[d] = (w \div DigitWeight(D - d)) % DigitBase
    BY DEF Padded, DigitWeight
  <2>3. s[d] = q[d] % DigitBase
    BY <2>1, <2>2
  <2>4. q[d] % DigitBase \in 0 .. DigitBase - 1
    <3> HIDE DEF q
    <3> QED BY <1>1, <1>2, <2>1, Division
  <2> HIDE DEF s, q
  <2> QED BY <2>1, <2>3, <2>4 DEF Digit
<1>4. s \in Seq(Digit) /\ Len(s) = D
  <2>1. s = [d \in 1 .. D |-> s[d]]
    BY DEF Padded
  <2> HIDE DEF s, q
  <2>2. s \in [1 .. D -> Digit]
    BY <1>3, <2>1
  <2> QED BY <1>1, <2>2
<1>5. 0 \in S
  <2>1. Reading(s)[0] = 0
    BY <1>4, ReadingSteps
  <2>2. 0 \in 0 .. D /\ D - 0 = D
    BY <1>1
  <2>3. w = 0 * Base + w
    BY <1>1
  <2>4. w \div Base = 0
    BY <1>1, <2>3, QuotientIs
  <2>5. q[0] = 0
    BY <2>2, <2>4, DigitWeightFacts
  <2> HIDE DEF s, q
  <2> QED BY <2>1, <2>5
<1>6. ASSUME NEW n \in Nat, n \in S PROVE n + 1 \in S
  <2> SUFFICES ASSUME n + 1 <= D PROVE Reading(s)[n + 1] = q[n + 1]
    OBVIOUS
  <2>1. /\ n <= D /\ n \in 0 .. D /\ n + 1 \in 0 .. D /\ n + 1 \in 1 .. D
        /\ n \in 0 .. D - 1 /\ D - (n + 1) \in Nat /\ (D - (n + 1)) + 1 = D - n
    BY <1>1
  <2> HIDE DEF s
  <2>2. Reading(s)[n + 1] = Reading(s)[n] * DigitBase + s[n + 1]
    BY <1>4, <2>1, ReadingSteps
  <2>3. Reading(s)[n] = q[n]
    BY <1>6, <2>1
  <2>4. s[n + 1] = q[n + 1] % DigitBase
    BY <1>3, <2>1
  <2>5. DigitWeight(D - n) = DigitBase * DigitWeight(D - (n + 1))
    <3> DEFINE k == D - (n + 1)
    <3>1. DigitWeight(k + 1) = DigitBase * DigitWeight(k)
      <4> HIDE DEF k
      <4> QED BY <2>1, DigitWeightFacts DEF k
    <3> QED BY <2>1, <3>1
  <2>6. q[n] = q[n + 1] \div DigitBase
    <3> DEFINE a == DigitWeight(D - (n + 1))
    <3>1. a \in Nat \ {0}
      BY <1>2, <2>1
    <3>2. (w \div a) \div DigitBase = w \div (DigitBase * a)
      <4> HIDE DEF a
      <4> QED BY <1>1, <3>1, QuotientOfQuotient
    <3>3. q[n + 1] = w \div a /\ q[n] = w \div (DigitBase * a)
      BY <2>1, <2>5
    <3> HIDE DEF q, a
    <3> QED BY <3>2, <3>3
  <2>7. q[n + 1] = (q[n + 1] \div DigitBase) * DigitBase + (q[n + 1] % DigitBase)
    <3> HIDE DEF q
    <3> QED BY <1>1, <1>2, <2>1, Division
  <2> HIDE DEF q
  <2> QED BY <2>2, <2>3, <2>4, <2>6, <2>7
<1>7. \A n \in Nat : n \in S
  <2> HIDE DEF S
  <2> QED BY <1>5, <1>6, Induction
<1>8. Reading(s)[D] = q[D]
  <2>1. D \in Nat /\ D <= D
    BY <1>1
  <2>2. D \in S
    BY <1>7, <2>1
  <2> HIDE DEF q, D
  <2> QED BY <2>1, <2>2
<1>9. q[D] = w
  <2>1. D \in 0 .. D /\ D - D = 0
    BY <1>1
  <2>2. w \div 1 = w
    BY <1>1
  <2> QED BY <2>1, <2>2, DigitWeightFacts
<1> HIDE DEF s, q
<1> QED
    BY <1>4, <1>8, <1>9 DEF Strtoul, s

\* Digits that are all zeros make zero.
LEMMA ZerosRead ==
    ASSUME NEW s \in Seq(Digit), NEW m \in 0 .. Len(s), \A d \in 1 .. m : s[d] = 0
    PROVE  Reading(s)[m] = 0
<1> DEFINE S == {n \in Nat : n <= m => Reading(s)[n] = 0}
<1>1. Len(s) \in Nat /\ m \in Nat /\ m <= Len(s) /\ DigitBase \in Nat
  <2>1. Len(s) \in Nat
    OBVIOUS
  <2> QED BY <2>1, WeightFacts
<1>2. 0 \in S
  <2>1. Reading(s)[0] = 0
    BY ReadingSteps
  <2> QED BY <2>1
<1>3. ASSUME NEW n \in Nat, n \in S PROVE n + 1 \in S
  <2> SUFFICES ASSUME n + 1 <= m PROVE Reading(s)[n + 1] = 0
    OBVIOUS
  <2>1. n \in 0 .. Len(s) - 1 /\ n <= m /\ n + 1 \in 1 .. m
    BY <1>1
  <2>2. Reading(s)[n + 1] = Reading(s)[n] * DigitBase + s[n + 1]
    BY <2>1, ReadingSteps
  <2>3. Reading(s)[n] = 0 /\ s[n + 1] = 0
    BY <1>3, <2>1
  <2> QED BY <1>1, <2>2, <2>3
<1>4. \A n \in Nat : n \in S
  <2> HIDE DEF S
  <2> QED BY <1>2, <1>3, Induction
<1> QED
    BY <1>1, <1>4

\* Without the zeros in front a word is the same, and a zero is one digit.
LEMMA UnpaddedFacts ==
    ASSUME NEW w \in 0 .. Base - 1
    PROVE  /\ Unpadded(w) \in Seq(Digit)
           /\ Len(Unpadded(w)) \in Nat \ {0}
           /\ Strtoul(Unpadded(w)) = w
           /\ (Len(Unpadded(w)) > 1 \/ w # 0) => Unpadded(w)[1] # 0
<1> DEFINE s == Padded(w)
           D == DigitsPerWord
           S == {d \in 1 .. D : s[d] # 0} \union {D}
           first == Min(S)
           m == first - 1
           t == SubSeq(s, first, D)
<1>1. /\ D \in Nat \ {0} /\ s \in Seq(Digit) /\ Len(s) = D /\ Reading(s)[D] = w
      /\ DigitBase \in Nat
  <2>1. DigitBase \in Nat
    BY WeightFacts
  <2> HIDE DEF s
  <2> QED BY <2>1, SizeFacts, PaddedFacts DEF s, Strtoul
<1>2. first \in S /\ \A y \in S : first <= y
  <2>1. S \in SUBSET Nat /\ D \in S
    BY <1>1
  <2> HIDE DEF S
  <2> QED BY <2>1, MinOf
<1>3. first \in 1 .. D /\ (first # D => s[first] # 0)
    BY <1>1, <1>2
<1>4. \A d \in 1 .. m : s[d] = 0
  <2> SUFFICES ASSUME NEW d \in 1 .. m PROVE s[d] = 0
    OBVIOUS
  <2>1. first \in Nat /\ first <= D
    BY <1>1, <1>3
  <2> HIDE DEF first
  <2>2. d \in 1 .. D /\ ~(first <= d)
    BY <1>1, <2>1
  <2> QED BY <1>2, <2>2
<1>5. Unpadded(w) = t
    BY DEF Unpadded
<1> HIDE DEF S, first
<1>6. /\ m \in Nat /\ m <= D /\ m + 1 = first /\ m \in 0 .. D /\ D - m \in Nat \ {0}
      /\ first <= D /\ first \in Nat /\ first > 0 /\ D - first + 1 = D - m
    BY <1>1, <1>3
<1>7. /\ t \in Seq(Digit) /\ Len(t) = D - m
      /\ \A n \in 1 .. Len(t) : s[m + n] = t[n]
  <2>1. \A i \in first .. D : s[i] \in Digit
    <3> HIDE DEF s
    <3> QED BY <1>1, <1>6
  <2>2. /\ t \in Seq(Digit) /\ Len(t) = D - first + 1
        /\ \A n \in 1 .. D - first + 1 : t[n] = s[first + n - 1]
    <3> HIDE DEF s
    <3> QED BY <1>1, <1>6, <2>1, SubSeqProperties
  <2>3. \A n \in 1 .. D - m : first + n - 1 = m + n
    BY <1>1, <1>6
  <2> HIDE DEF s, t, m
  <2> QED BY <1>6, <2>2, <2>3
<1> HIDE DEF s, t
<1>8. Reading(s)[m + Len(t)] = Reading(s)[m] * DigitWeight(Len(t)) + Reading(t)[Len(t)]
  <2>1. m + Len(t) <= Len(s) /\ Len(t) \in 0 .. Len(t)
    BY <1>1, <1>6, <1>7
  <2>2. \A n \in 1 .. Len(t) : s[m + n] = t[n]
    BY <1>7
  <2> HIDE DEF m
  <2>3. \A n \in 0 .. Len(t) :
            Reading(s)[m + n] = Reading(s)[m] * DigitWeight(n) + Reading(t)[n]
    BY <1>1, <1>6, <1>7, <2>1, <2>2, ReadingPart
  <2> QED BY <2>1, <2>3
<1>9. Reading(s)[m] = 0
  <2> HIDE DEF m
  <2> QED BY <1>1, <1>4, <1>6, ZerosRead
<1>10. Strtoul(t) = w
  <2>1. m + Len(t) = D /\ Len(t) \in Nat
    BY <1>1, <1>6, <1>7
  <2>2. DigitWeight(Len(t)) \in Nat /\ Strtoul(t) \in Nat
    BY <1>7, <2>1, DigitWeightFacts, ReadingBound
  <2> HIDE DEF m
  <2> QED BY <1>1, <1>8, <1>9, <2>1, <2>2 DEF Strtoul
<1>11. ASSUME Len(t) > 1 \/ w # 0 PROVE t[1] # 0
  <2>1. 1 \in 1 .. Len(t) /\ t[1] = s[first]
    BY <1>6, <1>7
  <2>2. CASE first # D
    BY <1>3, <2>1, <2>2
  <2>3. CASE first = D
    <3>1. Len(t) = 1 /\ w # 0
      BY <1>6, <1>7, <1>11, <2>3
    <3>2. Reading(t)[0] = 0 /\ Reading(t)[0 + 1] = Reading(t)[0] * DigitBase + t[0 + 1]
      <4>1. 0 \in 0 .. Len(t) - 1
        BY <3>1
      <4> QED BY <1>7, <4>1, ReadingSteps
    <3>3. Reading(t)[1] = w
      BY <1>10, <3>1 DEF Strtoul
    <3>4. t[1] = w
      <4>1. t[1] \in Nat
        <5>1. t[1] \in Digit
          BY <1>7, <2>1
        <5> QED BY <5>1, <1>1 DEF Digit
      <4> QED BY <1>1, <3>2, <3>3, <4>1
    <3> QED BY <3>1, <3>4
  <2> QED BY <2>2, <2>3
<1>12. Len(t) \in Nat \ {0}
    BY <1>6, <1>7
<1> QED
    BY <1>5, <1>7, <1>10, <1>11, <1>12

\* The loop of uint256_format_as_hex puts one word after the other (uint256.c:105-110).
LEMMA TextSteps ==
    ASSUME NEW v \in UInt
    PROVE  /\ Text(v)[0] = Unpadded(v[EndPoint(v)])
           /\ \A n \in 0 .. EndPoint(v) - 1 :
                  /\ EndPoint(v) - (n + 1) \in Index
                  /\ Text(v)[n + 1] = Text(v)[n] \o Padded(v[EndPoint(v) - (n + 1)])
           /\ \A n \in 0 .. EndPoint(v) : Text(v)[n] \in Seq(Digit)
<1> DEFINE e == EndPoint(v)
           A == Seq(Digit)
           a == Unpadded(v[e])
           step == [n \in Nat |->
                       [x \in A |-> IF n \in 0 .. e - 1
                                    THEN x \o Padded(v[e - (n + 1)]) ELSE x]]
<1>1. e \in Index /\ e \in Nat /\ \A n \in 0 .. e - 1 : e - (n + 1) \in Index
  <2>1. e \in Index
    BY EndPointFacts
  <2>2. e \in Nat
    BY <2>1, IndexFacts
  <2> HIDE DEF e
  <2> QED BY <2>1, <2>2, SizeFacts
<1>2. a \in A
    BY <1>1, UnpaddedFacts DEF UInt
<1>3. ASSUME NEW n \in 0 .. e - 1 PROVE Padded(v[e - (n + 1)]) \in Seq(Digit)
  <2>1. v[e - (n + 1)] \in 0 .. Base - 1
    BY <1>1 DEF UInt
  <2> HIDE DEF e
  <2> QED BY <2>1, PaddedFacts
<1>4. step \in Passes(A)
  <2>1. ASSUME NEW n \in 0 .. e - 1, NEW x \in A
        PROVE  x \o Padded(v[e - (n + 1)]) \in A
    <3> DEFINE t == Padded(v[e - (n + 1)])
    <3>1. t \in Seq(Digit)
      BY <1>3
    <3> HIDE DEF t
    <3>2. x \o t \in A
      BY <3>1
    <3> QED BY <3>2 DEF t
  <2> HIDE DEF e, A
  <2> QED BY <2>1 DEF Passes
<1> HIDE DEF e
<1>5. PICK f : ComputesTo(f, A, a, step, e)
  <2> HIDE DEF A, a, step
  <2> QED BY <1>1, <1>2, <1>4, RecursionTo
<1>6. f = [n \in 0 .. e |-> IF n = 0 THEN Unpadded(v[e])
                            ELSE f[n - 1] \o Padded(v[e - n])]
  <2>1. ASSUME NEW n \in 0 .. e
        PROVE  f[n] = IF n = 0 THEN Unpadded(v[e]) ELSE f[n - 1] \o Padded(v[e - n])
    <3>1. CASE n = 0
      <4> HIDE DEF A, a, step
      <4>1. f[n] = a
        BY <3>1, <1>5 DEF ComputesTo
      <4> QED BY <3>1, <4>1 DEF a
    <3>2. CASE n # 0
      <4>1. n - 1 \in Nat /\ n - 1 \in 0 .. e /\ n - 1 \in 0 .. e - 1
            /\ (n - 1) + 1 = n
        BY <3>2, <1>1
      <4>2. f[n] = step[n - 1][f[n - 1]] /\ f[n - 1] \in A
        <5> HIDE DEF A, a, step
        <5> QED BY <4>1, <3>2, <1>5 DEF ComputesTo
      <4>3. f[n] = f[n - 1] \o Padded(v[e - ((n - 1) + 1)])
        <5> HIDE DEF A
        <5> QED BY <4>1, <4>2, Zenon
      <4> QED BY <3>2, <4>1, <4>3
    <3> QED BY <3>1, <3>2
  <2> HIDE DEF A, a, step
  <2> QED BY <2>1, <1>5 DEF ComputesTo
<1>7. Text(v) = [n \in 0 .. e |-> IF n = 0 THEN Unpadded(v[e])
                                  ELSE Text(v)[n - 1] \o Padded(v[e - n])]
    BY <1>6, Zenon DEF Text, e
<1> HIDE DEF A, a, step
<1>8. Text(v)[0] = Unpadded(v[e])
  <2>1. 0 \in 0 .. e
    BY <1>1
  <2> QED BY <2>1, <1>7
<1>9. ASSUME NEW n \in 0 .. e - 1
      PROVE  Text(v)[n + 1] = Text(v)[n] \o Padded(v[e - (n + 1)])
  <2> DEFINE m == n + 1
  <2>1. m \in 0 .. e /\ m # 0 /\ m - 1 = n
    BY <1>1
  <2> HIDE DEF m
  <2>2. Text(v)[m] = Text(v)[m - 1] \o Padded(v[e - m])
    BY <2>1, <1>7
  <2> QED BY <2>1, <2>2 DEF m
<1> DEFINE S == {n \in Nat : n <= e => Text(v)[n] \in A}
<1>10. 0 \in S
    BY <1>2, <1>8 DEF a
<1>11. ASSUME NEW n \in Nat, n \in S PROVE n + 1 \in S
  <2> SUFFICES ASSUME n + 1 <= e PROVE Text(v)[n + 1] \in A
    OBVIOUS
  <2>1. n \in 0 .. e - 1 /\ n <= e
    BY <1>1
  <2> DEFINE t == Padded(v[e - (n + 1)])
             x == Text(v)[n]
  <2>2. t \in Seq(Digit) /\ x \in Seq(Digit)
    BY <1>3, <1>11, <2>1 DEF A
  <2>3. Text(v)[n + 1] = x \o t
    BY <1>9, <2>1
  <2> HIDE DEF x, t
  <2> QED BY <2>2, <2>3 DEF A
<1>12. \A n \in Nat : n \in S
  <2> HIDE DEF S
  <2> QED BY <1>10, <1>11, Induction
<1>13. \A n \in 0 .. e : Text(v)[n] \in Seq(Digit)
  <2> SUFFICES ASSUME NEW n \in 0 .. e PROVE Text(v)[n] \in Seq(Digit)
    OBVIOUS
  <2>1. n \in Nat /\ n <= e
    BY <1>1
  <2> QED BY <1>12, <2>1 DEF A
<1> QED
    BY <1>1, <1>8, <1>9, <1>13 DEF e

\* Above the last word that is not zero nothing is added.
LEMMA LowAboveEndPoint ==
    ASSUME NEW v \in UInt
    PROVE  Low(v)[EndPoint(v) + 1] = Value(v)
<1> DEFINE e == EndPoint(v)
           S == {j \in Nat : e + 1 + j <= Words => Low(v)[e + 1 + j] = Low(v)[e + 1]}
<1>1. /\ e \in Index /\ e \in Nat /\ e + 1 \in 0 .. Words /\ Words \in Nat
      /\ \A i \in Index : i > e => v[i] = 0
    BY EndPointFacts, IndexFacts, SizeFacts
<1> HIDE DEF e
<1>2. 0 \in S
  <2>1. e + 1 + 0 = e + 1
    BY <1>1
  <2> QED BY <2>1
<1>3. ASSUME NEW j \in Nat, j \in S PROVE j + 1 \in S
  <2> SUFFICES ASSUME e + 1 + (j + 1) <= Words
               PROVE  Low(v)[e + 1 + (j + 1)] = Low(v)[e + 1]
    OBVIOUS
  <2> DEFINE i == e + 1 + j
  <2>1. /\ i \in Index /\ i > e /\ i <= Words /\ e + 1 + (j + 1) = i + 1
        /\ i \in 0 .. Words
    BY <1>1, SizeFacts
  <2>2. Low(v)[i] = Low(v)[e + 1]
    BY <1>3, <2>1
  <2> HIDE DEF i
  <2>3. Low(v)[i + 1] = Low(v)[i] + v[i] * Weight(i) /\ Low(v)[i] \in Nat
        /\ Weight(i) \in Nat /\ v[i] = 0
    BY <1>1, <2>1, LowSteps, IndexFacts
  <2> QED BY <2>1, <2>2, <2>3
<1>4. \A j \in Nat : j \in S
  <2> HIDE DEF S
  <2> QED BY <1>2, <1>3, Induction
<1>5. Words - (e + 1) \in Nat /\ e + 1 + (Words - (e + 1)) = Words
    BY <1>1
<1>6. Low(v)[Words] = Low(v)[e + 1]
  <2> DEFINE j == Words - (e + 1)
  <2>1. j \in Nat /\ e + 1 + j = Words /\ Words <= Words
    BY <1>1, <1>5
  <2> HIDE DEF j
  <2>2. j \in S
    BY <1>4, <2>1
  <2> QED BY <2>1, <2>2
<1> QED
    BY <1>6 DEF Value, e

\* What is written so far stands for the words from there on.
LEMMA TextValue ==
    ASSUME NEW v \in UInt
    PROVE  \A n \in 0 .. EndPoint(v) :
               /\ Len(Text(v)[n]) \in Nat \ {0}
               /\ Text(v)[n][1] = Text(v)[0][1]
               /\ Value(v) = Strtoul(Text(v)[n]) * Weight(EndPoint(v) - n)
                                 + Low(v)[EndPoint(v) - n]
<1> DEFINE e == EndPoint(v)
           T == Text(v)
           Good(n) == /\ Len(T[n]) \in Nat \ {0}
                      /\ T[n][1] = T[0][1]
                      /\ Value(v) = Strtoul(T[n]) * Weight(e - n) + Low(v)[e - n]
           S == {n \in Nat : n <= e => Good(n)}
<1>1. e \in Index /\ e \in Nat
    BY EndPointFacts, IndexFacts
<1>2. 0 \in S
  <2>1. v[e] \in 0 .. Base - 1 /\ T[0] = Unpadded(v[e])
    BY <1>1, TextSteps DEF UInt
  <2>2. Len(T[0]) \in Nat \ {0} /\ Strtoul(T[0]) = v[e]
    BY <2>1, UnpaddedFacts
  <2>3. e - 0 = e
    BY <1>1
  <2>4. Low(v)[e + 1] = Low(v)[e] + v[e] * Weight(e) /\ Low(v)[e + 1] = Value(v)
    BY <1>1, LowSteps, LowAboveEndPoint
  <2>5. Low(v)[e] \in Nat /\ v[e] * Weight(e) \in Nat
    <3>1. v[e] \in Nat /\ Weight(e) \in Nat
      BY <1>1, WordFacts, WeightFacts
    <3>2. e \in 0 .. Words
      BY <1>1, IndexFacts
    <3> QED BY <3>1, <3>2, LowSteps
  <2> HIDE DEF T, e
  <2>6. Value(v) = Strtoul(T[0]) * Weight(e - 0) + Low(v)[e - 0]
    BY <2>2, <2>3, <2>4, <2>5
  <2> QED BY <2>2, <2>6
<1>3. ASSUME NEW n \in Nat, n \in S PROVE n + 1 \in S
  <2> SUFFICES ASSUME n + 1 <= e PROVE Good(n + 1)
    OBVIOUS
  <2> DEFINE i == e - (n + 1)
             t == Padded(v[i])
  <2>1. n \in 0 .. e - 1 /\ n \in 0 .. e /\ n <= e /\ e - n = i + 1
    BY <1>1
  <2>2. i \in Index /\ T[n + 1] = T[n] \o t /\ T[n] \in Seq(Digit)
    BY <2>1, TextSteps
  <2>3. Good(n)
    BY <1>3, <2>1
  <2>4. t \in Seq(Digit) /\ Len(t) = DigitsPerWord /\ Strtoul(t) = v[i]
    <3>1. v[i] \in 0 .. Base - 1
      BY <2>2 DEF UInt
    <3> HIDE DEF i
    <3> QED BY <3>1, PaddedFacts
  <2> HIDE DEF T, t, i
  <2>5. Len(T[n + 1]) = Len(T[n]) + Len(t) /\ T[n + 1][1] = T[n][1]
    <3> DEFINE x == T[n]
    <3>1. x \in Seq(Digit) /\ x # <<>> /\ T[n + 1] = x \o t
      BY <2>2, <2>3
    <3> HIDE DEF x, Good
    <3>2. Len(x \o t) = Len(x) + Len(t) /\ (x \o t)[1] = x[1]
      BY <2>4, <3>1, ConcatFacts
    <3> QED BY <3>1, <3>2 DEF x
  <2>6. Strtoul(T[n + 1]) = Strtoul(T[n]) * Base + v[i]
    BY <2>2, <2>4, StrtoulConcat, DigitWeightFacts
  <2>7. Low(v)[i + 1] = Low(v)[i] + v[i] * Weight(i) /\ Weight(i + 1) = Base * Weight(i)
    BY <2>2, LowSteps, WeightFacts, IndexFacts
  <2> DEFINE x == Strtoul(T[n])
             y == v[i]
             w == Weight(i)
  <2>8. x \in Nat /\ y \in Nat /\ w \in Nat /\ Base \in Nat /\ Low(v)[i] \in Nat
    <3>1. x \in Nat
      BY <2>2, ReadingBound
    <3>2. y \in Nat /\ w \in Nat /\ i \in 0 .. Words
      BY <2>2, WordFacts, IndexFacts
    <3>3. Base \in Nat
      BY WeightFacts
    <3> QED BY <3>1, <3>2, <3>3, LowSteps
  <2>9. Value(v) = x * (Base * w) + (Low(v)[i] + y * w)
    BY <2>1, <2>3, <2>7
  <2>10. Strtoul(T[n + 1]) = x * Base + y
    BY <2>6
  <2>11. Value(v) = (x * Base + y) * w + Low(v)[i]
    <3> HIDE DEF x, y, w
    <3>1. (x * Base + y) * w = x * (Base * w) + y * w
          /\ x * (Base * w) \in Nat /\ y * w \in Nat
      BY <2>8
    <3> QED BY <2>8, <2>9, <3>1
  <2>12. Value(v) = Strtoul(T[n + 1]) * Weight(e - (n + 1)) + Low(v)[e - (n + 1)]
    BY <2>10, <2>11 DEF i
  <2>13. Len(T[n + 1]) \in Nat \ {0}
    BY <2>3, <2>4, <2>5
  <2>14. T[n + 1][1] = T[0][1]
    BY <2>3, <2>5
  <2> QED BY <2>12, <2>13, <2>14
<1>4. \A n \in Nat : n \in S
  <2> HIDE DEF S
  <2> QED BY <1>2, <1>3, Induction
<1>5. ASSUME NEW n \in 0 .. e PROVE Good(n)
  <2>1. n \in Nat /\ n <= e
    BY <1>1
  <2>2. n \in S
    BY <1>4, <2>1
  <2> HIDE DEF Good
  <2> QED BY <2>1, <2>2
<1> QED
    BY <1>5

\* uint256_format_as_hex writes the value, with no zero in front (uint256.c:69-113).
LEMMA FormatFacts ==
    ASSUME NEW v \in UInt
    PROVE  /\ FormatAsHex(v) \in Seq(Digit)
           /\ Strtoul(FormatAsHex(v)) = Value(v)
           /\ Len(FormatAsHex(v)) > 1 => Head(FormatAsHex(v)) # 0
<1> DEFINE e == EndPoint(v)
           hex == FormatAsHex(v)
           first == Text(v)[0]
<1>1. e \in Nat /\ e \in Index /\ e \in 0 .. e /\ e - e = 0
  <2>1. e \in Index
    BY EndPointFacts
  <2>2. e \in Nat
    BY <2>1, IndexFacts
  <2> HIDE DEF e
  <2> QED BY <2>1, <2>2
<1>2. hex = Text(v)[e]
    BY DEF FormatAsHex
<1>3. hex \in Seq(Digit)
    BY <1>1, <1>2, TextSteps
<1>4. /\ Len(hex) \in Nat \ {0} /\ hex[1] = first[1]
      /\ Value(v) = Strtoul(hex) * Weight(e - e) + Low(v)[e - e]
    BY <1>1, <1>2, TextValue
<1>5. Strtoul(hex) = Value(v)
  <2>1. Weight(0) = 1 /\ Low(v)[0] = 0
    BY WeightFacts, LowSteps
  <2>2. Strtoul(hex) \in Nat
    BY <1>3, ReadingBound
  <2> HIDE DEF e, hex
  <2> QED BY <1>1, <1>4, <2>1, <2>2
<1>6. ASSUME Len(hex) > 1 PROVE hex[1] # 0
  <2>1. v[e] \in 0 .. Base - 1 /\ first = Unpadded(v[e])
    BY <1>1, TextSteps DEF UInt
  <2>2. CASE e = 0
    <3>1. Len(first) > 1
      BY <1>2, <1>6, <2>2
    <3> QED BY <1>4, <2>1, <3>1, UnpaddedFacts
  <2>3. CASE e # 0
    <3>1. v[e] # 0
      BY <2>3, EndPointFacts
    <3> QED BY <1>4, <2>1, <3>1, UnpaddedFacts
  <2> QED BY <2>2, <2>3
<1>7. Head(hex) = hex[1]
  <2> HIDE DEF hex
  <2> QED BY <1>3, <1>4
<1> QED
    BY <1>3, <1>5, <1>6, <1>7

-----------------------------------------------------------------------------
(* The program's value and number                                          *)

\* The number is what the words stand for, and nothing else is known of them.
UInt256Inv == value \in UInt /\ number = Value(value)

\* It holds of what was read.
LEMMA InitInv == Init => UInt256Inv
<1> SUFFICES ASSUME Init PROVE UInt256Inv
    OBVIOUS
<1>1. PICK hex \in Numerals : /\ value = CreateFromHex(hex)
                              /\ number = Strtoul(hex) % Modulus
    BY DEF Init
<1>2. hex \in Seq(Digit)
    BY InputsAssumption
<1> QED
    BY <1>1, <1>2, CreateFromHexFacts DEF UInt256Inv

\* It holds after each computation.
LEMMA NextInv == UInt256Inv /\ [Next]_vars => UInt256Inv'
<1> SUFFICES ASSUME UInt256Inv, [Next]_vars PROVE UInt256Inv'
    OBVIOUS
<1> USE DEF UInt256Inv
<1>1. CASE \E v \in Operands : Yields(Add(value, v), number + Value(v))
  <2>1. PICK v \in Operands : Yields(Add(value, v), number + Value(v))
    BY <1>1
  <2>2. v \in UInt
    BY InputsAssumption
  <2> QED BY <2>1, <2>2, AddValue DEF Yields
<1>2. CASE \E v \in Operands : Yields(Sub(value, v), number + Modulus - Value(v))
  <2>1. PICK v \in Operands : Yields(Sub(value, v), number + Modulus - Value(v))
    BY <1>2
  <2>2. v \in UInt
    BY InputsAssumption
  <2> QED BY <2>1, <2>2, SubValue DEF Yields
<1>3. CASE \E v \in Operands : Yields(Mul(value, v), number * Value(v))
  <2>1. PICK v \in Operands : Yields(Mul(value, v), number * Value(v))
    BY <1>3
  <2>2. v \in UInt
    BY InputsAssumption
  <2> QED BY <2>1, <2>2, MulValue DEF Yields
<1>4. CASE Yields(Negate(value), Modulus - number)
    BY <1>4, NegateValue DEF Yields
<1>5. CASE \E shift \in 0 .. Bits - 1 :
               Yields(Lshift(value, shift), number * TwoTo[shift])
  <2>1. PICK shift \in 0 .. Bits - 1 :
            Yields(Lshift(value, shift), number * TwoTo[shift])
    BY <1>5
  <2>2. shift \in Nat
    BY SizeFacts
  <2> QED BY <2>1, <2>2, ShiftValue DEF Yields
<1>6. CASE UNCHANGED vars
    BY <1>6 DEF vars, Low, Value
<1> QED
    BY <1>1, <1>2, <1>3, <1>4, <1>5, <1>6 DEF Next

\* However many words there are and of whatever size, and whatever is computed with
\* whatever operands: the words are those of the integer that the same computation
\* gives modulo 2^256.
THEOREM ModularArithmetic == Spec => []ArithmeticIsModular
<1>1. UInt256Inv => ArithmeticIsModular
  <2> SUFFICES ASSUME UInt256Inv, NEW i \in 0 .. Words + 1
               PROVE  GetBits(value, i) = (number \div Weight(i)) % Base
    BY DEF ArithmeticIsModular, UInt256Inv
  <2>1. value \in UInt /\ number = Value(value) /\ i \in Nat /\ Words \in Nat
    BY SizeFacts DEF UInt256Inv
  <2>2. CASE i < Words
    <3>1. i \in Index /\ GetBits(value, i) = value[i]
      BY <2>1, <2>2, SizeFacts DEF GetBits
    <3> QED BY <2>1, <3>1, WordOfValue
  <2>3. CASE i >= Words
    <3>1. GetBits(value, i) = 0
      BY <2>3 DEF GetBits
    <3> DEFINE n == i - Words
    <3>2. n \in Nat /\ Words + n = i
      BY <2>1, <2>3
    <3>3. Weight(i) = Modulus * Weight(n) /\ Weight(n) \in Nat \ {0}
      <4> HIDE DEF n
      <4> QED BY <2>1, <3>2, WeightSum, WeightFacts
    <3>4. number \in Nat /\ number < Modulus /\ Modulus \in Nat
      BY <2>1, ValueBound
    <3> HIDE DEF n
    <3>5. Weight(i) \in Nat \ {0} /\ number < Weight(i)
      <4>1. Modulus * Weight(n) \in Nat /\ Modulus * Weight(n) >= Modulus
        BY <3>3, <3>4
      <4> QED BY <3>3, <3>4, <4>1
    <3>6. number = 0 * Weight(i) + number /\ number \in 0 .. Weight(i) - 1
      BY <3>4, <3>5
    <3>7. number \div Weight(i) = 0
      BY <3>5, <3>6, QuotientIs
    <3>8. Base \in Nat \ {0} /\ 0 = 0 * Base + 0 /\ 0 \in 0 .. Base - 1
      BY WeightFacts
    <3>9. 0 % Base = 0
      BY <3>8, QuotientIs
    <3> QED BY <3>1, <3>7, <3>9
  <2> QED BY <2>1, <2>2, <2>3
<1>2. Spec => []UInt256Inv
    BY InitInv, NextInv, PTL DEF Spec
<1> QED
    BY <1>1, <1>2, PTL

\* Whatever the value is, its string stands for the same number, starts with no zero
\* that could be left out, and gives the value back.
THEOREM StringsAreExact == Spec => []HexRoundTrips
<1>1. UInt256Inv => HexRoundTrips
  <2> SUFFICES ASSUME UInt256Inv PROVE HexRoundTrips
    OBVIOUS
  <2> DEFINE hex == FormatAsHex(value)
  <2>1. value \in UInt /\ number = Value(value)
    BY DEF UInt256Inv
  <2>2. /\ hex \in Seq(Digit) /\ Strtoul(hex) = number
        /\ Len(hex) > 1 => Head(hex) # 0
    BY <2>1, FormatFacts
  <2>3. number \in 0 .. Modulus - 1 /\ Modulus \in Nat \ {0} /\ number \in Nat
    BY <2>1, ValueBound
  <2>4. number % Modulus = number
    <3>1. number = 0 * Modulus + number
      BY <2>3
    <3> QED BY <2>3, <3>1, QuotientIs
  <2>5. CreateFromHex(hex) \in UInt /\ Value(CreateFromHex(hex)) = Value(value)
    <3> HIDE DEF hex
    <3> QED BY <2>1, <2>2, <2>4, CreateFromHexFacts
  <2>6. CreateFromHex(hex) = value
    <3> HIDE DEF hex
    <3> QED BY <2>1, <2>5, ValueDetermines
  <2> QED BY <2>2, <2>6 DEF HexRoundTrips
<1>2. Spec => []UInt256Inv
    BY InitInv, NextInv, PTL DEF Spec
<1> QED
    BY <1>1, <1>2, PTL
=============================================================================
