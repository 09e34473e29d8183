---------------------------- MODULE ImgProc_proofs ----------------------------
(***************************************************************************)
(* Proofs about ImgProc, for images of every size and every width of       *)
(* int32_t: an image is refused before an index could wrap, so no loop     *)
(* leaves an image, no component of a pixel its eight bits, and what the   *)
(* transformations promise of their output is true of every pixel.         *)
(***************************************************************************)
EXTENDS ImgProc, TLAPS

W == input_img.width
H == input_img.height
-----------------------------------------------------------------------------
(* Where the program is                                                    *)

Known == {"rgb", "grayscale", "fade"}

\* The transformation is one that the program knows and the input allows.
Allowed == \/ transformation \in Known
           \/ transformation = "kaleidoscope" /\ W = H

Over == pc \in {"exited", "undefined"}

\* What is read, what may be applied, and how the program has ended.
Stages ==
    /\ png \in Pngs /\ transformation \in Transformations
    /\ pc \in {"read", "create", "apply", "pixels", "wedge", "copy", "write",
               "exited", "undefined"}
    /\ pc = "read" => input_img = NoImage
    /\ pc \notin {"read", "exited", "undefined"} =>
           input_img = Decoded(png) /\ Fits(png)
    /\ Over => input_img = NoImage \/ input_img = Decoded(png)
    /\ pc = "pixels" => transformation \in Known
    /\ pc = "wedge" \/ pc = "copy" => transformation = "kaleidoscope" /\ W = H
    /\ pc = "copy" => Odd
    /\ pc = "write" => Allowed
    /\ output_file \in {"none", "broken", "complete"}
    /\ exit_status \in {-1, 0, 1, 139}
    /\ ~Over => exit_status = -1 /\ output_file = "none"
    /\ pc = "undefined" => LineBytes(2 * png.width, 2 * png.height, 4) > UintMax
    /\ pc = "exited" => /\ output_file = "complete" => exit_status = 0
                        /\ exit_status = 0 => output_file # "none" /\ Allowed

\* The loops' variables are inside of the loops.
Positions ==
    /\ row \in Nat /\ col \in Nat /\ quadrant \in {"A", "B", "C", "D"}
    /\ pc \in {"read", "create", "apply"} => row = 0 /\ col = 0 /\ quadrant = "A"
    /\ pc = "pixels" \/ pc = "copy" => row \in 0 .. H - 1 /\ col \in 0 .. W - 1
    /\ pc = "wedge" => row \in 0 .. Half - 1 /\ col \in row .. Half - 1

ImagesOf(width, height) ==
    [width : {width}, height : {height}, data : [0 .. width * height - 1 -> Pixels]]

Times == IF transformation = "rgb" THEN 2 ELSE 1

Working == pc \in {"apply", "pixels", "wedge", "copy", "write"}

\* The output is an image of its size as soon as it is made.
Outputs ==
    /\ pc = "read" \/ pc = "create" => output_img = NoImage
    /\ Working => output_img \in ImagesOf(Times * W, Times * H)
    /\ Over => HasPixels(output_img)
    /\ (pc = "wedge" \/ pc = "copy") /\ Odd =>
           newdata \in [0 .. Size * Size - 1 -> Pixels \union {Uninitialized}]
    /\ \A i \in DOMAIN newdata : newdata[i] \in Pixels \union {Uninitialized}

\* An output that is made has no more pixels than an int32_t counts.
Counted == Working => (Times * W) * (Times * H) <= IntMax
-----------------------------------------------------------------------------
(* How far the loops are                                                   *)

\* The loops have passed row r and column c.
Passed(r, c) == \/ r < row
                \/ r = row /\ c < col

InputAt(r, c) == PixelAt(input_img, r, c)

FadedAt(r, c) == ToFade(Gradient(r, H), Gradient(c, W), InputAt(r, c))

FadeDone ==
    (pc = "pixels" \/ pc = "write") /\ transformation = "fade" =>
        \A r \in 0 .. H - 1, c \in 0 .. W - 1 :
            pc = "write" \/ Passed(r, c) => PixelAt(output_img, r, c) = FadedAt(r, c)

\* The index that does not wrap.
PlaceAt(q, r, c) == (r + (IF q \in {"C", "D"} THEN H ELSE 0)) * output_img.width
                    + (c + (IF q \in {"B", "D"} THEN W ELSE 0))

\* The quadrants in the order of the passes.
EarlierQuadrant(p, q) == \/ p = "A" /\ q # "A"
                         \/ p = "B" /\ q \in {"C", "D"}
                         \/ p = "C" /\ q = "D"

RgbDone ==
    (pc = "pixels" \/ pc = "write") /\ transformation = "rgb" =>
        \A q \in {"A", "B", "C", "D"}, r \in 0 .. H - 1, c \in 0 .. W - 1 :
            (\/ pc = "write" \/ EarlierQuadrant(q, quadrant)
             \/ q = quadrant /\ Passed(r, c))
            => output_img.data[PlaceAt(q, r, c)] = Channel(InputAt(r, c), q)

\* The distance of a row or column from the edge, in an image of Size rows.
Folded(x) == IF 2 * x < Size THEN x ELSE Size - 1 - x

\* The row and the column in wedge A which a row and a column are mirrored to.
WedgeRow(x, y) == IF Folded(x) <= Folded(y) THEN Folded(x) ELSE Folded(y)
WedgeCol(x, y) == IF Folded(x) <= Folded(y) THEN Folded(y) ELSE Folded(x)

FoldedAt(x, y) == InputAt(WedgeRow(x, y), WedgeCol(x, y))

Square == IF Odd THEN newdata ELSE output_img.data

WedgeDone ==
    (pc = "wedge" \/ pc = "copy" \/ pc = "write") /\ transformation = "kaleidoscope" =>
        \A x \in 0 .. Size - 1, y \in 0 .. Size - 1 :
            pc # "wedge" \/ Passed(WedgeRow(x, y), WedgeCol(x, y))
            => Square[x * Size + y] = FoldedAt(x, y)

CopyDone ==
    (pc = "copy" \/ pc = "write") /\ transformation = "kaleidoscope" /\ Odd =>
        \A r \in 0 .. H - 1, c \in 0 .. W - 1 :
            pc = "write" \/ Passed(r, c) => PixelAt(output_img, r, c) = FoldedAt(r, c)

\* The inductive invariant.
ImgProcInv == /\ Stages /\ Positions /\ Outputs /\ Counted
              /\ FadeDone /\ RgbDone /\ WedgeDone /\ CopyDone
-----------------------------------------------------------------------------
(* Arithmetic                                                              *)

LEMMA TimesMonotone ==
    ASSUME NEW a \in Nat, NEW b \in Nat, NEW n \in Nat, a <= b
    PROVE  a * n \in Nat /\ a * n <= b * n
OBVIOUS

\* A row and a column of an image are the index of a pixel of it.
LEMMA IndexInRange ==
    ASSUME NEW w \in Nat, NEW h \in Nat, NEW r \in 0 .. h - 1, NEW c \in 0 .. w - 1
    PROVE  r * w + c \in 0 .. w * h - 1
<1>1. r * w \in Nat /\ r * w <= (h - 1) * w
    BY TimesMonotone
<1>2. (h - 1) * w = w * h - w
    OBVIOUS
<1> QED BY <1>1, <1>2

\* No two have the same index.
LEMMA IndexUnique ==
    ASSUME NEW w \in Nat, NEW r \in Nat, NEW s \in Nat,
           NEW c \in 0 .. w - 1, NEW d \in 0 .. w - 1, r * w + c = s * w + d
    PROVE  r = s /\ c = d
<1>1. ASSUME NEW a \in Nat, NEW b \in Nat, a < b PROVE a * w + w <= b * w
  <2>1. (a + 1) * w <= b * w
      BY <1>1, TimesMonotone
  <2> QED BY <2>1
<1>2. ~(r < s)
    BY <1>1
<1>3. ~(s < r)
    BY <1>1
<1> QED BY <1>2, <1>3

LEMMA Quotient ==
    ASSUME NEW a \in Nat, NEW d \in Nat \ {0}, NEW k \in Nat
    PROVE  /\ a \div d \in Nat
           /\ a <= k * d => a \div d <= k
           /\ k * d <= a => k <= a \div d
<1>1. /\ a \div d \in Nat /\ a % d \in 0 .. d - 1
      /\ a = d * (a \div d) + (a % d)
    OBVIOUS
<1> DEFINE q == a \div d
           m == a % d
<1>2. q \in Nat /\ m \in 0 .. d - 1 /\ a = d * q + m
    BY <1>1
<1> HIDE DEF q, m
<1>3. ASSUME a <= k * d PROVE q <= k
  <2>1. SUFFICES ASSUME q >= k + 1 PROVE FALSE
      BY <1>2
  <2>2. (k + 1) * d <= q * d
      BY <1>2, <2>1, TimesMonotone
  <2> QED BY <1>2, <1>3, <2>2
<1>4. ASSUME k * d <= a PROVE k <= q
  <2>1. SUFFICES ASSUME q + 1 <= k PROVE FALSE
      BY <1>2
  <2>2. (q + 1) * d <= k * d
      BY <1>2, <2>1, TimesMonotone
  <2> QED BY <1>2, <1>4, <2>2
<1> QED BY <1>1, <1>3, <1>4 DEF q

LEMMA QuotientMonotone ==
    ASSUME NEW a \in Nat, NEW b \in Nat, NEW d \in Nat \ {0}, a <= b
    PROVE  a \div d <= b \div d
<1> DEFINE q == b \div d
           m == b % d
           k == a \div d
           l == a % d
<1>1. q \in Nat /\ m \in 0 .. d - 1 /\ b = d * q + m
    OBVIOUS
<1>2. k \in Nat /\ l \in 0 .. d - 1 /\ a = d * k + l
    OBVIOUS
<1> HIDE DEF q, m, k, l
<1>3. SUFFICES ASSUME k >= q + 1 PROVE FALSE
    BY <1>1, <1>2 DEF q, k
<1>4. (q + 1) * d <= k * d
    BY <1>1, <1>2, <1>3, TimesMonotone
<1> QED BY <1>1, <1>2, <1>4

LEMMA ExactQuotient ==
    ASSUME NEW k \in Nat, NEW d \in Nat \ {0}
    PROVE  (k * d) \div d = k
<1>1. k * d \in Nat
    OBVIOUS
<1> QED BY <1>1, Quotient

\* A remainder is a number below the divisor, and the number if that is below it.
LEMMA Remainder ==
    ASSUME NEW x \in Nat, NEW d \in Nat \ {0}
    PROVE  /\ x % d \in 0 .. d - 1
           /\ x < d => x % d = x
           /\ d <= x /\ x < 2 * d => x % d = x - d
<1> DEFINE q == x \div d
           m == x % d
<1>1. q \in Nat /\ m \in 0 .. d - 1 /\ x = d * q + m
    OBVIOUS
<1> HIDE DEF q, m
<1>2. q = 0 \/ q = 1 \/ q >= 2
    BY <1>1
<1>3. q >= 1 => d <= d * q
    BY <1>1, TimesMonotone
<1>4. q >= 2 => 2 * d <= d * q
    BY <1>1, TimesMonotone
<1> QED BY <1>1, <1>2, <1>3, <1>4 DEF m

\* A number that an int32_t holds is kept; one up to UintMax becomes negative.
LEMMA WrappedIs ==
    ASSUME NEW n \in 0 .. UintMax
    PROVE  /\ n <= IntMax => Wrapped(n) = n
           /\ n > IntMax => Wrapped(n) = n - UintMax - 1
<1>1. IntMax \in Nat /\ UintMax = 2 * IntMax + 1
    BY IntAssumption DEF UintMax
<1> DEFINE x == n + IntMax + 1
           d == 2 * IntMax + 2
<1>2. /\ x \in Nat /\ d \in Nat \ {0} /\ x < 2 * d
      /\ x < d <=> n <= IntMax
    BY <1>1
<1> HIDE DEF x, d
<1>3. x < d => x % d = x
    BY <1>2, Remainder
<1>4. d <= x => x % d = x - d
    BY <1>2, Remainder
<1>5. Wrapped(n) = (x % d) - IntMax - 1
    BY DEF Wrapped, x, d
<1> QED BY <1>1, <1>2, <1>3, <1>4, <1>5 DEF x, d

\* The index of a pixel of an image that is counted does not wrap.
LEMMA IndexIs ==
    ASSUME NEW w \in Nat, NEW h \in Nat, w * h <= IntMax + 1,
           NEW r \in 0 .. h - 1, NEW c \in 0 .. w - 1
    PROVE  Index(w, c, r) = r * w + c /\ r * w + c \in 0 .. w * h - 1
<1>1. r * w + c \in 0 .. w * h - 1 /\ w * h \in Nat
    BY IndexInRange
<1>2. r * w + c \in 0 .. UintMax /\ r * w + c <= IntMax
    BY <1>1, IntAssumption DEF UintMax
<1> QED BY <1>1, <1>2, WrappedIs DEF Index

LEMMA SidesAreSmaller ==
    ASSUME NEW w \in Nat \ {0}, NEW h \in Nat \ {0}
    PROVE  w * h \in Nat /\ w <= w * h /\ h <= w * h
<1>1. 1 * w <= h * w
    BY TimesMonotone
<1>2. 1 * h <= w * h
    BY TimesMonotone
<1> QED BY <1>1, <1>2

LEMMA TwiceTwice ==
    ASSUME NEW w \in Nat, NEW h \in Nat
    PROVE  (2 * w) * (2 * h) = 4 * (w * h)
OBVIOUS

LEMMA LineBytesIs ==
    ASSUME NEW w \in Nat, NEW h \in Nat, NEW k \in Nat
    PROVE  LineBytes(w, h, k) = k * (w * h) + h
BY DEF LineBytes

\* Buffers are left only for an image that is too large.
LEMMA TooLarge ==
    ASSUME NEW file \in Pngs, file.color_type # "other",
           \/ ~Fits(file)
           \/ LineBytes(file.width, file.height, 4) > UintMax
           \/ LineBytes(2 * file.width, 2 * file.height, 4) > UintMax
    PROVE  LineBytes(2 * file.width, 2 * file.height, 4) > UintMax
<1> DEFINE w == file.width
           h == file.height
           n == w * h
<1>1. w \in Nat \ {0} /\ h \in Nat \ {0}
    BY PngsAssumption
<1>2. file.color_type = "truecolor" \/ file.color_type = "truecolor_alpha"
    BY PngsAssumption
<1>3. /\ LineBytes(w, h, 3) = 3 * n + h /\ LineBytes(w, h, 4) = 4 * n + h
      /\ LineBytes(2 * w, 2 * h, 4) = 16 * n + 2 * h
  <2>1. 2 * w \in Nat /\ 2 * h \in Nat
      BY <1>1
  <2>2. LineBytes(2 * w, 2 * h, 4) = 4 * ((2 * w) * (2 * h)) + 2 * h
      BY <2>1, LineBytesIs
  <2>3. (2 * w) * (2 * h) = 4 * n
      BY <1>1, TwiceTwice
  <2>4. n \in Nat
      BY <1>1
  <2>5. LineBytes(w, h, 3) = 3 * n + h /\ LineBytes(w, h, 4) = 4 * n + h
      BY <1>1, LineBytesIs
  <2> HIDE DEF n
  <2> QED BY <2>2, <2>3, <2>4, <2>5
<1>4. n \in Nat /\ h <= n /\ 1 <= h
    BY <1>1, SidesAreSmaller
<1>5. Fits(file) <=> /\ n <= IntMax
                     /\ \/ /\ file.color_type = "truecolor"
                           /\ 3 * n <= IntMax
                           /\ LineBytes(w, h, 3) <= UintMax
                        \/ /\ file.color_type = "truecolor_alpha"
                           /\ LineBytes(w, h, 4) <= UintMax
    BY DEF Fits
<1> HIDE DEF n, w, h
<1>6. IntMax \in Nat /\ UintMax = 2 * IntMax + 1
    BY IntAssumption DEF UintMax
<1>7. h \in Nat
    BY <1>1
<1>8. LineBytes(2 * w, 2 * h, 4) > UintMax
    BY <1>2, <1>3, <1>4, <1>5, <1>6, <1>7 DEF w, h
<1> QED BY <1>8 DEF w, h

\* An image that is read has at most half as many pixels as an int32_t counts.
LEMMA FitsTwice ==
    ASSUME NEW file \in Pngs, Fits(file)
    PROVE  /\ 2 * (file.width * file.height) <= IntMax
           /\ file.color_type # "other"
<1> DEFINE w == file.width
           h == file.height
           n == w * h
<1>1. w \in Nat \ {0} /\ h \in Nat \ {0}
    BY PngsAssumption
<1>2. LineBytes(w, h, 4) = 4 * n + h
    BY <1>1, LineBytesIs
<1>3. n \in Nat /\ h <= n /\ 1 <= h /\ h \in Nat
    BY <1>1, SidesAreSmaller
<1>4. /\ \/ 3 * n <= IntMax
         \/ LineBytes(w, h, 4) <= UintMax
      /\ file.color_type # "other"
    BY DEF Fits
<1> HIDE DEF n, w, h
<1>5. IntMax \in Nat /\ UintMax = 2 * IntMax + 1
    BY IntAssumption DEF UintMax
<1>6. 2 * n <= IntMax
    BY <1>2, <1>3, <1>4, <1>5
<1> QED BY <1>4, <1>6 DEF n, w, h
-----------------------------------------------------------------------------
(* Pixels                                                                  *)

LEMMA MakePixelIsPixel ==
    ASSUME NEW r \in 0 .. 255, NEW g \in 0 .. 255, NEW b \in 0 .. 255, NEW a \in 0 .. 255
    PROVE  MakePixel(r, g, b, a) \in Pixels
BY DEF MakePixel, Pixels, Components

\* The weights add up to 256.
LEMMA GrayIsPixel ==
    ASSUME NEW p \in Pixels
    PROVE  ToGrayscale(p) \in Pixels
<1> DEFINE y == (79 * p.r + 128 * p.g + 49 * p.b) \div 256
<1>1. p.r \in 0 .. 255 /\ p.g \in 0 .. 255 /\ p.b \in 0 .. 255 /\ p.a \in 0 .. 255
    BY DEF Pixels, Components
<1>2. y \in 0 .. 255
  <2>1. ASSUME NEW r \in 0 .. 255, NEW g \in 0 .. 255, NEW b \in 0 .. 255
        PROVE  (79 * r + 128 * g + 49 * b) \div 256 \in 0 .. 255
      OBVIOUS
  <2> QED BY <1>1, <2>1
<1> HIDE DEF y
<1>3. MakePixel(y, y, y, p.a) \in Pixels
    BY <1>1, <1>2, MakePixelIsPixel
<1> QED BY <1>3 DEF ToGrayscale, y

LEMMA ChannelIsPixel ==
    ASSUME NEW p \in Pixels, NEW q
    PROVE  Channel(p, q) \in Pixels
BY DEF Channel, MakePixel, Pixels, Components

LEMMA FullIsPositive == FullGradient \in Nat \ {0}
<1>1. GradientScale >= 1 /\ GradientScale \in Nat
    BY ScaleAssumption
<1>2. 1 * GradientScale <= GradientScale * GradientScale
    BY <1>1, TimesMonotone
<1> QED BY <1>1, <1>2 DEF FullGradient

\* The gradient before it is squared runs from -GradientScale to GradientScale.
LEMMA CentredRange ==
    ASSUME NEW max \in Nat \ {0}, NEW x \in 0 .. max
    PROVE  /\ (2 * GradientScale * x) \div max \in 0 .. 2 * GradientScale
           /\ x = 0 => (2 * GradientScale * x) \div max = 0
           /\ 2 * x <= max => (2 * GradientScale * x) \div max <= GradientScale
           /\ 2 * x = max => (2 * GradientScale * x) \div max = GradientScale
<1>1. GradientScale \in Nat
    BY ScaleAssumption
<1> DEFINE n == 2 * GradientScale * x
<1>2. n \in Nat /\ n = x * (2 * GradientScale) /\ n = (2 * x) * GradientScale
    BY <1>1
<1>3. x * (2 * GradientScale) <= max * (2 * GradientScale)
    BY <1>1, TimesMonotone
<1>4. n <= (2 * GradientScale) * max
    BY <1>1, <1>2, <1>3
<1>5. n \div max \in Nat /\ n \div max <= 2 * GradientScale
    BY <1>1, <1>2, <1>4, Quotient
<1>6. x = 0 => n <= 0 * max
    BY <1>1, <1>2
<1>7. x = 0 => n \div max <= 0
    BY <1>2, <1>6, Quotient
<1>8. ASSUME 2 * x <= max PROVE n <= GradientScale * max
    BY <1>1, <1>2, <1>8, TimesMonotone
<1>9. 2 * x <= max => n \div max <= GradientScale
    BY <1>1, <1>2, <1>8, Quotient
<1>10. ASSUME 2 * x = max PROVE n = GradientScale * max
    BY <1>1, <1>2, <1>10
<1>11. 2 * x = max => n \div max = GradientScale
    BY <1>1, <1>10, ExactQuotient
<1> QED BY <1>1, <1>5, <1>7, <1>9, <1>11

LEMMA SquareInRange ==
    ASSUME NEW s \in Nat, NEW t \in 0 .. 2 * s
    PROVE  (t - s) * (t - s) \in 0 .. s * s
<1>1. CASE t >= s
  <2>1. (t - s) * (t - s) \in Nat /\ (t - s) * (t - s) <= s * (t - s)
      BY <1>1, TimesMonotone
  <2>2. (t - s) * s <= s * s
      BY <1>1, TimesMonotone
  <2> QED BY <2>1, <2>2
<1>2. CASE t < s
  <2>1. (s - t) * (s - t) \in Nat /\ (s - t) * (s - t) <= s * (s - t)
      BY <1>2, TimesMonotone
  <2>2. (s - t) * s <= s * s
      BY <1>2, TimesMonotone
  <2>3. (s - t) * (s - t) = (t - s) * (t - s)
      OBVIOUS
  <2> QED BY <2>1, <2>2, <2>3
<1> QED BY <1>1, <1>2

LEMMA GradientRange ==
    ASSUME NEW max \in Nat \ {0}, NEW x \in 0 .. max
    PROVE  /\ Gradient(x, max) \in 0 .. FullGradient
           /\ x = 0 => Gradient(x, max) = 0
           /\ 2 * x = max => Gradient(x, max) = FullGradient
<1> DEFINE t == (2 * GradientScale * x) \div max
<1>1. /\ t \in 0 .. 2 * GradientScale
      /\ x = 0 => t = 0
      /\ 2 * x = max => t = GradientScale
    BY CentredRange
<1> HIDE DEF t
<1>2. GradientScale \in Nat
    BY ScaleAssumption
<1>3. (t - GradientScale) * (t - GradientScale) \in 0 .. GradientScale * GradientScale
    BY <1>1, <1>2, SquareInRange
<1>4. Gradient(x, max) = FullGradient - (t - GradientScale) * (t - GradientScale)
    BY DEF Gradient, t
<1>5. t = 0 => (t - GradientScale) * (t - GradientScale) = GradientScale * GradientScale
    BY <1>1, <1>2
<1>6. t = GradientScale => (t - GradientScale) * (t - GradientScale) = 0
    BY <1>2
<1>7. FullGradient \in Nat /\ FullGradient = GradientScale * GradientScale
    BY FullIsPositive DEF FullGradient
<1> QED BY <1>1, <1>3, <1>4, <1>5, <1>6, <1>7

\* Up to the middle the gradient does not fall.
LEMMA GradientMonotone ==
    ASSUME NEW max \in Nat \ {0}, NEW x \in Nat, NEW y \in Nat, x <= y, 2 * y <= max
    PROVE  Gradient(x, max) <= Gradient(y, max)
<1> DEFINE t == (2 * GradientScale * x) \div max
           u == (2 * GradientScale * y) \div max
<1>1. GradientScale \in Nat
    BY ScaleAssumption
<1>2. t \in Nat /\ u \in Nat /\ u <= GradientScale
    BY <1>1, CentredRange
<1>3. t <= u
  <2>1. x * (2 * GradientScale) <= y * (2 * GradientScale)
      BY <1>1, TimesMonotone
  <2>2. /\ 2 * GradientScale * x \in Nat /\ 2 * GradientScale * y \in Nat
        /\ 2 * GradientScale * x <= 2 * GradientScale * y
      BY <1>1, <2>1
  <2> QED BY <2>2, QuotientMonotone
<1> HIDE DEF t, u
<1> DEFINE m == GradientScale - t
           n == GradientScale - u
<1>4. m \in Nat /\ n \in Nat /\ n <= m
    BY <1>1, <1>2, <1>3
<1>5. /\ (t - GradientScale) * (t - GradientScale) = m * m
      /\ (u - GradientScale) * (u - GradientScale) = n * n
    BY <1>1, <1>2
<1> HIDE DEF m, n
<1>6. n * n <= m * n /\ n * m <= m * m
    BY <1>4, TimesMonotone
<1>7. n * n <= m * m /\ n * n \in Nat /\ m * m \in Nat
    BY <1>4, <1>6
<1>8. /\ Gradient(x, max) = FullGradient - m * m
      /\ Gradient(y, max) = FullGradient - n * n
    BY <1>5 DEF Gradient, t, u
<1> QED BY <1>7, <1>8, FullIsPositive

LEMMA ProductInRange ==
    ASSUME NEW a \in Nat, NEW b \in Nat, NEW c \in Nat, NEW d \in Nat, a <= c, b <= d
    PROVE  a * b \in Nat /\ a * b <= c * d
<1>1. a * b \in Nat /\ a * b <= c * b
    BY TimesMonotone
<1>2. b * c <= d * c
    BY TimesMonotone
<1> QED BY <1>1, <1>2

\* One component of a pixel.
LEMMA FadedRange ==
    ASSUME NEW g \in 0 .. FullGradient, NEW h \in 0 .. FullGradient, NEW k \in 0 .. 255
    PROVE  /\ (h * g * k) \div (FullGradient * FullGradient) \in 0 .. k
           /\ g = 0 \/ h = 0 => (h * g * k) \div (FullGradient * FullGradient) = 0
           /\ g = FullGradient /\ h = FullGradient =>
                  (h * g * k) \div (FullGradient * FullGradient) = k
<1> DEFINE F == FullGradient * FullGradient
           P == h * g
<1>1. FullGradient \in Nat \ {0}
    BY FullIsPositive
<1>2. F \in Nat \ {0}
  <2>1. 1 * FullGradient <= FullGradient * FullGradient
      BY <1>1, TimesMonotone
  <2> QED BY <1>1, <2>1
<1>3. P \in Nat /\ P <= F
    BY <1>1, ProductInRange
<1>4. g = 0 \/ h = 0 => P = 0
    BY <1>1
<1>5. g = FullGradient /\ h = FullGradient => P = F
    OBVIOUS
<1> HIDE DEF F, P
<1>6. P * k \in Nat /\ P * k <= k * F
    BY <1>2, <1>3, TimesMonotone
<1>7. (P * k) \div F \in 0 .. k
    BY <1>2, <1>6, Quotient
<1>8. P = 0 => P * k <= 0 * F
    BY <1>2
<1>9. P = 0 => (P * k) \div F = 0
    BY <1>2, <1>6, <1>7, <1>8, Quotient
<1>10. P = F => P * k = k * F
    BY <1>2
<1>11. P = F => (P * k) \div F = k
    BY <1>2, <1>10, ExactQuotient
<1> QED BY <1>4, <1>5, <1>7, <1>9, <1>11 DEF F, P

LEMMA FadedMonotone ==
    ASSUME NEW g \in 0 .. FullGradient, NEW h \in 0 .. FullGradient,
           NEW gg \in 0 .. FullGradient, NEW hh \in 0 .. FullGradient,
           NEW k \in 0 .. 255, g <= gg, h <= hh
    PROVE  (h * g * k) \div (FullGradient * FullGradient)
               <= (hh * gg * k) \div (FullGradient * FullGradient)
<1> DEFINE F == FullGradient * FullGradient
           P == h * g
           Q == hh * gg
<1>1. FullGradient \in Nat \ {0}
    BY FullIsPositive
<1>2. F \in Nat \ {0}
  <2>1. 1 * FullGradient <= FullGradient * FullGradient
      BY <1>1, TimesMonotone
  <2> QED BY <1>1, <2>1
<1>3. P \in Nat /\ Q \in Nat /\ P <= Q
    BY <1>1, ProductInRange
<1> HIDE DEF F, P, Q
<1>4. P * k \in Nat /\ Q * k \in Nat /\ P * k <= Q * k
    BY <1>3, TimesMonotone
<1>5. (P * k) \div F <= (Q * k) \div F
    BY <1>2, <1>4, QuotientMonotone
<1> QED BY <1>5 DEF F, P, Q

\* Fading makes no component brighter, all black at the edge, and changes nothing in
\* the middle.
LEMMA ToFadeRange ==
    ASSUME NEW g \in 0 .. FullGradient, NEW h \in 0 .. FullGradient, NEW p \in Pixels
    PROVE  /\ ToFade(g, h, p) \in Pixels
           /\ Dimmer(ToFade(g, h, p), p)
           /\ g = 0 \/ h = 0 => ToFade(g, h, p) = MakePixel(0, 0, 0, p.a)
           /\ g = FullGradient /\ h = FullGradient => ToFade(g, h, p) = p
<1> DEFINE Faded(c) == (h * g * c) \div (FullGradient * FullGradient)
<1>1. p.r \in 0 .. 255 /\ p.g \in 0 .. 255 /\ p.b \in 0 .. 255 /\ p.a \in 0 .. 255
    BY DEF Pixels, Components
<1>2. ASSUME NEW k \in 0 .. 255
      PROVE  /\ Faded(k) \in 0 .. k
             /\ g = 0 \/ h = 0 => Faded(k) = 0
             /\ g = FullGradient /\ h = FullGradient => Faded(k) = k
    BY FadedRange
<1> DEFINE x == Faded(p.r)
           y == Faded(p.g)
           z == Faded(p.b)
<1>3. ToFade(g, h, p) = MakePixel(x, y, z, p.a)
    BY DEF ToFade
<1>4. /\ x \in 0 .. p.r /\ y \in 0 .. p.g /\ z \in 0 .. p.b
      /\ g = 0 \/ h = 0 => x = 0 /\ y = 0 /\ z = 0
      /\ g = FullGradient /\ h = FullGradient => x = p.r /\ y = p.g /\ z = p.b
  <2> HIDE DEF Faded
  <2> QED BY <1>1, <1>2
<1> HIDE DEF x, y, z
<1>5. x \in 0 .. 255 /\ y \in 0 .. 255 /\ z \in 0 .. 255
    BY <1>1, <1>4
<1>6. MakePixel(x, y, z, p.a) \in Pixels
    BY <1>1, <1>5, MakePixelIsPixel
<1>7. Dimmer(MakePixel(x, y, z, p.a), p)
    BY <1>1, <1>4 DEF Dimmer, MakePixel
<1>8. p = MakePixel(p.r, p.g, p.b, p.a)
    BY DEF Pixels, MakePixel
<1> QED BY <1>3, <1>4, <1>6, <1>7, <1>8

LEMMA ToFadeMonotone ==
    ASSUME NEW g \in 0 .. FullGradient, NEW h \in 0 .. FullGradient,
           NEW gg \in 0 .. FullGradient, NEW hh \in 0 .. FullGradient,
           NEW p \in Pixels, g <= gg, h <= hh
    PROVE  Dimmer(ToFade(g, h, p), ToFade(gg, hh, p))
<1>1. p.r \in 0 .. 255 /\ p.g \in 0 .. 255 /\ p.b \in 0 .. 255 /\ p.a \in 0 .. 255
    BY DEF Pixels, Components
<1> DEFINE Faded(c) == (h * g * c) \div (FullGradient * FullGradient)
           Less(c) == (hh * gg * c) \div (FullGradient * FullGradient)
<1>2. ASSUME NEW k \in 0 .. 255 PROVE Faded(k) <= Less(k)
    BY FadedMonotone
<1>3. /\ ToFade(g, h, p) = [r |-> Faded(p.r), g |-> Faded(p.g), b |-> Faded(p.b), a |-> p.a]
      /\ ToFade(gg, hh, p) = [r |-> Less(p.r), g |-> Less(p.g), b |-> Less(p.b), a |-> p.a]
    BY DEF ToFade, MakePixel
<1> HIDE DEF Faded, Less
<1> QED BY <1>1, <1>2, <1>3 DEF Dimmer
-----------------------------------------------------------------------------
(* Images and positions                                                    *)

\* What is decoded is an image of the file's size, with pixels.
LEMMA DecodedIsImage ==
    ASSUME Stages, input_img = Decoded(png)
    PROVE  /\ W \in Nat \ {0} /\ H \in Nat \ {0}
           /\ input_img.data \in [0 .. W * H - 1 -> Pixels]
<1>1. /\ png.width \in Nat \ {0} /\ png.height \in Nat \ {0}
      /\ png.data \in [0 .. png.width * png.height - 1 -> Pixels]
    BY PngsAssumption DEF Stages
<1>2. W = png.width /\ H = png.height
    BY DEF Decoded, W, H
<1>3. ASSUME NEW p \in Pixels PROVE [p EXCEPT !.a = 255] \in Pixels
    BY DEF Pixels, Components
<1> QED BY <1>1, <1>2, <1>3 DEF Decoded

LEMMA InputIsPixel ==
    ASSUME Stages, input_img = Decoded(png),
           NEW r \in 0 .. H - 1, NEW c \in 0 .. W - 1
    PROVE  /\ r * W + c \in 0 .. W * H - 1
           /\ InputAt(r, c) \in Pixels
<1>1. /\ W \in Nat \ {0} /\ H \in Nat \ {0}
      /\ input_img.data \in [0 .. W * H - 1 -> Pixels]
    BY DecodedIsImage
<1>2. r * W + c \in 0 .. W * H - 1
    BY <1>1, IndexInRange
<1> QED BY <1>1, <1>2 DEF InputAt, PixelAt, W

\* Half is the middle of Size, which is the width or one more.
LEMMA Sizes ==
    ASSUME W \in Nat \ {0}
    PROVE  /\ Size \in Nat /\ Half \in Nat \ {0} /\ Size = 2 * Half
           /\ Size = W \/ Size = W + 1
           /\ ~Odd => Size = W
           /\ Half <= W
BY DEF Size, Half, Odd, W

\* The pixels of an image that is read are counted, and so are those of the larger
\* image of imgproc_kaleidoscope: the last has an index.
LEMMA InputIsCounted ==
    ASSUME Stages, pc # "read", pc # "exited", pc # "undefined"
    PROVE  /\ W * H \in Nat /\ 2 * (W * H) <= IntMax /\ W * H <= IntMax
           /\ 2 * W \in 0 .. IntMax /\ 2 * H \in 0 .. IntMax
           /\ W = H => Size * Size <= IntMax + 1
<1>1. png \in Pngs /\ Fits(png) /\ input_img = Decoded(png)
    BY DEF Stages
<1>2. W = png.width /\ H = png.height
    BY <1>1 DEF Decoded, W, H
<1>3. 2 * (W * H) <= IntMax
    BY <1>1, <1>2, FitsTwice
<1>4. W \in Nat \ {0} /\ H \in Nat \ {0}
    BY <1>1, DecodedIsImage
<1>5. W * H \in Nat /\ W <= W * H /\ H <= W * H
    BY <1>4, SidesAreSmaller
<1>6. IntMax \in Nat /\ IntMax >= 3
    BY IntAssumption
<1>7. ASSUME W = H PROVE Size * Size <= IntMax + 1
  <2>1. 2 * (W * W) <= IntMax /\ W * W \in Nat
      BY <1>3, <1>5, <1>7
  <2>2. Size = W \/ Size = W + 1
      BY <1>4, Sizes
  <2>3. CASE Size = W
      BY <1>6, <2>1, <2>3
  <2>4. CASE Size = W + 1
    <3>1. Size * Size = W * W + 2 * W + 1
        BY <1>4, <2>4
    <3>2. W = 1 \/ 2 * W <= W * W
        BY <1>4, TimesMonotone
    <3> QED BY <1>4, <1>6, <2>1, <3>1, <3>2
  <2> QED BY <2>2, <2>3, <2>4
<1> QED BY <1>3, <1>4, <1>5, <1>6, <1>7

\* The pixels that are passed after a step are those before it and the current one.
LEMMA PassedNext ==
    ASSUME H \in Nat, W \in Nat, row \in 0 .. H - 1, col \in 0 .. W - 1, NextPixel,
           NEW r \in 0 .. H - 1, NEW c \in 0 .. W - 1
    PROVE  /\ ~LastPixel /\ Passed(r, c)' => \/ Passed(r, c)
                                             \/ r = row /\ c = col
           /\ LastPixel => \/ Passed(r, c)
                           \/ r = row /\ c = col
           /\ LastPixel => ~Passed(r, c)'
BY DEF NextPixel, LastPixel, Passed, W, H

LEMMA PositionNext ==
    ASSUME H \in Nat, W \in Nat, row \in 0 .. H - 1, col \in 0 .. W - 1, NextPixel
    PROVE  row' \in 0 .. H - 1 /\ col' \in 0 .. W - 1
BY DEF NextPixel, LastPixel, W, H

\* One pixel of the output is set.
LEMMA SetOutputEffect ==
    ASSUME NEW w \in Nat, NEW h \in Nat, output_img \in ImagesOf(w, h),
           NEW i \in 0 .. w * h - 1, NEW p \in Pixels, SetOutput(i, p)
    PROVE  /\ output_img' \in ImagesOf(w, h)
           /\ output_img.width = w /\ output_img'.width = w
           /\ output_img'.height = h
           /\ \A j \in 0 .. w * h - 1 :
                  output_img'.data[j] = IF j = i THEN p ELSE output_img.data[j]
BY DEF ImagesOf, SetOutput

\* Where a loop over the input is, when it sets the output's pixel of its row and column.
LEMMA PixelStep ==
    ASSUME W \in Nat, H \in Nat, row \in 0 .. H - 1, col \in 0 .. W - 1,
           output_img \in ImagesOf(W, H), W * H <= IntMax, NEW p \in Pixels,
           SetOutput(Index(output_img.width, col, row), p)
    PROVE  /\ output_img' \in ImagesOf(W, H)
           /\ \A r \in 0 .. H - 1, c \in 0 .. W - 1 :
                  PixelAt(output_img', r, c) = IF r = row /\ c = col THEN p
                                               ELSE PixelAt(output_img, r, c)
<1> DEFINE i == Index(output_img.width, col, row)
<1>1. i = row * W + col
  <2>1. output_img.width = W
      BY DEF ImagesOf
  <2>2. W * H <= IntMax + 1
      BY IntAssumption
  <2> QED BY <2>1, <2>2, IndexIs
<1>2. i \in 0 .. W * H - 1
    BY <1>1, IndexInRange
<1> HIDE DEF i
<1>3. SetOutput(i, p)
    BY DEF i
<1>4. /\ output_img' \in ImagesOf(W, H)
      /\ output_img.width = W /\ output_img'.width = W
      /\ \A j \in 0 .. W * H - 1 :
             output_img'.data[j] = IF j = i THEN p ELSE output_img.data[j]
    BY <1>2, <1>3, SetOutputEffect
<1>5. ASSUME NEW r \in 0 .. H - 1, NEW c \in 0 .. W - 1
      PROVE  /\ r * W + c \in 0 .. W * H - 1
             /\ r * W + c = i => r = row /\ c = col
    BY <1>1, <1>5, IndexInRange, IndexUnique
<1> QED BY <1>1, <1>4, <1>5 DEF PixelAt

LEMMA PlaceInRange ==
    ASSUME W \in Nat, H \in Nat, output_img.width = 2 * W, NEW q,
           NEW r \in 0 .. H - 1, NEW c \in 0 .. W - 1
    PROVE  PlaceAt(q, r, c) \in 0 .. (2 * W) * (2 * H) - 1
<1> DEFINE rr == r + (IF q \in {"C", "D"} THEN H ELSE 0)
           cc == c + (IF q \in {"B", "D"} THEN W ELSE 0)
<1>1. rr \in 0 .. 2 * H - 1 /\ cc \in 0 .. 2 * W - 1 /\ 2 * H \in Nat /\ 2 * W \in Nat
    OBVIOUS
<1>2. PlaceAt(q, r, c) = rr * (2 * W) + cc
    BY DEF PlaceAt
<1> HIDE DEF rr, cc
<1> QED BY <1>1, <1>2, IndexInRange

\* Where the code computes it, it does not wrap.
LEMMA PlaceIs ==
    ASSUME W \in Nat, H \in Nat, (2 * W) * (2 * H) <= IntMax,
           PlaceAt(quadrant, row, col) \in 0 .. (2 * W) * (2 * H) - 1
    PROVE  Place(quadrant) = PlaceAt(quadrant, row, col)
<1> DEFINE n == PlaceAt(quadrant, row, col)
<1>1. n \in 0 .. UintMax /\ n <= IntMax
  <2>1. (2 * W) * (2 * H) \in Nat
      OBVIOUS
  <2> HIDE DEF n
  <2> QED BY <2>1, IntAssumption DEF UintMax, n
<1>2. Wrapped(n) = n
    BY <1>1, WrappedIs
<1> QED BY <1>2 DEF Place, PlaceAt, Index, W, H

LEMMA PlaceUnique ==
    ASSUME W \in Nat, H \in Nat, output_img.width = 2 * W,
           NEW q \in {"A", "B", "C", "D"}, NEW p \in {"A", "B", "C", "D"},
           NEW r \in 0 .. H - 1, NEW c \in 0 .. W - 1,
           NEW s \in 0 .. H - 1, NEW d \in 0 .. W - 1,
           PlaceAt(q, r, c) = PlaceAt(p, s, d)
    PROVE  q = p /\ r = s /\ c = d
<1> DEFINE down(k) == IF k \in {"C", "D"} THEN H ELSE 0
           right(k) == IF k \in {"B", "D"} THEN W ELSE 0
<1>1. /\ r + down(q) \in Nat /\ s + down(p) \in Nat /\ 2 * W \in Nat
      /\ c + right(q) \in 0 .. 2 * W - 1 /\ d + right(p) \in 0 .. 2 * W - 1
    OBVIOUS
<1>2. (r + down(q)) * (2 * W) + (c + right(q)) = (s + down(p)) * (2 * W) + (d + right(p))
    BY DEF PlaceAt
<1>3. r + down(q) = s + down(p) /\ c + right(q) = d + right(p)
  <2> DEFINE w == 2 * W
             rr == r + down(q)
             cc == c + right(q)
             ss == s + down(p)
             dd == d + right(p)
  <2>1. w \in Nat /\ rr \in Nat /\ ss \in Nat /\ cc \in 0 .. w - 1 /\ dd \in 0 .. w - 1
      BY <1>1
  <2>2. rr * w + cc = ss * w + dd
      BY <1>2
  <2> HIDE DEF w, rr, cc, ss, dd
  <2>3. rr = ss /\ cc = dd
      BY <2>1, <2>2, IndexUnique
  <2> QED BY <2>3 DEF rr, cc, ss, dd
<1>4. down(q) = down(p) /\ right(q) = right(p) /\ r = s /\ c = d
    BY <1>3
<1>5. q \in {"C", "D"} <=> p \in {"C", "D"}
    BY <1>4
<1>6. q \in {"B", "D"} <=> p \in {"B", "D"}
    BY <1>4
<1> QED BY <1>4, <1>5, <1>6

\* Every pixel of the square is mirrored to one of wedge A.
LEMMA WedgeRange ==
    ASSUME W \in Nat \ {0}, NEW x \in 0 .. Size - 1, NEW y \in 0 .. Size - 1
    PROVE  /\ WedgeRow(x, y) \in 0 .. Half - 1
           /\ WedgeCol(x, y) \in WedgeRow(x, y) .. Half - 1
<1>1. Half \in Nat \ {0} /\ Size = 2 * Half
    BY Sizes
<1> QED BY <1>1 DEF WedgeRow, WedgeCol, Folded

LEMMA FoldedIsPixel ==
    ASSUME Stages, input_img = Decoded(png), W = H,
           NEW x \in 0 .. Size - 1, NEW y \in 0 .. Size - 1
    PROVE  FoldedAt(x, y) \in Pixels
<1>1. W \in Nat \ {0} /\ H \in Nat \ {0}
    BY DecodedIsImage
<1>2. Half \in Nat \ {0} /\ Half <= W
    BY <1>1, Sizes
<1>3. WedgeRow(x, y) \in 0 .. H - 1 /\ WedgeCol(x, y) \in 0 .. W - 1
    BY <1>1, <1>2, WedgeRange
<1> QED BY <1>3, InputIsPixel DEF FoldedAt

\* The eight places of a pixel are in the square, and are those that the four lines
\* mirror to it.
LEMMA MirrorsRight ==
    ASSUME W \in Nat \ {0}, Size * Size <= IntMax + 1,
           NEW r \in 0 .. Half - 1, NEW c \in r .. Half - 1
    PROVE  /\ Mirrors(r, c) \subseteq 0 .. Size * Size - 1
           /\ \A x \in 0 .. Size - 1, y \in 0 .. Size - 1 :
                  x * Size + y \in Mirrors(r, c) <=> WedgeRow(x, y) = r /\ WedgeCol(x, y) = c
<1>1. Half \in Nat \ {0} /\ Size = 2 * Half /\ Size \in Nat
    BY Sizes
<1> DEFINE S == Size
           R == S - r - 1
           C == S - c - 1
           At(a, b) == a * S + b
<1>2. r \in 0 .. S - 1 /\ c \in 0 .. S - 1 /\ R \in 0 .. S - 1 /\ C \in 0 .. S - 1
    BY <1>1
<1>3. MirrorSums(r, c) = {At(r, c), At(c, r), At(r, C), At(c, R),
                          At(R, c), At(C, r), At(R, C), At(C, R)}
  <2>1. ASSUME NEW a \in Int, NEW b \in Int PROVE a * S + S - b - 1 = a * S + (S - b - 1)
      BY <1>1
  <2> QED BY <1>1, <1>2, <2>1 DEF MirrorSums
<1> HIDE DEF S
<1>4. S \in Nat /\ S * S <= IntMax + 1
    BY <1>1 DEF S
<1>5. ASSUME NEW a \in 0 .. S - 1, NEW b \in 0 .. S - 1
      PROVE  At(a, b) \in 0 .. S * S - 1
    BY <1>4, IndexInRange
<1>8. Mirrors(r, c) = MirrorSums(r, c)
  <2>1. ASSUME NEW n \in MirrorSums(r, c) PROVE Wrapped(n) = n
    <3>1. n \in 0 .. S * S - 1
      <4> HIDE DEF At, R, C
      <4> QED BY <1>2, <1>3, <1>5
    <3>2. n \in 0 .. UintMax /\ n <= IntMax
        BY <1>4, <3>1, IntAssumption DEF UintMax
    <3> QED BY <3>2, WrappedIs
  <2> QED BY <2>1 DEF Mirrors
<1>6. Mirrors(r, c) \subseteq 0 .. S * S - 1
  <2> HIDE DEF At, R, C
  <2> QED BY <1>2, <1>3, <1>5, <1>8
<1>7. ASSUME NEW x \in 0 .. S - 1, NEW y \in 0 .. S - 1
      PROVE  x * S + y \in Mirrors(r, c) <=> WedgeRow(x, y) = r /\ WedgeCol(x, y) = c
  <2>1. ASSUME NEW a \in 0 .. S - 1, NEW b \in 0 .. S - 1
        PROVE  At(x, y) = At(a, b) <=> x = a /\ y = b
      BY <1>4, IndexUnique
  <2> DEFINE Mirrored == \/ x = r /\ y = c
                         \/ x = c /\ y = r
                         \/ x = r /\ y = C
                         \/ x = c /\ y = R
                         \/ x = R /\ y = c
                         \/ x = C /\ y = r
                         \/ x = R /\ y = C
                         \/ x = C /\ y = R
  <2>2. At(x, y) \in Mirrors(r, c) <=> Mirrored
    <3>1. /\ At(x, y) = At(r, c) <=> x = r /\ y = c
          /\ At(x, y) = At(c, r) <=> x = c /\ y = r
          /\ At(x, y) = At(r, C) <=> x = r /\ y = C
          /\ At(x, y) = At(c, R) <=> x = c /\ y = R
          /\ At(x, y) = At(R, c) <=> x = R /\ y = c
          /\ At(x, y) = At(C, r) <=> x = C /\ y = r
          /\ At(x, y) = At(R, C) <=> x = R /\ y = C
          /\ At(x, y) = At(C, R) <=> x = C /\ y = R
      <4> HIDE DEF At, R, C
      <4> QED BY <1>2, <2>1
    <3> HIDE DEF At, R, C
    <3> QED BY <1>3, <1>8, <3>1
  <2>3. S = 2 * Half /\ S = Size
      BY <1>1 DEF S
  <2>4. Mirrored <=> WedgeRow(x, y) = r /\ WedgeCol(x, y) = c
      BY <1>1, <2>3 DEF WedgeRow, WedgeCol, Folded
  <2> HIDE DEF Mirrored
  <2> QED BY <2>2, <2>4
<1> QED BY <1>6, <1>7 DEF S
-----------------------------------------------------------------------------
(* The invariant is inductive                                              *)

LEMMA InitHolds == Init => ImgProcInv
<1> SUFFICES ASSUME Init PROVE ImgProcInv
    OBVIOUS
<1>1. Stages
    BY DEF Init, Stages, Over
<1>2. Positions
    BY DEF Init, Positions
<1>3. Outputs
    BY DEF Init, Outputs, Working, Over
<1>5. Counted
    BY DEF Init, Counted, Working
<1>4. FadeDone /\ RgbDone /\ WedgeDone /\ CopyDone
    BY DEF Init, FadeDone, RgbDone, WedgeDone, CopyDone
<1> QED BY <1>1, <1>2, <1>3, <1>4, <1>5 DEF ImgProcInv

\* After the input is read, neither it nor what is asked changes.
LEMMA Kept ==
    ASSUME Stages, [Next]_vars
    PROVE  /\ png' = png /\ transformation' = transformation
           /\ pc # "read" => /\ input_img' = input_img
                             /\ W' = W /\ H' = H /\ (Odd' <=> Odd) /\ Size' = Size
                             /\ Half' = Half /\ Times' = Times
<1>1. /\ png' = png /\ transformation' = transformation
      /\ pc # "read" => input_img' = input_img
    BY DEF Next, vars, files, position, ReadInput, CreateOutput, Refuse, StartPixels,
           Grayscale, Rgb, Fade, StartKaleidoscope, Wedge, Copy, WriteOutput, Exited
<1> QED BY <1>1 DEF W, H, Odd, Size, Half, Times

LEMMA StagesStep ==
    ASSUME Stages, Positions, Outputs, [Next]_vars
    PROVE  Stages'
<1>1. /\ png' = png /\ transformation' = transformation
      /\ pc # "read" => /\ input_img' = input_img
                        /\ W' = W /\ H' = H /\ (Odd' <=> Odd)
    BY Kept
<1>2. CASE ReadInput
  <2>1. /\ pc = "read" /\ UNCHANGED output_file
        /\ \/ /\ pc' = "exited" /\ exit_status' \in {1, 139} /\ input_img' = input_img
           \/ /\ pc' = "undefined" /\ UNCHANGED <<exit_status, input_img>>
              /\ png.color_type # "other" /\ ~Fits(png)
           \/ /\ pc' = "create" /\ UNCHANGED exit_status
              /\ Fits(png) /\ input_img' = Decoded(png)
      BY <1>2 DEF ReadInput, Exit, Segfault, Goto, files
  <2>2. pc' = "undefined" => LineBytes(2 * png.width, 2 * png.height, 4) > UintMax
      BY <2>1, TooLarge DEF Stages
  <2> QED BY <1>1, <2>1, <2>2 DEF Stages, Over
<1>3. CASE CreateOutput
  <2>1. /\ pc = "create" /\ UNCHANGED <<output_file, input_img>>
        /\ \/ pc' = "exited" /\ exit_status' = 1
           \/ pc' = "apply" /\ UNCHANGED exit_status
      BY <1>3 DEF CreateOutput, Exit, Goto, files
  <2> QED BY <1>1, <2>1 DEF Stages, Over
<1>11. CASE StartPixels
    BY <1>1, <1>11 DEF StartPixels, Goto, Stages, Over, files, Known
<1>4. CASE Refuse
    BY <1>1, <1>4 DEF Refuse, Exit, Stages, Over, files
<1>10. CASE WriteOutput
  <2> DEFINE bytes == LineBytes(output_img.width, output_img.height, 4)
  <2>1. /\ pc = "write" /\ UNCHANGED input_img
        /\ \/ /\ pc' = "exited" /\ exit_status' = 1
              /\ output_file' \in {"none", "broken"}
           \/ pc' = "exited" /\ exit_status' = 139 /\ output_file' = "broken"
           \/ /\ pc' = "undefined" /\ UNCHANGED exit_status
              /\ output_file' = "broken" /\ ~(bytes <= UintMax)
           \/ /\ pc' = "exited" /\ exit_status' = 0
              /\ output_file' \in {"broken", "complete"}
      BY <1>10 DEF WriteOutput, Exit, Segfault, Goto
  <2>2. pc' = "undefined" => LineBytes(2 * png.width, 2 * png.height, 4) > UintMax
    <3>1. SUFFICES ASSUME ~(bytes <= UintMax)
                   PROVE  LineBytes(2 * png.width, 2 * png.height, 4) > UintMax
        BY <2>1
    <3>2. png \in Pngs /\ Fits(png) /\ input_img = Decoded(png)
        BY <2>1 DEF Stages
    <3>3. W = png.width /\ H = png.height /\ W \in Nat /\ H \in Nat
        BY <3>2, DecodedIsImage DEF Decoded, W, H
    <3>4. output_img.width = Times * W /\ output_img.height = Times * H
        BY <2>1 DEF Outputs, Working, ImagesOf
    <3>5. \/ output_img.width = W /\ output_img.height = H
          \/ output_img.width = 2 * W /\ output_img.height = 2 * H
        BY <3>3, <3>4 DEF Times
    <3>6. /\ LineBytes(W, H, 4) \in Int /\ LineBytes(2 * W, 2 * H, 4) \in Int
          /\ UintMax \in Int
        BY <3>3, IntAssumption DEF LineBytes, UintMax
    <3>7. LineBytes(W, H, 4) > UintMax \/ LineBytes(2 * W, 2 * H, 4) > UintMax
        BY <3>1, <3>5, <3>6
    <3> QED BY <3>2, <3>3, <3>7, FitsTwice, TooLarge
  <2> QED BY <1>1, <2>1, <2>2 DEF Stages, Over, Allowed
<1>5. CASE Grayscale \/ Rgb \/ Fade
  <2>1. /\ pc = "pixels" /\ UNCHANGED output_file
        /\ (pc' = pc \/ pc' = "write") /\ UNCHANGED exit_status
      BY <1>5 DEF Grayscale, Rgb, Fade, Continue, NextQuadrant, Goto, files
  <2> QED BY <1>1, <2>1 DEF Stages, Over, Allowed, Known
<1>6. CASE StartKaleidoscope
    BY <1>1, <1>6 DEF StartKaleidoscope, Exit, Goto, Stages, Over, files, W, H
<1>7. CASE Wedge
  <2>1. /\ pc = "wedge" /\ UNCHANGED <<output_file, exit_status>>
        /\ pc' = pc \/ pc' = IF Odd THEN "copy" ELSE "write"
      BY <1>7 DEF Wedge, NextOfWedge, files
  <2> QED BY <1>1, <2>1 DEF Stages, Over, Allowed
<1>8. CASE Copy
  <2>1. /\ pc = "copy" /\ UNCHANGED output_file
        /\ (pc' = pc \/ pc' = "write") /\ UNCHANGED exit_status
      BY <1>8 DEF Copy, Continue, Goto, files
  <2> QED BY <1>1, <2>1 DEF Stages, Over, Allowed
<1>9. CASE Exited \/ UNCHANGED vars
    BY <1>1, <1>9 DEF Exited, vars, files, position, Stages, Over, Allowed, W, H
<1> QED BY <1>2, <1>3, <1>4, <1>5, <1>6, <1>7, <1>8, <1>9, <1>10, <1>11 DEF Next

\* What the stage says of the sizes.
LEMMA Shapes ==
    ASSUME Stages, pc # "read", pc # "exited", pc # "undefined"
    PROVE  /\ input_img = Decoded(png)
           /\ W \in Nat \ {0} /\ H \in Nat \ {0}
           /\ Size \in Nat /\ Half \in Nat \ {0} /\ Size = 2 * Half /\ Half <= W
           /\ Size = W \/ Size = W + 1
           /\ ~Odd => Size = W
<1>1. input_img = Decoded(png)
    BY DEF Stages
<1> QED BY <1>1, DecodedIsImage, Sizes

LEMMA PositionsStep ==
    ASSUME Stages, Positions, [Next]_vars
    PROVE  Positions'
<1>1. pc # "read" => W' = W /\ H' = H /\ Half' = Half
    BY Kept
<1>2. CASE ReadInput \/ CreateOutput \/ Refuse
    BY <1>2 DEF ReadInput, CreateOutput, Refuse, Exit, Segfault, Goto, Positions, position
<1>3. CASE StartPixels \/ StartKaleidoscope
  <2>1. pc = "apply" /\ UNCHANGED position /\ pc' \in {"pixels", "wedge", "exited"}
      BY <1>3 DEF StartPixels, StartKaleidoscope, Exit, Goto
  <2>2. W \in Nat \ {0} /\ H \in Nat \ {0} /\ Half \in Nat \ {0}
      BY <2>1, Shapes
  <2> QED BY <1>1, <2>1, <2>2 DEF Positions, position
<1>4. CASE Grayscale \/ Rgb \/ Fade \/ Copy
  <2>1. /\ pc = "pixels" \/ pc = "copy"
        /\ NextPixel /\ pc' \in {pc, "write"} /\ quadrant' \in {quadrant, "B", "C", "D"}
    <3>1. CASE Rgb
      <4>1. quadrant \in {"A", "B", "C", "D"}
          BY DEF Positions
      <4> QED BY <3>1, <4>1 DEF Rgb, NextQuadrant, Goto
    <3>2. CASE Grayscale \/ Fade \/ Copy
        BY <3>2 DEF Grayscale, Fade, Copy, Continue, Goto
    <3> QED BY <1>4, <3>1, <3>2
  <2>2. W \in Nat \ {0} /\ H \in Nat \ {0}
      BY <2>1, Shapes
  <2>3. row' \in 0 .. H - 1 /\ col' \in 0 .. W - 1
      BY <2>1, <2>2, PositionNext DEF Positions
  <2> QED BY <1>1, <2>1, <2>2, <2>3 DEF Positions
<1>5. CASE Wedge
  <2>1. pc = "wedge" /\ NextOfWedge /\ UNCHANGED quadrant
      BY <1>5 DEF Wedge
  <2>2. /\ W \in Nat \ {0} /\ H \in Nat \ {0} /\ Half \in Nat \ {0}
      BY <2>1, Shapes
  <2> QED BY <1>1, <2>1, <2>2 DEF Positions, NextOfWedge
<1>6. CASE WriteOutput
    BY <1>6 DEF WriteOutput, Exit, Segfault, Goto, Positions, position
<1>7. CASE Exited \/ UNCHANGED vars
  <2>1. UNCHANGED <<pc, input_img, row, col, quadrant>>
      BY <1>7 DEF Exited, vars, position
  <2> QED BY <2>1 DEF Positions, W, H, Half, Size, Odd
<1> QED BY <1>2, <1>3, <1>4, <1>5, <1>6, <1>7 DEF Next

\* A pixel that the loops read is one of the image.
LEMMA InputHere ==
    ASSUME Stages, Positions, pc = "pixels" \/ pc = "wedge"
    PROVE  /\ row \in 0 .. H - 1 /\ col \in 0 .. W - 1
           /\ Input = InputAt(row, col) /\ Input \in Pixels
<1>1. /\ input_img = Decoded(png) /\ W \in Nat \ {0} /\ H \in Nat \ {0}
      /\ Half \in Nat \ {0} /\ Half <= W
    BY Shapes
<1>2. pc = "wedge" => W = H
    BY DEF Stages
<1>3. row \in 0 .. H - 1 /\ col \in 0 .. W - 1
    BY <1>1, <1>2 DEF Positions
<1>4. Input = InputAt(row, col)
  <2>1. W * H <= IntMax + 1
      BY InputIsCounted, IntAssumption
  <2>2. Index(W, col, row) = row * W + col
      BY <1>1, <1>3, <2>1, IndexIs
  <2> QED BY <2>2 DEF Input, InputAt, PixelAt, W
<1> QED BY <1>1, <1>3, <1>4, InputIsPixel

\* What a step of fade writes.
LEMMA FadeHere ==
    ASSUME Stages, Positions, Outputs, Fade
    PROVE  /\ FadedAt(row, col) \in Pixels
           /\ SetOutput(Index(output_img.width, col, row), FadedAt(row, col))
           /\ output_img \in ImagesOf(W, H) /\ W * H <= IntMax
<1>1. pc = "pixels" /\ transformation = "fade"
    BY DEF Fade
<1>2. /\ row \in 0 .. H - 1 /\ col \in 0 .. W - 1
      /\ Input = InputAt(row, col) /\ Input \in Pixels
    BY <1>1, InputHere
<1>3. W \in Nat \ {0} /\ H \in Nat \ {0}
    BY <1>1, Shapes
<1>4. Gradient(row, H) \in 0 .. FullGradient /\ Gradient(col, W) \in 0 .. FullGradient
    BY <1>2, <1>3, GradientRange
<1>5. FadedAt(row, col) \in Pixels
    BY <1>2, <1>4, ToFadeRange DEF FadedAt
<1>6. SetOutput(Index(output_img.width, col, row), FadedAt(row, col))
    BY <1>2 DEF Fade, FadedAt, W, H
<1>7. output_img \in ImagesOf(Times * W, Times * H) /\ Times = 1
    BY <1>1 DEF Outputs, Working, Times
<1>8. output_img \in ImagesOf(W, H)
    BY <1>3, <1>7
<1> QED BY <1>1, <1>5, <1>6, <1>8, InputIsCounted

\* What a step of rgb writes.
LEMMA RgbHere ==
    ASSUME Stages, Positions, Outputs, Counted, Rgb
    PROVE  /\ Channel(InputAt(row, col), quadrant) \in Pixels
           /\ SetOutput(PlaceAt(quadrant, row, col), Channel(InputAt(row, col), quadrant))
           /\ output_img \in ImagesOf(2 * W, 2 * H)
           /\ PlaceAt(quadrant, row, col) \in 0 .. (2 * W) * (2 * H) - 1
<1>1. pc = "pixels" /\ transformation = "rgb"
    BY DEF Rgb
<1>2. /\ row \in 0 .. H - 1 /\ col \in 0 .. W - 1
      /\ Input = InputAt(row, col) /\ Input \in Pixels
    BY <1>1, InputHere
<1>3. W \in Nat \ {0} /\ H \in Nat \ {0}
    BY <1>1, Shapes
<1>4. output_img \in ImagesOf(2 * W, 2 * H)
    BY <1>1 DEF Outputs, Working, Times
<1>5. output_img.width = 2 * W
    BY <1>4 DEF ImagesOf
<1>7. PlaceAt(quadrant, row, col) \in 0 .. (2 * W) * (2 * H) - 1
    BY <1>2, <1>3, <1>5, PlaceInRange
<1>8. (2 * W) * (2 * H) <= IntMax
    BY <1>1 DEF Counted, Working, Times
<1>6. Place(quadrant) = PlaceAt(quadrant, row, col)
    BY <1>3, <1>7, <1>8, PlaceIs
<1>9. SetOutput(PlaceAt(quadrant, row, col), Channel(InputAt(row, col), quadrant))
    BY <1>2, <1>6 DEF Rgb
<1> QED BY <1>2, <1>4, <1>7, <1>9, ChannelIsPixel

\* What a step of kaleidoscope writes.
LEMMA WedgeHere ==
    ASSUME Stages, Positions, Outputs, Wedge
    PROVE  /\ row \in 0 .. Half - 1 /\ col \in row .. Half - 1
           /\ Input = InputAt(row, col) /\ Input \in Pixels
           /\ Size * Size \in Nat /\ Size * Size <= IntMax + 1
           /\ Odd => newdata \in [0 .. Size * Size - 1 -> Pixels \union {Uninitialized}]
           /\ output_img \in ImagesOf(W, H)
           /\ ~Odd => output_img \in ImagesOf(Size, Size)
<1>1. pc = "wedge"
    BY DEF Wedge
<1>2. transformation = "kaleidoscope" /\ W = H
    BY <1>1 DEF Stages
<1>4. output_img \in ImagesOf(Times * W, Times * H) /\ Times = 1
    BY <1>1, <1>2 DEF Outputs, Working, Times
<1>5. W \in Nat /\ Size \in Nat /\ (~Odd => Size = W)
    BY <1>1, Shapes
<1>6. output_img \in ImagesOf(W, H)
    BY <1>2, <1>4, <1>5
<1>7. row \in 0 .. Half - 1 /\ col \in row .. Half - 1
    BY <1>1 DEF Positions
<1>8. Odd => newdata \in [0 .. Size * Size - 1 -> Pixels \union {Uninitialized}]
    BY <1>1 DEF Outputs
<1>9. Size * Size <= IntMax + 1
    BY <1>1, <1>2, InputIsCounted
<1> QED BY <1>1, <1>2, <1>5, <1>6, <1>7, <1>8, <1>9, InputHere

\* What the copy writes: the square is complete.
LEMMA CopyHere ==
    ASSUME Stages, Positions, Outputs, WedgeDone, Copy
    PROVE  /\ FoldedAt(row, col) \in Pixels
           /\ row \in 0 .. H - 1 /\ col \in 0 .. W - 1
           /\ SetOutput(Index(output_img.width, col, row), FoldedAt(row, col))
           /\ output_img \in ImagesOf(W, H) /\ W * H <= IntMax
<1>1. pc = "copy"
    BY DEF Copy
<1>2. transformation = "kaleidoscope" /\ W = H /\ Odd /\ input_img = Decoded(png)
    BY <1>1 DEF Stages
<1>3. W \in Nat /\ Size \in Nat /\ W <= Size
    BY <1>1, Shapes
<1>4. row \in 0 .. H - 1 /\ col \in 0 .. W - 1
    BY <1>1 DEF Positions
<1>5. row \in 0 .. Size - 1 /\ col \in 0 .. Size - 1
    BY <1>2, <1>3, <1>4
<1>6. newdata[row * Size + col] = FoldedAt(row, col)
    BY <1>1, <1>2, <1>5 DEF WedgeDone, Square
<1>7. FoldedAt(row, col) \in Pixels
    BY <1>2, <1>5, FoldedIsPixel
<1>8. output_img \in ImagesOf(Times * W, Times * H) /\ Times = 1
    BY <1>1, <1>2 DEF Outputs, Working, Times
<1>9. output_img \in ImagesOf(W, H)
    BY <1>2, <1>3, <1>8
<1>10. Size * Size <= IntMax + 1 /\ W * H <= IntMax
    BY <1>1, <1>2, InputIsCounted
<1>11. Index(Size, col, row) = row * Size + col
    BY <1>3, <1>5, <1>10, IndexIs
<1> QED BY <1>4, <1>6, <1>7, <1>9, <1>10, <1>11 DEF Copy

LEMMA NewImageIsImage ==
    ASSUME NEW w \in Nat, NEW h \in Nat, w * h <= IntMax
    PROVE  NewImage(w, h) \in ImagesOf(w, h)
<1>1. InitialPixel \in Pixels
    BY DEF InitialPixel, MakePixel, Pixels, Components
<1>2. w * h \in 0 .. UintMax
    BY IntAssumption DEF UintMax
<1>3. PixelCount(w, h) = w * h
    BY <1>2, WrappedIs DEF PixelCount
<1> QED BY <1>1, <1>3 DEF NewImage, ImagesOf

\* The image that is made is as large as asked for: one with more pixels than an
\* int32_t counts has a negative number of them, and is not made.
LEMMA CreateIs ==
    ASSUME Stages, CreateOutput
    PROVE  \/ pc' = "exited" /\ output_img' = output_img
           \/ /\ pc' = "apply"
              /\ output_img' = NewImage(Times * W, Times * H)
              /\ (Times * W) * (Times * H) <= IntMax
<1>1. pc = "create"
    BY DEF CreateOutput
<1>2. /\ W \in Nat \ {0} /\ H \in Nat \ {0} /\ W * H \in Nat
      /\ 2 * (W * H) <= IntMax /\ W * H <= IntMax
      /\ 2 * W \in 0 .. IntMax /\ 2 * H \in 0 .. IntMax
    BY <1>1, Shapes, InputIsCounted
<1>3. IntMax \in Nat /\ UintMax = 2 * IntMax + 1
    BY IntAssumption DEF UintMax
<1> DEFINE w == Times * W
           h == Times * H
<1>4. w \in 0 .. IntMax /\ h \in 0 .. IntMax
    BY <1>2, <1>3 DEF Times
<1>5. Wrapped(w) = w /\ Wrapped(h) = h
  <2> HIDE DEF w, h
  <2>1. w \in 0 .. UintMax /\ h \in 0 .. UintMax
      BY <1>3, <1>4
  <2> QED BY <1>4, <2>1, WrappedIs
<1>6. w * h \in 0 .. UintMax
  <2>1. CASE Times = 1
    <3>1. w * h = W * H
        BY <1>2, <2>1
    <3> QED BY <1>2, <1>3, <3>1
  <2>2. CASE Times = 2
    <3>1. w * h = 4 * (W * H)
        BY <1>2, <2>2, TwiceTwice
    <3> QED BY <1>2, <1>3, <3>1
  <2> QED BY <2>1, <2>2 DEF Times
<1> DEFINE n == w * h
<1>7. n \in 0 .. UintMax
    BY <1>6
<1>8. PixelCount(w, h) = Wrapped(n)
    BY DEF PixelCount
<1>9. \/ pc' = "exited" /\ output_img' = output_img
      \/ /\ pc' = "apply" /\ output_img' = NewImage(Wrapped(w), Wrapped(h))
         /\ PixelCount(Wrapped(w), Wrapped(h)) >= 0
    BY DEF CreateOutput, Exit, Goto, Times, W, H
<1> HIDE DEF w, h, n
<1>10. PixelCount(w, h) >= 0 => n <= IntMax
    BY <1>3, <1>7, <1>8, WrappedIs
<1>11. \/ pc' = "exited" /\ output_img' = output_img
       \/ pc' = "apply" /\ output_img' = NewImage(w, h) /\ n <= IntMax
    BY <1>5, <1>9, <1>10
<1> QED BY <1>11 DEF w, h, n

\* An image that is made or changed has pixels.
LEMMA ImagesHavePixels ==
    ASSUME NEW w, NEW h, NEW img \in ImagesOf(w, h)
    PROVE  HasPixels(img)
BY DEF ImagesOf, HasPixels

LEMMA CountedStep ==
    ASSUME Stages, Counted, [Next]_vars
    PROVE  Counted'
<1>1. CASE CreateOutput
  <2>1. pc = "create" /\ Times' = Times /\ W' = W /\ H' = H
      BY <1>1, Kept DEF CreateOutput
  <2> QED BY <1>1, <2>1, CreateIs DEF Counted, Working
<1>2. CASE ~CreateOutput
  <2>1. Working' => Working
      BY <1>2 DEF Next, vars, ReadInput, Refuse, StartPixels, Grayscale, Rgb, Fade,
             StartKaleidoscope, Wedge, Copy, WriteOutput, Exited, Exit, Segfault, Goto,
             Continue, NextQuadrant, NextOfWedge, Working
  <2>2. Working => Times' = Times /\ W' = W /\ H' = H
      BY Kept DEF Working
  <2> QED BY <2>1, <2>2 DEF Counted
<1> QED BY <1>1, <1>2

LEMMA OutputsStep ==
    ASSUME Stages, Positions, Outputs, Counted, WedgeDone, [Next]_vars
    PROVE  Outputs'
<1>1. /\ transformation' = transformation
      /\ pc # "read" => /\ W' = W /\ H' = H /\ (Odd' <=> Odd) /\ Size' = Size
                        /\ Times' = Times
    BY Kept
<1>2. CASE ReadInput
    BY <1>2 DEF ReadInput, Exit, Segfault, Goto, Outputs, Working, Over, HasPixels, NoImage
<1>3. CASE CreateOutput
  <2>1. pc = "create" /\ output_img = NoImage /\ newdata' = newdata
      BY <1>3 DEF CreateOutput, Outputs
  <2>2. \/ pc' = "exited" /\ output_img' = output_img
        \/ pc' = "apply" /\ output_img' \in ImagesOf(Times * W, Times * H)
    <3>1. Times * W \in Nat /\ Times * H \in Nat
        BY <2>1, Shapes DEF Times
    <3> QED BY <1>3, <3>1, CreateIs, NewImageIsImage
  <2>5. HasPixels(NoImage)
      BY DEF HasPixels, NoImage
  <2> QED BY <1>1, <2>1, <2>2, <2>5 DEF Outputs, Working, Over
<1>4. CASE Refuse \/ StartPixels \/ WriteOutput
  <2>1. /\ pc \in {"apply", "write"} /\ pc' \in {"pixels", "exited", "undefined"}
        /\ output_img' = output_img /\ newdata' = newdata
      BY <1>4 DEF Refuse, StartPixels, WriteOutput, Exit, Segfault, Goto
  <2>2. output_img \in ImagesOf(Times * W, Times * H)
      BY <2>1 DEF Outputs, Working
  <2>3. HasPixels(output_img)
      BY <2>2, ImagesHavePixels
  <2> QED BY <1>1, <2>1, <2>2, <2>3 DEF Outputs, Working, Over
<1>5. CASE StartKaleidoscope
  <2>1. /\ pc = "apply" /\ pc' \in {"wedge", "exited"}
        /\ output_img' = output_img
      BY <1>5 DEF StartKaleidoscope, Exit, Goto
  <2>2. output_img \in ImagesOf(Times * W, Times * H)
      BY <2>1 DEF Outputs, Working
  <2>3. HasPixels(output_img)
      BY <2>2, ImagesHavePixels
  <2>4. \/ newdata' = newdata /\ (~Odd \/ pc' = "exited")
        \/ newdata' = [i \in 0 .. Size * Size - 1 |-> Uninitialized]
      BY <1>5 DEF StartKaleidoscope, Exit, Goto
  <2> QED BY <1>1, <2>1, <2>2, <2>3, <2>4 DEF Outputs, Working, Over
<1>6. CASE Grayscale
  <2>1. pc = "pixels" /\ transformation = "grayscale" /\ newdata' = newdata
      BY <1>6 DEF Grayscale
  <2>2. /\ row \in 0 .. H - 1 /\ col \in 0 .. W - 1 /\ Input \in Pixels
      BY <2>1, InputHere
  <2>3. output_img \in ImagesOf(W, H) /\ W \in Nat /\ H \in Nat
      BY <2>1, Shapes DEF Outputs, Working, Times
  <2>4. output_img' \in ImagesOf(W, H)
    <3>1. W * H <= IntMax
        BY <2>1, InputIsCounted
    <3> QED BY <1>6, <2>2, <2>3, <3>1, GrayIsPixel, PixelStep DEF Grayscale
  <2>5. pc' \in {"pixels", "write"}
      BY <1>6, <2>1 DEF Grayscale, Continue, Goto
  <2>6. Times = 1 /\ 1 * W = W /\ 1 * H = H
      BY <2>1, <2>3 DEF Times
  <2> QED BY <1>1, <2>1, <2>4, <2>5, <2>6 DEF Outputs, Working, Over
<1>7. CASE Rgb
  <2>1. pc = "pixels" /\ transformation = "rgb" /\ newdata' = newdata
      BY <1>7 DEF Rgb
  <2>2. W \in Nat /\ H \in Nat /\ 2 * W \in Nat /\ 2 * H \in Nat
      BY <2>1, Shapes
  <2>3. output_img' \in ImagesOf(2 * W, 2 * H)
      BY <1>7, <2>2, RgbHere, SetOutputEffect
  <2>4. pc' \in {"pixels", "write"}
      BY <1>7, <2>1 DEF Rgb, NextQuadrant, Goto
  <2>5. Times = 2
      BY <2>1 DEF Times
  <2> QED BY <1>1, <2>1, <2>3, <2>4, <2>5 DEF Outputs, Working, Over
<1>8. CASE Fade
  <2>1. pc = "pixels" /\ transformation = "fade" /\ newdata' = newdata
      BY <1>8 DEF Fade
  <2>2. row \in 0 .. H - 1 /\ col \in 0 .. W - 1 /\ W \in Nat /\ H \in Nat
      BY <2>1, InputHere, Shapes
  <2>3. output_img' \in ImagesOf(W, H)
      BY <1>8, <2>2, FadeHere, PixelStep
  <2>4. pc' \in {"pixels", "write"}
      BY <1>8, <2>1 DEF Fade, Continue, Goto
  <2>5. Times = 1 /\ 1 * W = W /\ 1 * H = H
      BY <2>1, <2>2 DEF Times
  <2> QED BY <1>1, <2>1, <2>3, <2>4, <2>5 DEF Outputs, Working, Over
<1>9. CASE Wedge
  <2>1. pc = "wedge" /\ pc' \in {"wedge", "copy", "write"} /\ (pc' = "copy" => Odd)
      BY <1>9 DEF Wedge, NextOfWedge
  <2>2. /\ Input \in Pixels /\ Size * Size \in Nat
        /\ Odd => newdata \in [0 .. Size * Size - 1 -> Pixels \union {Uninitialized}]
        /\ output_img \in ImagesOf(W, H)
      BY <1>9, WedgeHere
  <2>3. Times = 1 /\ 1 * W = W /\ 1 * H = H
      BY <2>1, Shapes DEF Times, Stages
  <2>4. CASE Odd
    <3>1. newdata' = Written(newdata, Mirrors(row, col), Input) /\ output_img' = output_img
        BY <1>9, <2>4 DEF Wedge
    <3>2. newdata' \in [0 .. Size * Size - 1 -> Pixels \union {Uninitialized}]
        BY <2>2, <2>4, <3>1 DEF Written
    <3> QED BY <1>1, <2>1, <2>2, <2>3, <3>1, <3>2 DEF Outputs, Working, Over
  <2>5. CASE ~Odd
    <3>1. /\ output_img' = [output_img EXCEPT !.data =
                               Written(@, Mirrors(row, col), Input)]
          /\ newdata' = newdata
        BY <1>9, <2>5 DEF Wedge
    <3>2. output_img' \in ImagesOf(W, H)
        BY <2>2, <3>1 DEF Written, ImagesOf
    <3> QED BY <1>1, <2>1, <2>3, <2>5, <3>1, <3>2 DEF Outputs, Working, Over
  <2> QED BY <2>4, <2>5
<1>10. CASE Copy
  <2>1. pc = "copy" /\ newdata' = newdata
      BY <1>10 DEF Copy
  <2>2. W \in Nat /\ H \in Nat
      BY <2>1, Shapes
  <2>3. output_img' \in ImagesOf(W, H)
      BY <1>10, <2>2, CopyHere, PixelStep
  <2>4. pc' \in {"copy", "write"}
      BY <1>10, <2>1 DEF Copy, Continue, Goto
  <2>5. Times = 1 /\ 1 * W = W /\ 1 * H = H
      BY <2>1, <2>2 DEF Times, Stages
  <2> QED BY <1>1, <2>1, <2>3, <2>4, <2>5 DEF Outputs, Working, Over
<1>11. CASE Exited \/ UNCHANGED vars
  <2>1. UNCHANGED <<pc, output_img, newdata, transformation, input_img>>
      BY <1>11 DEF Exited, vars
  <2> QED BY <2>1 DEF Outputs, Working, Over, W, H, Odd, Size, Times
<1> QED BY <1>2, <1>3, <1>4, <1>5, <1>6, <1>7, <1>8, <1>9, <1>10, <1>11 DEF Next

\* The output of a transformation is made by its own steps.
LEMMA StageOrder ==
    ASSUME Stages, [Next]_vars,
           pc' # "read", pc' # "create", pc' # "exited", pc' # "undefined"
    PROVE  /\ pc # "read" /\ pc # "exited" /\ pc # "undefined"
           /\ pc' # "apply" => pc # "create"
           /\ \/ CreateOutput \/ StartPixels \/ Grayscale \/ Rgb \/ Fade
              \/ StartKaleidoscope \/ Wedge \/ Copy \/ UNCHANGED vars
BY DEF Next, vars, ReadInput, CreateOutput, Refuse, StartPixels, Grayscale, Rgb, Fade,
       StartKaleidoscope, Wedge, Copy, WriteOutput, Exit, Segfault, Goto, Exited

\* Steps of other transformations and steps that only end a stage.
LEMMA FadeDoneStep ==
    ASSUME Stages, Positions, Outputs, FadeDone, [Next]_vars
    PROVE  FadeDone'
<1> SUFFICES ASSUME pc' = "pixels" \/ pc' = "write", transformation' = "fade"
             PROVE  \A r \in 0 .. H' - 1, c \in 0 .. W' - 1 :
                        pc' = "write" \/ Passed(r, c)'
                        => PixelAt(output_img, r, c)' = FadedAt(r, c)'
    BY DEF FadeDone
<1>1. transformation = "fade"
    BY Kept
<1>2. pc # "read" /\ pc # "exited" /\ pc # "undefined"
    BY StageOrder
<1>3. UNCHANGED <<input_img, W, H>> /\ W \in Nat /\ H \in Nat
    BY <1>2, Kept, Shapes
<1>4. \A r, c : FadedAt(r, c)' = FadedAt(r, c)
    BY <1>3 DEF FadedAt, InputAt, PixelAt, W, H
<1>5. CASE StartPixels
  <2>1. pc = "apply" /\ pc' = "pixels" /\ row' = row /\ col' = col
      BY <1>5 DEF StartPixels, Goto, position
  <2>2. row = 0 /\ col = 0
      BY <2>1 DEF Positions
  <2> QED BY <1>3, <2>1, <2>2 DEF Passed
<1>6. CASE Fade
  <2>1. pc = "pixels" /\ NextPixel /\ (LastPixel <=> pc' = "write")
      BY <1>6 DEF Fade, Continue, Goto
  <2>2. row \in 0 .. H - 1 /\ col \in 0 .. W - 1
      BY <2>1, InputHere
  <2>3. \A r \in 0 .. H - 1, c \in 0 .. W - 1 :
            PixelAt(output_img', r, c) = IF r = row /\ c = col THEN FadedAt(row, col)
                                         ELSE PixelAt(output_img, r, c)
      BY <1>3, <1>6, <2>2, FadeHere, PixelStep
  <2>4. ASSUME NEW r \in 0 .. H - 1, NEW c \in 0 .. W - 1,
               pc' = "write" \/ Passed(r, c)', ~(r = row /\ c = col)
        PROVE  PixelAt(output_img, r, c) = FadedAt(r, c)
    <3>1. Passed(r, c)
        BY <1>3, <2>1, <2>2, <2>4, PassedNext
    <3> QED BY <1>1, <2>1, <3>1 DEF FadeDone
  <2>5. \A r, c : PixelAt(output_img, r, c)' = PixelAt(output_img', r, c)
      BY DEF PixelAt
  <2> QED BY <1>3, <1>4, <2>3, <2>4, <2>5
<1>7. CASE UNCHANGED vars
  <2>1. UNCHANGED <<pc, output_img, row, col>>
      BY <1>7 DEF vars, position
  <2> QED BY <1>1, <1>3, <1>4, <2>1 DEF FadeDone, Passed, PixelAt
<1> QED BY <1>1, <1>5, <1>6, <1>7, StageOrder
        DEF CreateOutput, Grayscale, Rgb, StartKaleidoscope, Wedge, Copy, Exit, Goto, Stages

LEMMA RgbDoneStep ==
    ASSUME Stages, Positions, Outputs, Counted, RgbDone, [Next]_vars
    PROVE  RgbDone'
<1> DEFINE Made(q, r, c) == output_img.data[PlaceAt(q, r, c)] = Channel(InputAt(r, c), q)
           Quadrants == {"A", "B", "C", "D"}
<1> SUFFICES ASSUME pc' = "pixels" \/ pc' = "write", transformation' = "rgb"
             PROVE  \A q \in Quadrants, r \in 0 .. H' - 1, c \in 0 .. W' - 1 :
                        (\/ pc' = "write" \/ EarlierQuadrant(q, quadrant)'
                         \/ q = quadrant' /\ Passed(r, c)')
                        => Made(q, r, c)'
    BY DEF RgbDone
<1>1. transformation = "rgb"
    BY Kept
<1>2. pc # "read" /\ pc # "exited" /\ pc # "undefined"
    BY StageOrder
<1>3. UNCHANGED <<input_img, W, H>> /\ W \in Nat /\ H \in Nat
    BY <1>2, Kept, Shapes
<1>4. CASE StartPixels
  <2>1. pc = "apply" /\ pc' = "pixels" /\ row' = row /\ col' = col /\ quadrant' = quadrant
      BY <1>4 DEF StartPixels, Goto, position
  <2>2. row = 0 /\ col = 0 /\ quadrant = "A"
      BY <2>1 DEF Positions
  <2> QED BY <1>3, <2>1, <2>2 DEF Passed, EarlierQuadrant
<1>5. CASE Rgb
  <2>1. pc = "pixels" /\ NextPixel /\ NextQuadrant
      BY <1>5 DEF Rgb, NextQuadrant
  <2>2. row \in 0 .. H - 1 /\ col \in 0 .. W - 1 /\ quadrant \in Quadrants
      BY <2>1, InputHere DEF Positions
  <2>3. /\ output_img.width = 2 * W /\ output_img'.width = 2 * W
        /\ \A j \in 0 .. (2 * W) * (2 * H) - 1 :
               output_img'.data[j] = IF j = PlaceAt(quadrant, row, col)
                                     THEN Channel(InputAt(row, col), quadrant)
                                     ELSE output_img.data[j]
    <3>1. 2 * W \in Nat /\ 2 * H \in Nat
        BY <1>3
    <3> QED BY <1>5, <3>1, RgbHere, SetOutputEffect
  <2>4. \A q, r, c : /\ PlaceAt(q, r, c)' = PlaceAt(q, r, c)
                     /\ InputAt(r, c)' = InputAt(r, c)
      BY <1>3, <2>3 DEF PlaceAt, InputAt, PixelAt
  <2>5. ASSUME NEW q \in Quadrants, NEW r \in 0 .. H - 1, NEW c \in 0 .. W - 1,
               Made(q, r, c) \/ (q = quadrant /\ r = row /\ c = col)
        PROVE  Made(q, r, c)'
    <3>1. PlaceAt(q, r, c) \in 0 .. (2 * W) * (2 * H) - 1
        BY <1>3, <2>3, PlaceInRange
    <3>2. PlaceAt(q, r, c) = PlaceAt(quadrant, row, col) =>
              q = quadrant /\ r = row /\ c = col
        BY <1>3, <2>2, <2>3, PlaceUnique
    <3> QED BY <2>3, <2>4, <2>5, <3>1, <3>2
  <2>6. ASSUME NEW q \in Quadrants, NEW r \in 0 .. H - 1, NEW c \in 0 .. W - 1,
               \/ pc' = "write" \/ EarlierQuadrant(q, quadrant)'
               \/ q = quadrant' /\ Passed(r, c)'
        PROVE  \/ EarlierQuadrant(q, quadrant)
               \/ q = quadrant /\ Passed(r, c)
               \/ q = quadrant /\ r = row /\ c = col
    <3>1. /\ ~LastPixel /\ Passed(r, c)' => \/ Passed(r, c)
                                            \/ r = row /\ c = col
          /\ LastPixel => \/ Passed(r, c)
                          \/ r = row /\ c = col
          /\ LastPixel => ~Passed(r, c)'
        BY <1>3, <2>1, <2>2, PassedNext
    <3>2. CASE ~LastPixel
      <4>1. pc' = pc /\ quadrant' = quadrant
          BY <2>1, <3>2 DEF NextQuadrant
      <4> QED BY <2>1, <2>6, <3>1, <3>2, <4>1 DEF EarlierQuadrant
    <3>3. CASE LastPixel /\ quadrant = "D"
        BY <3>1, <3>3 DEF EarlierQuadrant
    <3>4. CASE LastPixel /\ quadrant # "D"
      <4>1. pc' = pc /\ \/ quadrant = "A" /\ quadrant' = "B"
                        \/ quadrant = "B" /\ quadrant' = "C"
                        \/ quadrant = "C" /\ quadrant' = "D"
          BY <2>1, <2>2, <3>4 DEF NextQuadrant
      <4> QED BY <2>1, <2>6, <3>1, <3>4, <4>1 DEF EarlierQuadrant
    <3> QED BY <3>2, <3>3, <3>4
  <2>7. \A q \in Quadrants, r \in 0 .. H - 1, c \in 0 .. W - 1 :
            EarlierQuadrant(q, quadrant) \/ (q = quadrant /\ Passed(r, c)) => Made(q, r, c)
      BY <1>1, <2>1 DEF RgbDone
  <2> HIDE DEF Made
  <2> QED BY <1>3, <2>5, <2>6, <2>7
<1>6. CASE UNCHANGED vars
  <2>1. UNCHANGED <<pc, output_img, row, col, quadrant>>
      BY <1>6 DEF vars, position
  <2>2. \A q, r, c : /\ PlaceAt(q, r, c)' = PlaceAt(q, r, c)
                     /\ InputAt(r, c)' = InputAt(r, c)
      BY <1>3, <2>1 DEF PlaceAt, InputAt, PixelAt
  <2> QED BY <1>1, <1>3, <2>1, <2>2 DEF RgbDone, Passed
<1> QED BY <1>1, <1>4, <1>5, <1>6, StageOrder
        DEF CreateOutput, Grayscale, Fade, StartKaleidoscope, Wedge, Copy, Exit, Goto, Stages

LEMMA WedgeDoneStep ==
    ASSUME Stages, Positions, Outputs, WedgeDone, [Next]_vars
    PROVE  WedgeDone'
<1> DEFINE Made(x, y) == Square[x * Size + y] = FoldedAt(x, y)
<1> SUFFICES ASSUME pc' = "wedge" \/ pc' = "copy" \/ pc' = "write",
                    transformation' = "kaleidoscope"
             PROVE  \A x \in 0 .. Size' - 1, y \in 0 .. Size' - 1 :
                        pc' # "wedge" \/ Passed(WedgeRow(x, y), WedgeCol(x, y))'
                        => Made(x, y)'
    BY DEF WedgeDone
<1>1. transformation = "kaleidoscope"
    BY Kept
<1>2. pc # "read" /\ pc # "exited" /\ pc # "undefined"
    BY StageOrder
<1>3. /\ UNCHANGED <<input_img, W, H, Size, Half>> /\ (Odd' <=> Odd)
      /\ Size \in Nat /\ Half \in Nat \ {0} /\ W \in Nat \ {0} /\ H \in Nat \ {0}
    BY <1>2, Kept, Shapes
<1>4. \A x, y : /\ WedgeRow(x, y)' = WedgeRow(x, y)
                /\ WedgeCol(x, y)' = WedgeCol(x, y)
                /\ FoldedAt(x, y)' = FoldedAt(x, y)
    BY <1>3 DEF WedgeRow, WedgeCol, Folded, FoldedAt, InputAt, PixelAt
<1>5. \A x \in 0 .. Size - 1, y \in 0 .. Size - 1 :
          /\ WedgeRow(x, y) \in 0 .. Half - 1
          /\ WedgeCol(x, y) \in WedgeRow(x, y) .. Half - 1
    BY <1>3, WedgeRange
<1>6. CASE StartKaleidoscope
  <2>1. pc = "apply" /\ pc' = "wedge" /\ row' = row /\ col' = col
      BY <1>6 DEF StartKaleidoscope, Goto, Exit, position
  <2>2. row = 0 /\ col = 0
      BY <2>1 DEF Positions
  <2> QED BY <1>3, <1>4, <1>5, <2>1, <2>2 DEF Passed
<1>7. CASE Wedge
  <2>1. pc = "wedge" /\ NextOfWedge
      BY <1>7 DEF Wedge
  <2>2. /\ row \in 0 .. Half - 1 /\ col \in row .. Half - 1
        /\ Input = InputAt(row, col)
        /\ Odd => newdata \in [0 .. Size * Size - 1 -> Pixels \union {Uninitialized}]
        /\ ~Odd => output_img \in ImagesOf(Size, Size)
      BY <1>7, WedgeHere
  <2>3. \A i \in 0 .. Size * Size - 1 :
            Square'[i] = IF i \in Mirrors(row, col) THEN InputAt(row, col) ELSE Square[i]
    <3>1. CASE Odd
        BY <1>3, <1>7, <2>2, <3>1 DEF Wedge, Written, Square
    <3>2. CASE ~Odd
        BY <1>3, <1>7, <2>2, <3>2 DEF Wedge, Written, Square, ImagesOf
    <3> QED BY <3>1, <3>2
  <2>4. ASSUME NEW x \in 0 .. Size - 1, NEW y \in 0 .. Size - 1,
               pc' # "wedge" \/ Passed(WedgeRow(x, y), WedgeCol(x, y))'
        PROVE  Made(x, y)'
    <3>1. x * Size + y \in 0 .. Size * Size - 1
        BY <1>3, IndexInRange
    <3>2. x * Size + y \in Mirrors(row, col) <=>
              WedgeRow(x, y) = row /\ WedgeCol(x, y) = col
        BY <1>3, <1>7, <2>2, WedgeHere, MirrorsRight
    <3>3. CASE WedgeRow(x, y) = row /\ WedgeCol(x, y) = col
        BY <1>3, <1>4, <2>3, <3>1, <3>2, <3>3 DEF FoldedAt
    <3>4. CASE ~(WedgeRow(x, y) = row /\ WedgeCol(x, y) = col)
      <4>1. \/ Passed(WedgeRow(x, y), WedgeCol(x, y))
            \/ WedgeRow(x, y) = row /\ WedgeCol(x, y) = col
        <5> DEFINE r == WedgeRow(x, y)
                   c == WedgeCol(x, y)
        <5>1. r \in 0 .. Half - 1 /\ c \in r .. Half - 1
            BY <1>5
        <5>2. r' = r /\ c' = c
            BY <1>4
        <5>3. pc' # "wedge" \/ r < row' \/ (r = row' /\ c < col')
            BY <2>4, <5>2 DEF Passed
        <5> HIDE DEF r, c
        <5>4. r < row \/ (r = row /\ c < col) \/ (r = row /\ c = col)
            BY <1>3, <2>1, <2>2, <5>1, <5>3 DEF NextOfWedge
        <5> QED BY <5>4 DEF r, c, Passed
      <4>2. Made(x, y)
          BY <1>1, <2>1, <3>4, <4>1 DEF WedgeDone
      <4> QED BY <1>3, <1>4, <2>3, <3>1, <3>2, <3>4, <4>2
    <3> QED BY <3>3, <3>4
  <2> HIDE DEF Made
  <2> QED BY <1>3, <2>4
<1>8. CASE Copy \/ UNCHANGED vars
  <2>1. /\ pc \in {"wedge", "copy", "write"} /\ (pc = "wedge" => UNCHANGED <<pc, row, col>>)
        /\ Square' = Square
    <3>1. CASE Copy
        BY <1>3, <3>1 DEF Copy, Square, Stages
    <3>2. CASE UNCHANGED vars
        BY <1>3, <3>2 DEF vars, position, Square
    <3> QED BY <1>8, <3>1, <3>2
  <2> QED BY <1>1, <1>3, <1>4, <2>1 DEF WedgeDone, Passed
<1> QED BY <1>1, <1>6, <1>7, <1>8, StageOrder
        DEF CreateOutput, StartPixels, Grayscale, Fade, Rgb, Exit, Goto, Stages

LEMMA CopyDoneStep ==
    ASSUME Stages, Positions, Outputs, WedgeDone, CopyDone, [Next]_vars
    PROVE  CopyDone'
<1> SUFFICES ASSUME pc' = "copy" \/ pc' = "write", transformation' = "kaleidoscope", Odd'
             PROVE  \A r \in 0 .. H' - 1, c \in 0 .. W' - 1 :
                        pc' = "write" \/ Passed(r, c)'
                        => PixelAt(output_img, r, c)' = FoldedAt(r, c)'
    BY DEF CopyDone
<1>1. transformation = "kaleidoscope"
    BY Kept
<1>2. pc # "read" /\ pc # "exited" /\ pc # "undefined"
    BY StageOrder
<1>3. /\ UNCHANGED <<input_img, W, H, Size>> /\ (Odd' <=> Odd)
      /\ W \in Nat /\ H \in Nat /\ Odd
    BY <1>2, Kept, Shapes
<1>4. \A r, c : /\ FoldedAt(r, c)' = FoldedAt(r, c)
                /\ PixelAt(output_img, r, c)' = PixelAt(output_img', r, c)
    BY <1>3 DEF WedgeRow, WedgeCol, Folded, FoldedAt, InputAt, PixelAt
<1>5. CASE Wedge
  <2>1. pc' = "copy" /\ row' = 0 /\ col' = 0
      BY <1>3, <1>5 DEF Wedge, NextOfWedge
  <2> QED BY <1>3, <2>1 DEF Passed
<1>6. CASE Copy
  <2>1. pc = "copy" /\ NextPixel /\ (LastPixel <=> pc' = "write")
      BY <1>6 DEF Copy, Continue, Goto
  <2>2. row \in 0 .. H - 1 /\ col \in 0 .. W - 1
      BY <1>6, CopyHere
  <2>3. \A r \in 0 .. H - 1, c \in 0 .. W - 1 :
            PixelAt(output_img', r, c) = IF r = row /\ c = col THEN FoldedAt(row, col)
                                         ELSE PixelAt(output_img, r, c)
      BY <1>3, <1>6, <2>2, CopyHere, PixelStep
  <2>4. ASSUME NEW r \in 0 .. H - 1, NEW c \in 0 .. W - 1,
               pc' = "write" \/ Passed(r, c)', ~(r = row /\ c = col)
        PROVE  PixelAt(output_img, r, c) = FoldedAt(r, c)
    <3>1. Passed(r, c)
        BY <1>3, <2>1, <2>2, <2>4, PassedNext
    <3> QED BY <1>1, <1>3, <2>1, <3>1 DEF CopyDone
  <2> QED BY <1>3, <1>4, <2>3, <2>4
<1>7. CASE UNCHANGED vars
  <2>1. UNCHANGED <<pc, output_img, row, col>>
      BY <1>7 DEF vars, position
  <2> QED BY <1>1, <1>3, <1>4, <2>1 DEF CopyDone, Passed
<1> QED BY <1>1, <1>5, <1>6, <1>7, StageOrder
        DEF CreateOutput, StartPixels, Grayscale, Fade, Rgb, StartKaleidoscope, Exit, Goto,
            Stages

\* Where the program is, how large its images are and how far its loops have come is
\* always what ImgProcInv says of it.
THEOREM ImgProcInvariant == Spec => []ImgProcInv
<1>1. Init => ImgProcInv
    BY InitHolds
<1>2. ImgProcInv /\ [Next]_vars => ImgProcInv'
    BY StagesStep, PositionsStep, OutputsStep, CountedStep, FadeDoneStep, RgbDoneStep,
       WedgeDoneStep, CopyDoneStep DEF ImgProcInv
<1> QED BY <1>1, <1>2, PTL DEF Spec
-----------------------------------------------------------------------------
(* What the invariant says                                                 *)

\* No component of a pixel spills into its neighbour where make_pixel puts them
\* together, and the output that is written has no pixel that nobody has written.
THEOREM PixelsFit == Spec => []TypeOK
<1>1. ImgProcInv => TypeOK
  <2> SUFFICES ASSUME Stages, Positions, Outputs PROVE TypeOK
      BY DEF ImgProcInv
  <2>1. input_img \in Images
    <3>1. png \in Pngs /\ (input_img = NoImage \/ input_img = Decoded(png))
        BY DEF Stages, Over
    <3> QED BY <3>1 DEF Images
  <2>2. HasPixels(output_img)
    <3>1. HasPixels(NoImage)
        BY DEF HasPixels, NoImage
    <3>2. pc \in {"read", "create"} \/ Over \/ Working
        BY DEF Stages, Working, Over
    <3> QED BY <3>1, <3>2, ImagesHavePixels DEF Outputs
  <2> QED BY <2>1, <2>2 DEF TypeOK, Stages, Positions, Outputs
<1> QED BY <1>1, ImgProcInvariant, PTL

\* No loop reads or writes outside of an image, for any size and any width of int32_t
\* (compute_index and the sums of imgproc_kaleidoscope): the image for which an index
\* would wrap is not made, as its number of pixels is negative (img_init).  What is
\* left are the buffers of the PNG library, for an image of the stated size.
THEOREM NoIndexIsOutside == Spec => []IndexesInBounds
<1>1. ImgProcInv => IndexesInBounds
  <2> SUFFICES ASSUME Stages, Positions, Outputs, Counted PROVE IndexesInBounds
      BY DEF ImgProcInv
  <2>1. ASSUME pc \in {"pixels", "wedge", "copy"}
        PROVE  /\ row \in 0 .. H - 1 /\ col \in 0 .. W - 1
               /\ Index(W, col, row) \in DOMAIN input_img.data
    <3>1. /\ input_img = Decoded(png) /\ W \in Nat \ {0} /\ H \in Nat \ {0}
          /\ Half \in Nat \ {0} /\ Half <= W
        BY <2>1, Shapes
    <3>2. pc = "wedge" => W = H
        BY DEF Stages
    <3>3. row \in 0 .. H - 1 /\ col \in 0 .. W - 1
        BY <2>1, <3>1, <3>2 DEF Positions
    <3>4. W * H <= IntMax + 1
        BY <2>1, InputIsCounted, IntAssumption
    <3>5. Index(W, col, row) \in 0 .. W * H - 1
        BY <3>1, <3>3, <3>4, IndexIs
    <3> QED BY <3>1, <3>3, <3>5, DecodedIsImage
  <2>2. ASSUME pc = "pixels", transformation = "rgb"
        PROVE  Place(quadrant) \in DOMAIN output_img.data
    <3>1. output_img \in ImagesOf(2 * W, 2 * H)
        BY <2>2 DEF Outputs, Working, Times
    <3>2. output_img.width = 2 * W /\ DOMAIN output_img.data = 0 .. (2 * W) * (2 * H) - 1
        BY <3>1 DEF ImagesOf
    <3>3. PlaceAt(quadrant, row, col) \in 0 .. (2 * W) * (2 * H) - 1
        BY <2>1, <2>2, <3>2, Shapes, PlaceInRange
    <3>4. (2 * W) * (2 * H) <= IntMax
        BY <2>2 DEF Counted, Working, Times
    <3>5. Place(quadrant) = PlaceAt(quadrant, row, col)
        BY <2>2, <3>3, <3>4, Shapes, PlaceIs
    <3> QED BY <3>2, <3>3, <3>5
  <2>3. ASSUME pc = "wedge"
        PROVE  Mirrors(row, col) \subseteq
                   IF Odd THEN DOMAIN newdata ELSE DOMAIN output_img.data
    <3>1. Mirrors(row, col) \subseteq 0 .. Size * Size - 1
      <4>1. W = H
          BY <2>3 DEF Stages
      <4>2. Size * Size <= IntMax + 1
          BY <2>3, <4>1, InputIsCounted
      <4> QED BY <2>3, <4>2, Shapes, MirrorsRight DEF Positions
    <3>2. CASE Odd
        BY <2>3, <3>1, <3>2 DEF Outputs
    <3>3. CASE ~Odd
      <4>1. /\ transformation = "kaleidoscope" /\ W = H /\ W \in Nat /\ Size = W
          BY <2>3, <3>3, Shapes DEF Stages
      <4>2. output_img \in ImagesOf(Times * W, Times * H) /\ Times = 1
          BY <2>3, <4>1 DEF Outputs, Working, Times
      <4>3. output_img \in ImagesOf(Size, Size)
          BY <4>1, <4>2
      <4> QED BY <3>1, <3>3, <4>3 DEF ImagesOf
    <3> QED BY <3>2, <3>3
  <2>4. ASSUME pc = "copy" PROVE Index(Size, col, row) \in DOMAIN newdata
    <3>1. /\ W = H /\ Odd
        BY <2>4 DEF Stages
    <3>2. row \in 0 .. Size - 1 /\ col \in 0 .. Size - 1 /\ Size \in Nat
        BY <2>1, <2>4, <3>1, Shapes
    <3>3. Size * Size <= IntMax + 1
        BY <2>4, <3>1, InputIsCounted
    <3>4. Index(Size, col, row) \in 0 .. Size * Size - 1
        BY <3>2, <3>3, IndexIs
    <3> QED BY <2>4, <3>1, <3>4 DEF Outputs
  <2>5. pc = "undefined" => LineBytes(2 * png.width, 2 * png.height, 4) > UintMax
      BY DEF Stages
  <2> QED BY <2>1, <2>2, <2>3, <2>4, <2>5 DEF IndexesInBounds, W
<1> QED BY <1>1, ImgProcInvariant, PTL

\* main reports success only for a transformation that it knows and that the input
\* allows, of which it has begun to write the output, and writes a whole file only to
\* report success; that every success is a whole file is not true of the code.
THEOREM SuccessIsHonest == Spec => []SuccessMeansWritten
<1>1. ImgProcInv => SuccessMeansWritten
    BY DEF ImgProcInv, Stages, Allowed, Known, SuccessMeansWritten, W, H
<1> QED BY <1>1, ImgProcInvariant, PTL

\* imgproc_rgb: the four quadrants show the image and its red, green and blue part.
THEOREM QuadrantsAreRight == Spec => []RgbIsQuadrants
<1>1. ImgProcInv => RgbIsQuadrants
  <2> SUFFICES ASSUME Stages, Outputs, RgbDone, pc = "write", transformation = "rgb",
                      NEW r \in Rows(output_img), NEW c \in Columns(output_img)
               PROVE  LET below == r >= input_img.height
                          right == c >= input_img.width
                          in    == PixelAt(input_img, r % input_img.height,
                                                      c % input_img.width)
                          out   == PixelAt(output_img, r, c)
                      IN  /\ out.r = IF below THEN 0 ELSE in.r
                          /\ out.g = IF right THEN 0 ELSE in.g
                          /\ out.b = IF right # below THEN 0 ELSE in.b
                          /\ out.a = in.a
      BY DEF ImgProcInv, RgbIsQuadrants, Transformed
  <2>1. W \in Nat \ {0} /\ H \in Nat \ {0}
      BY Shapes
  <2>2. output_img.width = 2 * W /\ output_img.height = 2 * H
      BY DEF Outputs, Working, Times, ImagesOf
  <2>3. r \in 0 .. 2 * H - 1 /\ c \in 0 .. 2 * W - 1
      BY <2>2 DEF Rows, Columns
  <2> DEFINE below == r >= H
             right == c >= W
             q == IF below THEN IF right THEN "D" ELSE "C"
                           ELSE IF right THEN "B" ELSE "A"
             rr == IF below THEN r - H ELSE r
             cc == IF right THEN c - W ELSE c
  <2>4. r % H = rr /\ c % W = cc
    <3>1. r \in Nat /\ c \in Nat /\ r < 2 * H /\ c < 2 * W
        BY <2>1, <2>3
    <3>2. r < H => r % H = r
        BY <2>1, <3>1, Remainder
    <3>3. H <= r => r % H = r - H
        BY <2>1, <3>1, Remainder
    <3>4. c < W => c % W = c
        BY <2>1, <3>1, Remainder
    <3>5. W <= c => c % W = c - W
        BY <2>1, <3>1, Remainder
    <3> QED BY <2>1, <3>1, <3>2, <3>3, <3>4, <3>5
  <2>5. rr \in 0 .. H - 1 /\ cc \in 0 .. W - 1
      BY <2>1, <2>3
  <2>6. PlaceAt(q, rr, cc) = r * output_img.width + c
      BY <2>1, <2>2, <2>3 DEF PlaceAt
  <2>7. output_img.data[PlaceAt(q, rr, cc)] = Channel(InputAt(rr, cc), q)
      BY <2>5 DEF RgbDone
  <2>8. PixelAt(output_img, r, c) = Channel(PixelAt(input_img, r % H, c % W), q)
      BY <2>4, <2>6, <2>7 DEF PixelAt, InputAt
  <2> HIDE DEF rr, cc
  <2> QED BY <2>8 DEF Channel, MakePixel, W, H
<1> QED BY <1>1, ImgProcInvariant, PTL

\* imgproc_kaleidoscope: wedge A stays as it is, and the image is symmetrical across
\* the diagonal, and across all four lines if its size is even.
THEOREM KaleidoscopeIsRight == Spec => []KaleidoscopeIsSymmetric
<1>1. ImgProcInv => KaleidoscopeIsSymmetric
  <2> SUFFICES ASSUME Stages, Outputs, WedgeDone, CopyDone,
                      pc = "write", transformation = "kaleidoscope"
               PROVE  KaleidoscopeIsSymmetric
      BY DEF ImgProcInv, KaleidoscopeIsSymmetric, Transformed
  <2>1. /\ W \in Nat \ {0} /\ H \in Nat \ {0} /\ Size \in Nat
        /\ Size = W \/ Size = W + 1
        /\ ~Odd => Size = W
        /\ W = H
      BY Shapes DEF Stages, Allowed, Known
  <2>2. output_img.width = W /\ output_img.height = W
      BY <2>1 DEF Outputs, Working, Times, ImagesOf
  <2>3. Rows(output_img) = 0 .. W - 1 /\ Columns(output_img) = 0 .. W - 1
      BY <2>2 DEF Rows, Columns
  <2>4. ASSUME NEW r \in 0 .. W - 1, NEW c \in 0 .. W - 1
        PROVE  PixelAt(output_img, r, c) = FoldedAt(r, c)
    <3>1. CASE Odd
        BY <2>1, <3>1 DEF CopyDone
    <3>2. CASE ~Odd
      <4>1. r \in 0 .. Size - 1 /\ c \in 0 .. Size - 1
          BY <2>1, <3>2
      <4>2. output_img.data[r * Size + c] = FoldedAt(r, c)
          BY <3>2, <4>1 DEF WedgeDone, Square
      <4> QED BY <2>1, <2>2, <3>2, <4>2 DEF PixelAt
    <3> QED BY <3>1, <3>2
  <2>5. ASSUME NEW r \in 0 .. W - 1, NEW c \in 0 .. W - 1
        PROVE  /\ r <= c /\ 2 * c <= W - 1 =>
                      PixelAt(output_img, r, c) = PixelAt(input_img, r, c)
               /\ PixelAt(output_img, r, c) = PixelAt(output_img, c, r)
    <3>1. /\ WedgeRow(r, c) = WedgeRow(c, r) /\ WedgeCol(r, c) = WedgeCol(c, r)
      <4>1. Folded(r) \in Int /\ Folded(c) \in Int
          BY <2>1 DEF Folded
      <4> QED BY <4>1 DEF WedgeRow, WedgeCol
    <3>2. FoldedAt(r, c) = FoldedAt(c, r)
        BY <3>1 DEF FoldedAt
    <3>3. ASSUME r <= c, 2 * c <= W - 1
          PROVE  FoldedAt(r, c) = InputAt(r, c)
      <4>1. Folded(r) = r /\ Folded(c) = c
          BY <2>1, <3>3 DEF Folded
      <4> QED BY <3>3, <4>1 DEF FoldedAt, WedgeRow, WedgeCol
    <3> QED BY <2>4, <3>2, <3>3 DEF InputAt
  <2>6. ASSUME W % 2 = 0, NEW r \in 0 .. W - 1, NEW c \in 0 .. W - 1
        PROVE  /\ PixelAt(output_img, r, c) = PixelAt(output_img, r, W - 1 - c)
               /\ PixelAt(output_img, r, c) = PixelAt(output_img, W - 1 - r, c)
    <3>1. ~Odd /\ Size = W
        BY <2>1, <2>6 DEF Odd, W
    <3>2. Folded(W - 1 - c) = Folded(c) /\ Folded(W - 1 - r) = Folded(r)
        BY <2>1, <3>1 DEF Folded
    <3>3. /\ FoldedAt(r, W - 1 - c) = FoldedAt(r, c)
          /\ FoldedAt(W - 1 - r, c) = FoldedAt(r, c)
        BY <3>2 DEF FoldedAt, WedgeRow, WedgeCol
    <3>4. W - 1 - c \in 0 .. W - 1 /\ W - 1 - r \in 0 .. W - 1
        BY <2>1
    <3> QED BY <2>4, <3>3, <3>4
  <2> QED BY <2>2, <2>3, <2>5, <2>6 DEF KaleidoscopeIsSymmetric
<1> QED BY <1>1, ImgProcInvariant, PTL

\* imgproc_fade: the upper and the left edge are black, no pixel gets brighter, of two
\* that were alike the one nearer to the middle is the brighter one, and the middle of
\* an image of even size stays as it is.
THEOREM FadeIsRight == Spec => []FadesTowardsEdges
<1>1. ImgProcInv => FadesTowardsEdges
  <2> SUFFICES ASSUME Stages, Outputs, FadeDone, pc = "write", transformation = "fade"
               PROVE  FadesTowardsEdges
      BY DEF ImgProcInv, FadesTowardsEdges, Transformed
  <2>1. input_img = Decoded(png) /\ W \in Nat \ {0} /\ H \in Nat \ {0}
      BY Shapes
  <2>2. ASSUME NEW r \in 0 .. H - 1, NEW c \in 0 .. W - 1
        PROVE  /\ PixelAt(output_img, r, c) = FadedAt(r, c)
               /\ InputAt(r, c) \in Pixels
               /\ Gradient(r, H) \in 0 .. FullGradient
               /\ Gradient(c, W) \in 0 .. FullGradient
               /\ r = 0 => Gradient(r, H) = 0
               /\ c = 0 => Gradient(c, W) = 0
               /\ 2 * r = H => Gradient(r, H) = FullGradient
               /\ 2 * c = W => Gradient(c, W) = FullGradient
      BY <2>1, <2>2, InputIsPixel, GradientRange DEF FadeDone
  <2>3. ASSUME NEW r \in 0 .. H - 1, NEW c \in 0 .. W - 1
        PROVE  /\ Dimmer(PixelAt(output_img, r, c), InputAt(r, c))
               /\ r = 0 \/ c = 0 =>
                      PixelAt(output_img, r, c) = MakePixel(0, 0, 0, InputAt(r, c).a)
               /\ 2 * r = H /\ 2 * c = W => PixelAt(output_img, r, c) = InputAt(r, c)
    <3> DEFINE g == Gradient(r, H)
               h == Gradient(c, W)
               p == InputAt(r, c)
    <3>1. /\ PixelAt(output_img, r, c) = ToFade(g, h, p)
          /\ p \in Pixels /\ g \in 0 .. FullGradient /\ h \in 0 .. FullGradient
          /\ (r = 0 => g = 0) /\ (c = 0 => h = 0)
          /\ (2 * r = H => g = FullGradient) /\ (2 * c = W => h = FullGradient)
        BY <2>2 DEF FadedAt
    <3> HIDE DEF g, h, p
    <3>2. /\ Dimmer(ToFade(g, h, p), p)
          /\ g = 0 \/ h = 0 => ToFade(g, h, p) = MakePixel(0, 0, 0, p.a)
          /\ g = FullGradient /\ h = FullGradient => ToFade(g, h, p) = p
        BY <3>1, ToFadeRange
    <3> QED BY <3>1, <3>2 DEF p
  <2>4. ASSUME NEW r \in 0 .. H - 1, NEW c \in 0 .. W - 1,
               NEW q \in 0 .. H - 1, NEW d \in 0 .. W - 1,
               q <= r, 2 * r <= H, d <= c, 2 * c <= W, InputAt(q, d) = InputAt(r, c)
        PROVE  Dimmer(PixelAt(output_img, q, d), PixelAt(output_img, r, c))
    <3>1. Gradient(q, H) <= Gradient(r, H) /\ Gradient(d, W) <= Gradient(c, W)
        BY <2>1, <2>4, GradientMonotone
    <3>2. Dimmer(FadedAt(q, d), FadedAt(r, c))
        BY <2>2, <2>4, <3>1, ToFadeMonotone DEF FadedAt
    <3> QED BY <2>2, <3>2
  <2>5. Rows(input_img) = 0 .. H - 1 /\ Columns(input_img) = 0 .. W - 1
      BY DEF Rows, Columns, W, H
  <2> QED BY <2>3, <2>4, <2>5 DEF FadesTowardsEdges, InputAt, W, H
<1> QED BY <1>1, ImgProcInvariant, PTL
=============================================================================
