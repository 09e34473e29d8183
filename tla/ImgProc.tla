------------------------------- MODULE ImgProc -------------------------------
(***************************************************************************)
(* The image program of csf_assign02: main reads a PNG file, makes an      *)
(* output image, applies a transformation to it, and writes it.            *)
(*                                                                         *)
(* An image is a record whose data is a function on indexes, as in struct  *)
(* Image, and each iteration of a transformation's loops is a step.  A     *)
(* pixel is a record of its components; that none of them spills into its  *)
(* neighbour, where make_pixel puts them together, is a part of TypeOK.    *)
(* The gradients of imgproc_fade are fixed-point numbers: GradientScale is *)
(* 1000 in the code.                                                       *)
(*                                                                         *)
(* Numbers of pixels, and the indexes made of rows and columns, are        *)
(* int32_t and wrap (the program is built without optimization): IntMax is *)
(* 2^31 - 1 in the code.  The PNG library counts bytes as unsigned.  When  *)
(* a count that wraps makes a buffer smaller than what is put into it, pc  *)
(* is "undefined": nothing is said of what the program does then.          *)
(***************************************************************************)
EXTENDS Integers

CONSTANTS Pngs,            \* the PNG files that may be read
          Transformations, \* the first command line arguments
          GradientScale,
          IntMax           \* the largest int32_t

Components == 0 .. 255
Pixels == [r : Components, g : Components, b : Components, a : Components]

\* Images are not empty.
ASSUME PngsAssumption ==
    \A png \in Pngs :
        /\ png.width \in Nat \ {0} /\ png.height \in Nat \ {0}
        /\ png.data \in [0 .. png.width * png.height - 1 -> Pixels]
        /\ png.color_type \in {"truecolor", "truecolor_alpha", "other"}
ASSUME ScaleAssumption == GradientScale \in Nat \ {0}
ASSUME IntAssumption == IntMax \in Nat /\ IntMax >= 3

VARIABLES png,            \* the input file
          transformation,
          pc,             \* where main is
          input_img, output_img,
          newdata,        \* scratch pixels of imgproc_kaleidoscope
          quadrant,       \* of imgproc_rgb
          row, col,
          output_file,    \* "none", "broken" or "complete"
          exit_status

files == <<png, output_file>>
position == <<quadrant, row, col>>
vars == <<files, transformation, pc, input_img, output_img, newdata, position,
          exit_status>>

NoImage == [width |-> 0, height |-> 0, data |-> <<>>]

Init == /\ png \in Pngs
        /\ transformation \in Transformations
        /\ pc = "read"
        /\ input_img = NoImage /\ output_img = NoImage /\ newdata = <<>>
        /\ quadrant = "A" /\ row = 0 /\ col = 0
        /\ output_file = "none"
        /\ exit_status = -1

Exit(code) == pc' = "exited" /\ exit_status' = code

\* Killed by SIGSEGV: memory that could not be allocated is used.
Segfault == Exit(139)

Goto(label) == pc' = label /\ UNCHANGED exit_status

\* What is left of n in an int32_t.
Wrapped(n) == ((n + IntMax + 1) % (2 * IntMax + 2)) - IntMax - 1

\* The largest unsigned.
UintMax == 2 * IntMax + 1
-----------------------------------------------------------------------------
(* main up to the transformation                                           *)

MakePixel(r, g, b, a) == [r |-> r, g |-> g, b |-> b, a |-> a]

\* Opaque black.
InitialPixel == MakePixel(0, 0, 0, 255)

\* The lines of a PNG image, of so many bytes a pixel, each after its filter byte.
LineBytes(width, height, bytes) == bytes * width * height + height

\* img_init, where the number of pixels is a number of bytes to ask for if it is
\* not negative, and more than there can be if it is.
PixelCount(width, height) == Wrapped(width * height)

NewImage(width, height) ==
    [width |-> width, height |-> height,
     data |-> [i \in 0 .. PixelCount(width, height) - 1 |-> InitialPixel]]

\* img_read: pixels without alpha become opaque.
Decoded(file) ==
    [width |-> file.width, height |-> file.height,
     data |-> [i \in DOMAIN file.data |->
                  IF file.color_type = "truecolor"
                  THEN [file.data[i] EXCEPT !.a = 255]
                  ELSE file.data[i]]]

\* No count of img_read or of the library wraps.
Fits(file) ==
    LET pixels == file.width * file.height
    IN  /\ pixels <= IntMax
        /\ \/ /\ file.color_type = "truecolor"
              /\ 3 * pixels <= IntMax
              /\ LineBytes(file.width, file.height, 3) <= UintMax
           \/ /\ file.color_type = "truecolor_alpha"
              /\ LineBytes(file.width, file.height, 4) <= UintMax

\* The file cannot be read, or has another kind of pixels; img_read does not look
\* whether it got its memory.
ReadInput ==
    /\ pc = "read"
    /\ \/ Exit(1) /\ UNCHANGED input_img
       \/ png.color_type # "other" /\ Segfault /\ UNCHANGED input_img
       \/ /\ png.color_type # "other" /\ ~Fits(png)
          /\ Goto("undefined")
          /\ UNCHANGED input_img
       \/ /\ Fits(png)
          /\ input_img' = Decoded(png)
          /\ Goto("create")
    /\ UNCHANGED <<files, transformation, output_img, newdata, position>>

\* create_output_img, which may find no memory
CreateOutput ==
    /\ pc = "create"
    /\ LET times == IF transformation = "rgb" THEN 2 ELSE 1
           out_w == Wrapped(times * input_img.width)
           out_h == Wrapped(times * input_img.height)
       IN  \/ Exit(1) /\ UNCHANGED output_img
           \/ /\ PixelCount(out_w, out_h) >= 0
              /\ output_img' = NewImage(out_w, out_h)
              /\ Goto("apply")
    /\ UNCHANGED <<files, transformation, input_img, newdata, position>>

\* Mutant: that there is no such transformation is only printed.
WriteUnknown ==
    /\ pc = "apply"
    /\ transformation = "kaleidoscope" => input_img.width # input_img.height
    /\ transformation \notin {"rgb", "grayscale", "fade"}
    /\ IF transformation = "kaleidoscope" THEN Exit(1) ELSE Goto("write")
    /\ UNCHANGED <<files, transformation, input_img, output_img, newdata, position>>

\* An unknown transformation, or an image that is not square for kaleidoscope.
Refuse ==
    /\ pc = "apply"
    /\ transformation = "kaleidoscope" => input_img.width # input_img.height
    /\ transformation \notin {"rgb", "grayscale", "fade"}
    /\ Exit(1)
    /\ UNCHANGED <<files, transformation, input_img, output_img, newdata, position>>

StartPixels ==
    /\ pc = "apply"
    /\ transformation \in {"rgb", "grayscale", "fade"}
    /\ Goto("pixels")
    /\ UNCHANGED <<files, transformation, input_img, output_img, newdata, position>>
-----------------------------------------------------------------------------
(* imgproc_grayscale, imgproc_rgb, imgproc_fade                            *)

\* compute_index
Index(width, c, r) == Wrapped(r * width + c)

Input == input_img.data[Index(input_img.width, col, row)]

SetOutput(i, pixel) == output_img' = [output_img EXCEPT !.data[i] = pixel]

\* The next row and column of the input; after the last, back to the first.
LastPixel == col + 1 = input_img.width /\ row + 1 = input_img.height

NextPixel ==
    \/ /\ col + 1 < input_img.width
       /\ col' = col + 1 /\ row' = row
    \/ /\ col + 1 = input_img.width /\ row + 1 < input_img.height
       /\ col' = 0 /\ row' = row + 1
    \/ LastPixel /\ col' = 0 /\ row' = 0

\* The loops go on, or end and the output is complete.
Continue ==
    /\ NextPixel
    /\ IF LastPixel THEN Goto("write") ELSE UNCHANGED <<pc, exit_status>>

\* Mutant: the weights add up to more than 256.
Heavier(p) == LET y == (81 * p.r + 128 * p.g + 49 * p.b) \div 256
              IN  MakePixel(y, y, y, p.a)

ToGrayscale(p) == LET y == (79 * p.r + 128 * p.g + 49 * p.b) \div 256
                  IN  MakePixel(y, y, y, p.a)

Grayscale ==
    /\ pc = "pixels" /\ transformation = "grayscale"
    /\ SetOutput(Index(output_img.width, col, row), ToGrayscale(Input))
    /\ Continue
    /\ UNCHANGED <<files, transformation, input_img, newdata, quadrant>>

\* The quadrant's part of the colours.
Channel(p, q) ==
    MakePixel(IF q \in {"A", "B"} THEN p.r ELSE 0,
              IF q \in {"A", "C"} THEN p.g ELSE 0,
              IF q \in {"A", "D"} THEN p.b ELSE 0,
              p.a)

\* Mutant: the output's rows are taken to be as long as the input's.
PlaceInShortRows(q) ==
    Index(input_img.width,
          col + (IF q \in {"B", "D"} THEN input_img.width ELSE 0),
          row + (IF q \in {"C", "D"} THEN input_img.height ELSE 0))

Place(q) == Index(output_img.width,
                  col + (IF q \in {"B", "D"} THEN input_img.width ELSE 0),
                  row + (IF q \in {"C", "D"} THEN input_img.height ELSE 0))

\* The four passes.
NextQuadrant ==
    /\ NextPixel
    /\ \/ ~LastPixel /\ UNCHANGED <<pc, exit_status, quadrant>>
       \/ /\ LastPixel /\ quadrant # "D"
          /\ quadrant' = CASE quadrant = "A" -> "B" [] quadrant = "B" -> "C"
                           [] quadrant = "C" -> "D"
          /\ UNCHANGED <<pc, exit_status>>
       \/ LastPixel /\ quadrant = "D" /\ Goto("write") /\ UNCHANGED quadrant

Rgb ==
    /\ pc = "pixels" /\ transformation = "rgb"
    /\ SetOutput(Place(quadrant), Channel(Input, quadrant))
    /\ NextQuadrant
    /\ UNCHANGED <<files, transformation, input_img, newdata>>

\* The gradient in the middle: 1000000 in the code.
FullGradient == GradientScale * GradientScale

\* Mutant: the gradient is not centred.
Uncentred(x, max) ==
    LET temp == (2 * GradientScale * x) \div max
    IN  FullGradient - temp * temp

\* 0 at the edge and FullGradient in the middle.
Gradient(x, max) ==
    LET temp == (2 * GradientScale * x) \div max - GradientScale
    IN  FullGradient - temp * temp

ToFade(gradrow, gradcol, p) ==
    LET Faded(c) == (gradcol * gradrow * c) \div (FullGradient * FullGradient)
    IN  MakePixel(Faded(p.r), Faded(p.g), Faded(p.b), p.a)

Fade ==
    /\ pc = "pixels" /\ transformation = "fade"
    /\ SetOutput(Index(output_img.width, col, row),
                 ToFade(Gradient(row, input_img.height),
                        Gradient(col, input_img.width), Input))
    /\ Continue
    /\ UNCHANGED <<files, transformation, input_img, newdata, quadrant>>
-----------------------------------------------------------------------------
(* imgproc_kaleidoscope: an image of odd size is made in newdata, one row  *)
(* and one column larger, and copied.                                      *)

Odd == input_img.width % 2 = 1
Size == IF Odd THEN input_img.width + 1 ELSE input_img.width

\* Mutant: the size is rounded up a second time.
HalfAndMore == Size \div 2 + 1

Half == Size \div 2

\* malloc's memory has any content.
Uninitialized == MakePixel(-1, -1, -1, -1)

\* A second img_init makes the output black, which it is already.
StartKaleidoscope ==
    /\ pc = "apply" /\ transformation = "kaleidoscope"
    /\ input_img.width = input_img.height
    /\ \/ Odd /\ Exit(1) /\ UNCHANGED newdata
       \/ /\ newdata' = IF Odd THEN [i \in 0 .. Size * Size - 1 |-> Uninitialized]
                        ELSE newdata
          /\ Goto("wedge")
    /\ UNCHANGED <<files, transformation, input_img, output_img, position>>

\* Mutant: the wedges below the middle are not mirrored.
SumsAbove(r, c) ==
    {r * Size + c, c * Size + r,
     r * Size + Size - c - 1, c * Size + Size - r - 1,
     (Size - r - 1) * Size + c, (Size - c - 1) * Size + r}

\* Where the pixel of wedge A at row r and column c goes.
MirrorSums(r, c) ==
    {r * Size + c, c * Size + r,
     r * Size + Size - c - 1, c * Size + Size - r - 1,
     (Size - r - 1) * Size + c, (Size - c - 1) * Size + r,
     (Size - r - 1) * Size + Size - c - 1, (Size - c - 1) * Size + Size - r - 1}

Mirrors(r, c) == {Wrapped(sum) : sum \in MirrorSums(r, c)}

Written(data, places, pixel) ==
    [i \in DOMAIN data |-> IF i \in places THEN pixel ELSE data[i]]

\* Columns start at the diagonal.
NextOfWedge ==
    \/ /\ col + 1 < Half
       /\ col' = col + 1
       /\ UNCHANGED <<pc, row>>
    \/ /\ col + 1 = Half /\ row + 1 < Half
       /\ col' = row + 1 /\ row' = row + 1
       /\ UNCHANGED pc
    \/ /\ col + 1 = Half /\ row + 1 = Half
       /\ col' = 0 /\ row' = 0
       /\ pc' = IF Odd THEN "copy" ELSE "write"

Wedge ==
    /\ pc = "wedge"
    /\ \/ /\ Odd
          /\ newdata' = Written(newdata, Mirrors(row, col), Input)
          /\ UNCHANGED output_img
       \/ /\ ~Odd
          /\ output_img' = [output_img EXCEPT !.data =
                               Written(@, Mirrors(row, col), Input)]
          /\ UNCHANGED newdata
    /\ NextOfWedge
    /\ UNCHANGED <<files, transformation, input_img, quadrant, exit_status>>

Copy ==
    /\ pc = "copy"
    /\ SetOutput(Index(output_img.width, col, row), newdata[Index(Size, col, row)])
    /\ Continue
    /\ UNCHANGED <<files, transformation, input_img, newdata, quadrant>>
-----------------------------------------------------------------------------
(* The end of main                                                         *)

\* img_write: a file that cannot be opened, or no memory for the swapped bytes, is
\* an error.  The library looks neither at its memory nor at what its writes and
\* the close return, and png_set_data always reports success.
WriteOutput ==
    /\ pc = "write"
    /\ LET fits == LineBytes(output_img.width, output_img.height, 4) <= UintMax
       IN  \/ output_file' \in {"none", "broken"} /\ Exit(1)
           \/ output_file' = "broken" /\ Segfault
           \/ ~fits /\ output_file' = "broken" /\ Goto("undefined")
           \/ fits /\ output_file' \in {"broken", "complete"} /\ Exit(0)
    /\ UNCHANGED <<png, transformation, input_img, output_img, newdata, position>>

Exited == pc \in {"exited", "undefined"} /\ UNCHANGED vars

Next == \/ ReadInput \/ CreateOutput \/ Refuse
        \/ StartPixels \/ Grayscale \/ Rgb \/ Fade
        \/ StartKaleidoscope \/ Wedge \/ Copy
        \/ WriteOutput \/ Exited

Spec == Init /\ [][Next]_vars
-----------------------------------------------------------------------------
Images == {NoImage} \union
          {Decoded(file) : file \in Pngs}

HasPixels(img) == \A i \in DOMAIN img.data : img.data[i] \in Pixels

\* The type of every variable: no component of a pixel exceeds its eight bits.
TypeOK ==
    /\ png \in Pngs /\ transformation \in Transformations
    /\ pc \in {"read", "create", "apply", "pixels", "wedge", "copy", "write",
               "exited", "undefined"}
    /\ input_img \in Images
    /\ HasPixels(output_img)
    /\ \A i \in DOMAIN newdata : newdata[i] \in Pixels \union {Uninitialized}
    /\ quadrant \in {"A", "B", "C", "D"} /\ row \in Nat /\ col \in Nat
    /\ output_file \in {"none", "broken", "complete"}
    /\ exit_status \in {-1, 0, 1, 139}

\* No loop reads or writes outside of an image, odd or even, for any size: an image
\* for which an index would wrap (compute_index, the sums of imgproc_kaleidoscope)
\* is not made.  The PNG library's buffers are left only for an image so large that
\* four times its pixels, at four bytes each, are more than an unsigned counts.
IndexesInBounds ==
    /\ pc \in {"pixels", "wedge", "copy"} =>
           Index(input_img.width, col, row) \in DOMAIN input_img.data
    /\ pc = "pixels" /\ transformation = "rgb" =>
           Place(quadrant) \in DOMAIN output_img.data
    /\ pc = "wedge" =>
           Mirrors(row, col) \subseteq
               IF Odd THEN DOMAIN newdata ELSE DOMAIN output_img.data
    /\ pc = "copy" => Index(Size, col, row) \in DOMAIN newdata
    /\ pc = "undefined" =>
           LineBytes(2 * png.width, 2 * png.height, 4) > UintMax

\* The pixels of an image, by row and column.
PixelAt(img, r, c) == img.data[r * img.width + c]
Rows(img) == 0 .. img.height - 1
Columns(img) == 0 .. img.width - 1

Transformed(t) == pc = "write" /\ transformation = t

\* imgproc_rgb: "A is an exact copy of the original input image.  B has only the
\* red color component values", C the green and D the blue ones, with the same
\* alpha values.
RgbIsQuadrants ==
    Transformed("rgb") =>
        \A r \in Rows(output_img), c \in Columns(output_img) :
            LET below == r >= input_img.height
                right == c >= input_img.width
                in    == PixelAt(input_img, r % input_img.height,
                                            c % input_img.width)
                out   == PixelAt(output_img, r, c)
            IN  /\ out.r = IF below THEN 0 ELSE in.r
                /\ out.g = IF right THEN 0 ELSE in.g
                /\ out.b = IF right # below THEN 0 ELSE in.b
                /\ out.a = in.a

\* imgproc_kaleidoscope: wedge A is that of the input, and the image is symmetrical
\* across the diagonal that bounds it; if its size is even, across the vertical and
\* the horizontal line too, and so across the other diagonal.  "Symmetrical across
\* all four lines" (imgproc.h:97-99) does not hold of the code if the size is odd.
KaleidoscopeIsSymmetric ==
    Transformed("kaleidoscope") =>
        \A r \in Rows(output_img), c \in Columns(output_img) :
            LET out  == PixelAt(output_img, r, c)
                last == output_img.width - 1
            IN  /\ r <= c /\ 2 * c <= last => out = PixelAt(input_img, r, c)
                /\ out = PixelAt(output_img, c, r)
                /\ output_img.width % 2 = 0 =>
                       /\ out = PixelAt(output_img, r, last - c)
                       /\ out = PixelAt(output_img, last - r, c)

Dimmer(p, q) == p.r <= q.r /\ p.g <= q.g /\ p.b <= q.b /\ p.a = q.a

\* imgproc_fade: the upper and the left edge are black, no pixel gets brighter, and
\* of two that were alike the one nearer to the middle is the brighter one.
FadesTowardsEdges ==
    Transformed("fade") =>
        \A r \in Rows(input_img), c \in Columns(input_img) :
            LET in  == PixelAt(input_img, r, c)
                out == PixelAt(output_img, r, c)
            IN  /\ Dimmer(out, in)
                /\ r = 0 \/ c = 0 => out = MakePixel(0, 0, 0, in.a)
                /\ \A q \in Rows(input_img), d \in Columns(input_img) :
                       /\ q <= r /\ 2 * r <= input_img.height
                       /\ d <= c /\ 2 * c <= input_img.width
                       /\ PixelAt(input_img, q, d) = in
                       => Dimmer(PixelAt(output_img, q, d), out)
                /\ 2 * r = input_img.height /\ 2 * c = input_img.width => out = in

\* main reports success only for a transformation that it knows and that the input
\* allows, of which it has begun to write the output, and writes a whole file only
\* to report success.  The converse is false: a write that fails is not noticed.
SuccessMeansWritten ==
    pc = "exited" =>
        /\ output_file = "complete" => exit_status = 0
        /\ exit_status = 0 =>
               /\ output_file # "none"
               /\ \/ transformation \in {"rgb", "grayscale", "fade"}
                  \/ /\ transformation = "kaleidoscope"
                     /\ input_img.width = input_img.height
=============================================================================
