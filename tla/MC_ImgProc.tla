----------------------------- MODULE MC_ImgProc -----------------------------
EXTENDS ImgProc

CONSTANT MaxSize

\* Besides the small images, some for which counts wrap: of the output's bytes, of
\* the output's pixels, of the input's bytes and of the input's pixels.
Sizes == ((1 .. MaxSize) \X (1 .. MaxSize))
         \union {<<6, 6>>, <<8, 8>>, <<11, 11>>, <<12, 12>>, <<16, 17>>}

\* Images whose pixels all differ, and white ones.
Different == [i \in 0 .. 16 * 17 - 1 |->
                 MakePixel((7 * i) % 256, 255 - (i % 256), (50 * i) % 256,
                           (10 * i) % 256)]
White == [i \in 0 .. 16 * 17 - 1 |-> MakePixel(255, 255, 255, 0)]

Files == {[width |-> s[1], height |-> s[2], color_type |-> t,
           data |-> [i \in 0 .. s[1] * s[2] - 1 |-> pattern[i]]] :
          s \in Sizes, pattern \in {Different, White},
          t \in {"truecolor", "truecolor_alpha"}}
         \union {[width |-> 1, height |-> 1, color_type |-> "other",
                  data |-> [i \in {0} |-> White[0]]]}
=============================================================================
