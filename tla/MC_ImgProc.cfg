\* Images of up to five rows and columns and some larger ones, every transformation
\* and an unknown one.
SPECIFICATION Spec
CONSTANTS
    MaxSize = 5
    Pngs <- Files
    Transformations = {"grayscale", "rgb", "fade", "kaleidoscope", "emboss"}
    GradientScale = 10
    IntMax = 255
INVARIANTS
    TypeOK
    
    RgbIsQuadrants
    KaleidoscopeIsSymmetric
    FadesTowardsEdges
    SuccessMeansWritten
