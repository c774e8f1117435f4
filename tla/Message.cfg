\* Two types, a buffer that grows until its size no longer fits the width.
CONSTANTS
    a = a
    b = b
    Junk = Junk
    Values <- CharAndStruct
    Size <- SizeOf
    Width = 5
    MaxValues = 5
SPECIFICATION Spec
CHECK_DEADLOCK FALSE
INVARIANTS
    TypeOK
    AbortsOnlyAtWidth
    DecodesWhatWasEncoded
    NextOfTwoSizeIsLeast
