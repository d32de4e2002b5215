\* Two commands on one script, with one request that may come late.
SPECIFICATION Spec
CONSTANTS
    x = x
    y = y
    z = z
    Earlier = Earlier
    j1 = j1
    j2 = j2
    j3 = j3
    Jobs = {j1, j2}
    Chars = {x, y, z}
    Size <- Sizes
    Texts <- TwoTexts
    OldCode <- Old
    ChunkLimit = 4
    ReadLimit = 4
    MaxReads = 3
    MaxBackups = 2
    MaxLate = 1
SYMMETRY Symmetry
INVARIANTS IInv OriginalKept RunningAgain NoMixture SoloSucceeds
\* Commands are given once: the system rests after the last.
CHECK_DEADLOCK FALSE
