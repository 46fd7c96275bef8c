\* Objects of up to 5 bytes, two of them already big.  An int holds up to 3.
CONSTANTS
    DefaultBlk = 4
    Unit = 2
    MaxParts = 2
    IntMod = 8
    ObjLens = {0, 1, 3, 5}
    Starts = {0, 1, 4}
    SizeArgs <- SomeSizes
    BlkSizes = {1, 2, 3}
    Positions = {0, 1}
    Small = 2
    Faults = 2
SPECIFICATION Spec
INVARIANTS
    RangesTile
    EachByteInItsPlace
    FileIsRange
    FailureIsReported
    ToldIsWritten
