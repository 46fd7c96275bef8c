\* Part sizes are multiples of 2, at most 5 parts, ints up to 7.
CONSTANTS
    DefaultBlk = 4
    Unit = 2
    MaxParts = 5
    IntMod = 16
    Sizes <- SmallSizes
    BlkSizes <- AllBlkSizes
    Retry = 2
    Faults = 0
SPECIFICATION Spec
INVARIANT UploadSucceeds
