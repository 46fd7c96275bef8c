\* Small versions, versions that end inside a part, and one of more parts than the
\* service accepts; the source is written or deleted twice.
CONSTANTS
    DefaultBlk = 4
    Unit = 2
    MaxParts = 4
    IntMod = 16
    Sizes = {0, 3, 7, 8, 13}
    BlkSizes <- SomeBlkSizes
    MaxVersions = 3
    Faults = 1
SPECIFICATION Spec
INVARIANTS
    CompletesOneVersion
    SuccessMeansCopied
