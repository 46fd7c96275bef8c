------------------------------ MODULE PartSize ------------------------------
(***************************************************************************)
(* The arithmetic of the multipart helpers.  The constants stand for       *)
(* 10485760, 0x100000, 10000 and 2^32; TLC takes small ones.               *)
(***************************************************************************)
EXTENDS Integers

CONSTANTS
    DefaultBlk,  \* block size for an option that is not positive
    Unit,        \* part sizes are multiples of it
    MaxParts,    \* parts the service accepts in one upload
    IntMod       \* an int has this many values

ASSUME PartSizeAssumption ==
    /\ DefaultBlk \in Nat \ {0}
    /\ Unit \in Nat \ {0}
    /\ MaxParts \in Nat \ {0}
    /\ IntMod \in Nat /\ IntMod % 2 = 0
    /\ MaxParts < IntMod \div 2

IntMax == (IntMod \div 2) - 1

\* The conversion int(x) of a nonnegative 64-bit value.
ToInt(x) == IF x % IntMod > IntMax THEN (x % IntMod) - IntMod ELSE x % IntMod

CeilDiv(a, b) == (a + b - 1) \div b

RoundUp(b) == CeilDiv(b, Unit) * Unit

\* The block size an option stands for.
Block(blksize) == IF blksize <= 0 THEN DefaultBlk ELSE blksize

\* Mutant of calc_part_size: the division by MaxParts rounds down.
calc_part_size_floor(size, blksize) ==
    LET n == ToInt(CeilDiv(size, Block(blksize)))
    IN  RoundUp(IF n > MaxParts THEN size \div MaxParts ELSE Block(blksize))

\* MultipleUploadHelper::calc_part_size.
calc_part_size(size, blksize) ==
    LET n == ToInt(CeilDiv(size, Block(blksize)))
    IN  RoundUp(IF n > MaxParts THEN CeilDiv(size, MaxParts) ELSE Block(blksize))

\* Mutant of PartCount: the last, shorter part is not counted.
PartCountFloor(size, part_size) == ToInt(size \div part_size)

PartCount(size, part_size) == ToInt(CeilDiv(size, part_size))

===============================================================================
