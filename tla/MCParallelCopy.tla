--------------------------- MODULE MCParallelCopy ---------------------------
(* Values for TLC that a configuration cannot write. *)
EXTENDS ParallelCopy

SomeBlkSizes == {1, 4}

===============================================================================
