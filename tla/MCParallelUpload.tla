-------------------------- MODULE MCParallelUpload --------------------------
(* Values for TLC that a configuration cannot write. *)
EXTENDS UploadProperties

SmallSizes == 0 .. 14
AllBlkSizes == -1 .. 6

===============================================================================
