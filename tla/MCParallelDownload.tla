------------------------- MODULE MCParallelDownload -------------------------
(* Values for TLC that a configuration cannot write. *)
EXTENDS DownloadProperties

SomeSizes == {-1, 0, 1, 2, 3, 5, 8}

DefaultSize == {-1}

===============================================================================
