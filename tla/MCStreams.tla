------------------------------ MODULE MCStreams ------------------------------
(* Values for TLC that a configuration cannot write. *)
EXTENDS Streams

NothingOrOne == {<<>>, <<1>>}

===============================================================================
