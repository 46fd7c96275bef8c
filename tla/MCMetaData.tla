------------------------------ MODULE MCMetaData ------------------------------
(* Replies for TLC: two that share a header and differ in the others. *)
EXTENDS MetaData, TLC

First  == ("content-type" :> "text" @@ "content-length" :> "5" @@ "uid" :> "1"
             @@ "next-append-offset" :> "x")
Second == ("content-type" :> "html" @@ "content-range" :> "0-1/9"
             @@ "next-append-offset" :> "9" @@ "restore" :> "ongoing")

MCHeaders == {First, Second}

\* Which free cell a string is put in makes no difference.
CellSymmetry == Permutations(Cell)

MCTotal == ("0-1/9" :> 9)
MCNumber == ("5" :> 5 @@ "9" :> 9 @@ "x" :> NotANumber)

===============================================================================
