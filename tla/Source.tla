-------------------------------- MODULE Source --------------------------------
(***************************************************************************)
(* What HttpClient and the signing code expect of a request's stream:      *)
(* bytes with a position, of which a number is promised beforehand.  A     *)
(* read gives bytes found at the position and moves it behind them, or     *)
(* gives none; it gives nothing behind the number promised.  A seek starts *)
(* over somewhere else.  The bytes may change meanwhile.                   *)
(***************************************************************************)
EXTENDS Integers, Sequences

VARIABLES
    bytes,  \* what there is from the stream's start on
    size,   \* how many are promised
    at,     \* the position
    given   \* handed out since the last seek

sourceVars == <<bytes, size, at, given>>

\* At most n of the bytes of s from position p on.
Piece(s, p, n) == SubSeq(s, p + 1, IF p + n < Len(s) THEN p + n ELSE Len(s))

Init == size \in Int /\ at = 0 /\ given = <<>>

Read ==
    \E n \in 0 .. size - at :
        LET c == Piece(bytes, at, n)
        IN  /\ Len(c) = n
            /\ at' = at + n
            /\ given' = given \o c
            /\ UNCHANGED <<bytes, size>>

Seek == at' \in Nat /\ given' = <<>> /\ UNCHANGED <<bytes, size>>

Change == UNCHANGED <<size, at, given>>

Next == Read \/ Seek \/ Change

Spec == Init /\ [][Next]_sourceVars

===============================================================================
