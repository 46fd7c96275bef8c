-------------------------------- MODULE Sink --------------------------------
(***************************************************************************)
(* What HttpResponse expects of the stream it writes a body into: bytes    *)
(* with a position.  A write puts a prefix of what it is given at the      *)
(* position, moves it behind them and says how many it took; a seek moves  *)
(* the position, or refuses and moves nothing.  A sink that has a capacity *)
(* never holds more.                                                       *)
(***************************************************************************)
EXTENDS Integers, Sequences

CONSTANTS Byte, Chunks  \* Chunks: what may be written at once

VARIABLES
    bytes,
    cap,   \* the most bytes there can be, or Endless
    at,    \* the position
    ret    \* value returned by the last call

sinkVars == <<bytes, cap, at, ret>>

Endless == -1

Zero == 0  \* what a gap reads as

\* s with the bytes c from position p on.
Overlay(s, p, c) ==
    IF c = <<>> THEN s
    ELSE [k \in 1 .. (IF Len(s) < p + Len(c) THEN p + Len(c) ELSE Len(s)) |->
            IF k > p /\ k <= p + Len(c) THEN c[k - p]
            ELSE IF k <= Len(s) THEN s[k] ELSE Zero]

Fits == cap = Endless \/ (Len(bytes) <= cap /\ at <= cap)

Init == bytes \in Seq(Byte) /\ cap \in Int /\ at \in Nat /\ ret = 0 /\ Fits

Write ==
    \E c \in Chunks : \E n \in 0 .. Len(c) :
        /\ bytes' = Overlay(bytes, at, SubSeq(c, 1, n))
        /\ at' = at + n
        /\ ret' = n \/ (n = 0 /\ ret' = -1)

Seek ==
    /\ \/ at' \in Nat /\ ret' \in {0, at'}
       \/ ret' = -1 /\ UNCHANGED at
    /\ UNCHANGED bytes

Next == (Write \/ Seek) /\ Fits' /\ UNCHANGED cap

Spec == Init /\ [][Next]_sinkVars

===============================================================================
