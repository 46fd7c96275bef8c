--------------------------------- MODULE Codec ---------------------------------
(***************************************************************************)
(* StringUtil's encodings.  url_encode makes the request's line and what   *)
(* is signed (http_request.cpp:56, auth.cpp:34); base64_encode makes the   *)
(* Content-MD5 (upload_request.cpp:104).  Strings are sequences of bytes,  *)
(* and a text grows by one byte in each step.                              *)
(***************************************************************************)
EXTENDS Integers, Sequences, SequencesExt

CONSTANTS
    Byte,    \* bytes of the text, members of 0 .. 255
    MaxLen   \* bound on its length

ASSUME CodecAssumption == Byte \subseteq 0 .. 255 /\ MaxLen \in Nat

VARIABLE src   \* the text

TextInit == src = <<>>
Append1 == \E b \in Byte : Len(src) < MaxLen /\ src' = Append(src, b)
TextSpec == TextInit /\ [][Append1]_src

-------------------------------------------------------------------------------
Upper == 65 .. 90
Lower == 97 .. 122
Digit == 48 .. 57
Plus == 43   Minus == 45   Dot == 46     Slash == 47   Equals == 61
Percent == 37   Underscore == 95   Tilde == 126

\* The byte at i, or what the code puts where there is none.
At(s, i, none) == IF i <= Len(s) THEN s[i] ELSE none

BASE64_CHARS == [n \in 0 .. 64 |->
    IF n < 26 THEN 65 + n ELSE IF n < 52 THEN 97 + (n - 26)
    ELSE IF n < 62 THEN 48 + (n - 52) ELSE <<Plus, Slash, Equals>>[n - 61]]

\* Mutant of base64_group: the last byte's bits are lost when it is the second
\* of its group.
base64_groupShort(s, i) ==
    << s[i] \div 4,
       (s[i] % 4) * 16 + (At(s, i + 1, 0) \div 16),
       IF i + 1 < Len(s) THEN (s[i + 1] % 16) * 4 + (s[i + 2] \div 64) ELSE 64,
       IF i + 1 < Len(s) THEN s[i + 2] % 64 ELSE 64 >>

\* Shifts and masks are written as \div and %.
base64_group(s, i) ==
    << s[i] \div 4,
       (s[i] % 4) * 16 + (At(s, i + 1, 0) \div 16),
       IF i < Len(s) THEN (s[i + 1] % 16) * 4 + (At(s, i + 2, 0) \div 64) ELSE 64,
       IF i + 1 < Len(s) THEN s[i + 2] % 64 ELSE 64 >>

Groups(n, size) == (n + size - 1) \div size

base64_encode(s) ==
    [k \in 1 .. 4 * Groups(Len(s), 3) |->
        BASE64_CHARS[base64_group(s, 3 * ((k - 1) \div 4) + 1)[((k - 1) % 4) + 1]]]

base64_decode_char(c) ==
    CASE c \in Upper -> c - 65
      [] c \in Lower -> c - 97 + 26
      [] c \in Digit -> c - 48 + 52
      [] c = Plus -> 62
      [] c = Slash -> 63
      [] c = Equals -> 64
      [] OTHER -> 255

\* What a place of the text stands for; there are fillers after its end.
Part(s, i) == IF i <= Len(s) THEN base64_decode_char(s[i]) ELSE 64

\* The bytes of the group at i, and how many of them are written: a filler in
\* the third or fourth place ends the text.
base64_bytes(s, i) ==
    << ((Part(s, i) * 4) % 256) + ((Part(s, i + 1) \div 16) % 4),
       ((Part(s, i + 1) * 16) % 256) + ((Part(s, i + 2) \div 4) % 16),
       ((Part(s, i + 2) * 64) % 256) + (Part(s, i + 3) % 64) >>
Written(s, i) == IF Part(s, i + 2) = 64 THEN 1 ELSE IF Part(s, i + 3) = 64 THEN 2 ELSE 3

base64_decode(s) ==
    LET groups == Groups(Len(s), 4)
        short  == {g \in 1 .. groups : Written(s, 4 * g - 3) < 3}
        length == IF short = {} THEN 3 * groups
                  ELSE 3 * (Min(short) - 1) + Written(s, 4 * Min(short) - 3)
    IN  [k \in 1 .. length |-> base64_bytes(s, 4 * ((k - 1) \div 3) + 1)[((k - 1) % 3) + 1]]

-------------------------------------------------------------------------------
HexDigit(n) == IF n >= 10 THEN n - 10 + 65 ELSE n + 48

Plain == Upper \cup Lower \cup Digit \cup {Underscore, Minus, Tilde, Dot}

Escaped(c, encode_slash) ==
    IF c \in Plain \/ (c = Slash /\ ~encode_slash)
      THEN <<c>>
      ELSE <<Percent, HexDigit(c \div 16), HexDigit(c % 16)>>

url_encode(s, encode_slash) == FlattenSeq([i \in DOMAIN s |-> Escaped(s[i], encode_slash)])

\* Any letter counts; what is no digit is -1, but no text of url_encode has one.
hexchar2int(c) ==
    IF c \in Digit THEN c - 48
    ELSE IF c \in Upper THEN c - 65 + 10
    ELSE IF c \in Lower THEN c - 97 + 10
    ELSE -1

\* from[i] is what is written for the text from i on.
url_decode(s) ==
    LET from[i \in 1 .. Len(s) + 3] ==
            IF i > Len(s) THEN <<>>
            ELSE IF s[i] # Percent THEN <<s[i]>> \o from[i + 1]
            ELSE <<(hexchar2int(s[i + 1]) * 16 + hexchar2int(s[i + 2])) % 256>>
                   \o from[i + 3]
    IN  from[1]

-------------------------------------------------------------------------------
\* The definition of base64: the text's bits in groups of six, the last group
\* filled with zeros, the last four characters filled with '='.
Bits(s) ==
    [b \in 1 .. 8 * Len(s) |->
        (s[((b - 1) \div 8) + 1] \div <<128, 64, 32, 16, 8, 4, 2, 1>>[((b - 1) % 8) + 1]) % 2]

Sextet(bits, k) ==
    LET bit(j) == At(bits, 6 * (k - 1) + j, 0)
    IN  32 * bit(1) + 16 * bit(2) + 8 * bit(3) + 4 * bit(4) + 2 * bit(5) + bit(6)

(***************************************************************************)
(* A digest arrives as it was computed: base64_encode is base64, bit for   *)
(* bit and filler for filler, for texts of every length and bytes whose    *)
(* top bit is set, and base64_decode takes back every such text            *)
(* (util.cpp:246-319).                                                     *)
(***************************************************************************)
Base64IsBits ==
    LET out == base64_encode(src)
        n == Groups(8 * Len(src), 6)
    IN  /\ Len(out) = 4 * Groups(n, 4)
        /\ \A k \in DOMAIN out :
              out[k] = IF k <= n THEN BASE64_CHARS[Sextet(Bits(src), k)] ELSE Equals
        /\ base64_decode(out) = src

===============================================================================
