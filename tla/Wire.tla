--------------------------------- MODULE Wire ---------------------------------
(***************************************************************************)
(* What a request and its reply look like on the line: the URL and the     *)
(* text that is signed for it, header lines, the status line.  The text of *)
(* Codec is an object's name, the value of a parameter or of a header.     *)
(*                                                                         *)
(* The service is taken to read a URL as RFC 3986 has it and to sign what  *)
(* it has read by the same rules, curl to drop a header without value, to  *)
(* write one that ends in ';' with none and to send any other as it is,    *)
(* and both sides to end a line at its first CR or LF.                     *)
(***************************************************************************)
EXTENDS Codec, FiniteSets

Question == 63   Ampersand == 38   Colon == 58   Semicolon == 59   Blank == 32
EMPTY_CHARS == {Blank} \cup 9 .. 13
CRLF == <<13, 10>>

trim(s) ==
    LET solid == {i \in DOMAIN s : s[i] \notin EMPTY_CHARS}
    IN  IF solid = {} THEN <<>> ELSE SubSeq(s, Min(solid), Max(solid))

lower(s) == [i \in DOMAIN s |-> IF s[i] \in Upper THEN s[i] + 32 ELSE s[i]]

Hits(s, delimiter) == {i \in DOMAIN s : s[i] = delimiter}

\* The delimiter that k others precede.
Preceded(s, delimiter, k) ==
    {i \in Hits(s, delimiter) : Cardinality({j \in Hits(s, delimiter) : j < i}) = k}

\* The k-th of n delimiters; the ends of the text are delimiters 0 and n + 1.
Cut(s, delimiter, n, k) ==
    IF k = 0 THEN 0
    ELSE IF k > n THEN Len(s) + 1
    ELSE CHOOSE i \in 1 .. Len(s) : i \in Preceded(s, delimiter, k - 1)

Pieces(s, delimiter, n) ==
    [k \in 1 .. n + 1 |->
        SubSeq(s, Cut(s, delimiter, n, k - 1) + 1, Cut(s, delimiter, n, k) - 1)]

\* The pieces of s between delimiters, at most max of them; 0 for all.
split(s, delimiter, max) ==
    LET all == Cardinality(Hits(s, delimiter))
    IN  Pieces(s, delimiter, IF max = 0 \/ all < max THEN all ELSE max - 1)

Joined(pieces, delimiter) ==
    FlattenSeq([k \in DOMAIN pieces |->
                  IF k = 1 THEN pieces[k] ELSE <<delimiter>> \o pieces[k]])

-------------------------------------------------------------------------------
(* Requests: a path, and parameters in the order of their keys *)

\* A parameter in the URL.
Parameter(p) == IF p.value = <<>> THEN p.key
                ELSE p.key \o <<Equals>> \o url_encode(p.value, TRUE)

\* Host and protocol are left out.
generate_url(request) ==
    url_encode(request.uri, FALSE) \o
      (IF request.parameters = <<>> THEN <<>>
       ELSE <<Question>> \o Joined([k \in DOMAIN request.parameters |->
                                      Parameter(request.parameters[k])], Ampersand))

\* Mutant of generate_auth: the slashes of the name are encoded.
generate_auth_slash(request) ==
    [ path  |-> url_encode(request.uri, TRUE),
      query |-> {url_encode(trim(p.key), TRUE) \o <<Equals>> \o
                   url_encode(trim(p.value), TRUE) : p \in Range(request.parameters)} ]

\* The canonical request: method, host and token are left out, and the lines of
\* the query are a set, since a map sorts them.
generate_auth(request) ==
    [ path  |-> url_encode(request.uri, FALSE),
      query |-> {url_encode(trim(p.key), TRUE) \o <<Equals>> \o
                   url_encode(trim(p.value), TRUE) : p \in Range(request.parameters)} ]

\* What the service reads from a parameter, and from a URL.
ReceivedParameter(s) ==
    LET kv == split(s, Equals, 2)
    IN  [key   |-> url_decode(kv[1]),
         value |-> IF Len(kv) = 2 THEN url_decode(kv[2]) ELSE <<>>]

Received(url) ==
    LET halves == split(url, Question, 2)
    IN  [ uri        |-> url_decode(halves[1]),
          parameters |-> IF Len(halves) = 1 THEN <<>>
                         ELSE LET lines == split(halves[2], Ampersand, 0)
                              IN  [k \in DOMAIN lines |-> ReceivedParameter(lines[k])] ]

\* What the service computes the signature of.
ServiceSigns(request) ==
    [ path  |-> url_encode(request.uri, FALSE),
      query |-> {url_encode(p.key, TRUE) \o <<Equals>> \o url_encode(p.value, TRUE) :
                   p \in Range(request.parameters)} ]

-------------------------------------------------------------------------------
(* Header lines *)

\* curl_slist_append takes a C string.
CString(s) == split(s, 0, 2)[1]

append_header(key, value) ==
    CString(IF value = <<>> THEN key \o <<Semicolon>> ELSE key \o <<Colon>> \o value)

\* What is read of a text that was sent as one line.
AsLine(s) == split(split(s, 10, 2)[1], 13, 2)[1] \o CRLF

\* The line curl sends and the service gives back, or <<>> for none.  What
\* follows a line break in it reaches the service as lines of its own.
Transported(line) ==
    LET kv == split(line, Colon, 2)
    IN  IF Len(kv) = 1 THEN AsLine(SubSeq(line, 1, Len(line) - 1) \o <<Colon>>)
        ELSE IF trim(kv[2]) = <<>> THEN <<>>
        ELSE AsLine(line)

\* The CRLF is cut off.
recv_header_line(line) == SubSeq(line, 1, Len(line) - 2)

\* Mutant of parse_header_line: a value ends at its first colon.
parse_header_line_all(line) ==
    LET items == split(line, Colon, 0)
    IN  IF Len(items) < 2 THEN <<>> ELSE <<lower(trim(items[1])), trim(items[2])>>

\* Key and value, or <<>> for an error.
parse_header_line(line) ==
    LET items == split(line, Colon, 2)
    IN  IF Len(items) # 2 THEN <<>> ELSE <<lower(trim(items[1])), trim(items[2])>>

\* The digits and the reason, or <<>> for an error.
parse_status_line(line) ==
    LET items == split(line, Blank, 3)
        code  == trim(items[2])
    IN  IF Len(items) # 3 \/ Range(code) \ Digit # {} THEN <<>>
        ELSE <<code, trim(items[3])>>

-------------------------------------------------------------------------------
\* An object, a flag, and a flag beside a text of the caller's.  Names of
\* parameters are letters: generate_url sends them as they are, and what is
\* signed has them encoded (auth.cpp:41).
Requests ==
    LET name == <<Slash, 98, Slash>> \o src
        acl  == [key |-> <<97>>, value |-> <<>>]
        mark == [key |-> <<109>>, value |-> src]
    IN  {[uri |-> name, parameters |-> <<>>], [uri |-> name, parameters |-> <<acl>>],
         [uri |-> name, parameters |-> <<acl, mark>>]}

(***************************************************************************)
(* The service reads the name and parameters the caller gave, and computes *)
(* the signature of what was signed, whatever percent signs, slashes and   *)
(* bytes above 127 they have (auth.cpp:30-50, http_request.cpp:54-69).     *)
(* The names of parameters are the SDK's own, letters that need no         *)
(* encoding.  Parameters with blanks around them are left out: they are    *)
(* signed without and sent with them.                                      *)
(***************************************************************************)
SignedAsSent == \A request \in Requests :
    LET there == Received(generate_url(request))
    IN  /\ there = request
        /\ src = trim(src) => ServiceSigns(there) = generate_auth(request)

(***************************************************************************)
(* A header comes back as it was set, but for blanks around it and the     *)
(* case of its name, colons in it, an empty value and one of blanks        *)
(* included; and the status is read whatever the reason phrase             *)
(* (http_request.cpp:31-40, http_response.cpp:21-52).  Nothing is said of  *)
(* a text that append_header passes on and that is no header: one with a   *)
(* NUL, where the C string ends, or a CR or LF, where the line ends.       *)
(***************************************************************************)
HeadersComeBack == {10, 13} \cap Range(src) = {} =>
    LET line == Transported(append_header(<<75>>, src))
    IN  /\ 0 \notin Range(src) =>
              IF line = <<>> THEN trim(src) = <<>>
              ELSE parse_header_line(recv_header_line(line)) = <<<<107>>, trim(src)>>
        /\ parse_status_line(recv_header_line(AsLine(
               <<72, Blank, 50, 48, 54, Blank>> \o src)))
             = <<<<50, 48, 54>>, trim(src)>>

===============================================================================
