----------------------------- MODULE SendRequest -----------------------------
(***************************************************************************)
(* ClientImpl::send_request(request, response): one request, sent up to    *)
(* 1 + retry times by the caller's thread with curl_easy_perform.          *)
(*                                                                         *)
(* BatchSend takes a transfer as one step; here it is taken apart, because *)
(* this path serves uploads from and downloads into a caller's stream: the *)
(* request body goes out, the service acts, the status line, headers and   *)
(* body come back callback by callback, and the connection may die between *)
(* any two.                                                                *)
(***************************************************************************)
EXTENDS Integers, Sequences, BceResponse

CONSTANTS
    Retry,     \* ClientOptions::retry
    Replies,   \* what the service may answer (outcomes with rc TRUE)
    BodyLens,  \* pieces a body below 400 may have; the object may be
               \* replaced by a longer or a shorter one between two attempts
    Sinks,     \* kinds of response stream: "sink" (a file or a buffer, see
               \* Sink) and "string" (StringOutputStream)
    Rooms,     \* pieces a sink can hold; a string grows
    Before,    \* pieces the stream may have before the call
    Reused,    \* the caller may pass a response it has used before
    ReqLen,    \* pieces in the request's stream; 0 when it has none
    Positions, \* where the caller may have left that stream
    NoReply    \* the service has not answered the current attempt

ASSUME SendAssumption ==
    /\ Retry \in Int
    /\ Replies \subseteq Outcome
    /\ \A o \in Replies : o.rc /\ o.http >= 100
    /\ BodyLens \subseteq Nat
    /\ Sinks \subseteq {"sink", "string"}
    /\ Rooms \subseteq Nat
    /\ Before \subseteq Nat
    /\ Reused \in BOOLEAN
    /\ ReqLen \in Nat
    /\ Positions \subseteq 0 .. ReqLen
    /\ Codes \cap {"none", "garbage"} = {}
    /\ NoReply \notin Replies

VARIABLES
    pc,       \* see Steps
    ret,      \* value returned; a nonzero code when nothing was sent is 1
    tries,    \* try_num: attempts left
    inPos,    \* pieces before the position of the request's input stream
    first,    \* where the current attempt found that stream
    digest,   \* Content-MD5 is of the pieces behind this one, or NoDigest
    resp,     \* the BceResponse and its HttpResponse
    hasLine,  \* HttpResponse::_has_recv_status_line
    sink,     \* kind of the response's stream
    room,     \* pieces it can hold, if it is a sink; otherwise 0
    out,      \* its contents: the attempt that wrote each piece, or Stray
    outPos,   \* pieces before its position
    reply,    \* the service's answer to the current attempt, or NoReply
    bodyLen,  \* pieces in that answer's body; 0 for an error body
    rc,       \* the current attempt's CURLcode is CURLE_OK
    attempts, \* history: attempts made
    applied,  \* history: attempts the service carried out
    stored,   \* history: pieces the service got with the last of those
    patched   \* history: a piece was put below the end of a string

inVars == <<inPos, first, digest>>
streamVars == <<sink, room, out, outPos, patched>>
replyVars == <<reply, bodyLen>>
service == <<applied, stored>>
vars == <<pc, ret, tries, inVars, resp, hasLine, streamVars, replyVars, rc,
          attempts, service>>

Steps == {"build", "execute", "send", "status", "body", "conclude", "returned"}

NoDigest == -1
Stray    == 0    \* contents that no attempt of this call wrote

\* A response that was used before ended its last transfer successfully: it
\* has a status line, and its stream is rewound by the caller.
UsedResponse == [NewResponse EXCEPT !.http.status = 200]

Init ==
    /\ pc = "build"
    /\ ret = 0
    /\ tries = 0
    /\ inPos \in Positions
    /\ first = 0
    /\ digest = NoDigest
    /\ \/ resp = NewResponse /\ hasLine = FALSE
       \/ Reused /\ resp = UsedResponse /\ hasLine = TRUE
    /\ sink \in Sinks
    /\ room \in IF sink = "sink" THEN Rooms ELSE {0}
    /\ \E n \in Before : /\ sink = "sink" => n <= room
                        /\ out = [k \in 1 .. n |-> Stray]
    /\ outPos = 0
    /\ patched = FALSE
    /\ reply = NoReply
    /\ bodyLen = 0
    /\ rc = FALSE
    /\ attempts = 0
    /\ applied = 0
    /\ stored = {}

-------------------------------------------------------------------------------
\* build_http_request, once for all attempts.  With calc_md5_on the body is
\* read from where the stream stands to its end, and the stream put back.
Build ==
    /\ pc = "build"
    /\ tries' = 1 + (IF Retry > 0 THEN Retry ELSE 0)
    /\ digest' \in {NoDigest, inPos}
    /\ pc' = "execute"
    /\ UNCHANGED <<ret, inPos, first, resp, hasLine, streamVars, replyVars, rc,
                   attempts, service>>

\* The request cannot be built, or the body not read: send_request returns and
\* has not looked at the response.
BuildFails ==
    /\ pc = "build"
    /\ ret' = 1
    /\ pc' = "returned"
    /\ UNCHANGED <<tries, inVars, resp, hasLine, streamVars, replyVars, rc,
                   attempts, service>>

\* HttpClient::execute starts a transfer, or curl_easy_init fails.
Execute ==
    /\ pc = "execute"
    /\ tries' = tries - 1
    /\ attempts' = attempts + 1
    /\ first' = inPos
    /\ reply' = NoReply
    /\ bodyLen' = 0
    /\ rc' = FALSE
    /\ pc' \in {"send", "conclude"}
    /\ UNCHANGED <<ret, inPos, digest, resp, hasLine, streamVars, service>>

\* read_stream hands out a piece of the body.
ReadPiece ==
    /\ pc = "send"
    /\ inPos < ReqLen
    /\ inPos' = inPos + 1
    /\ UNCHANGED <<pc, ret, tries, first, digest, resp, hasLine, streamVars,
                   replyVars, rc, attempts, service>>

\* Mutant of Announced: what is left of the stream.
AnnouncedRest == ReqLen - first

\* The length curl announces is get_size(), wherever the stream stands.
Announced == ReqLen

\* The service has the announced length, and it is what Content-MD5 says.
Intact ==
    /\ inPos = ReqLen
    /\ ReqLen - first = Announced
    /\ digest \in {NoDigest, first}

\* The service acts on an intact request and answers.  An internal error may
\* come before or after the effect.  A refusal needs no whole request, and the
\* rest of the body is then not read.
Serve ==
    /\ pc = "send"
    /\ \E o \in Replies :
          /\ reply' = o
          /\ bodyLen' \in IF o.http < 400 THEN BodyLens ELSE {0}
          /\ \/ /\ Intact
                /\ Succeeded(o) \/ o.http >= 500
                /\ applied' = applied + 1
                /\ stored' = first + 1 .. ReqLen
             \/ ~Succeeded(o) /\ UNCHANGED service
    /\ pc' = "status"
    /\ UNCHANGED <<ret, tries, inVars, resp, hasLine, streamVars, rc, attempts>>

\* A status line of an interim reply (1xx) is taken for the reply's.
Interim ==
    /\ pc = "status"
    /\ ~hasLine
    /\ hasLine' = TRUE
    /\ resp' = [resp EXCEPT !.http.status = 100]
    /\ UNCHANGED <<pc, ret, tries, inVars, streamVars, replyVars, rc, attempts,
                   service>>

\* recv_header_line gets the status line.  With _has_recv_status_line already
\* set it is taken for a header line, does not parse, and curl gives up.
StatusLine ==
    /\ pc = "status"
    /\ IF hasLine
         THEN pc' = "conclude" /\ UNCHANGED <<resp, hasLine>>
         ELSE /\ pc' = "body"
              /\ hasLine' = TRUE
              /\ resp' = [resp EXCEPT !.http.status = reply.http]
    /\ UNCHANGED <<ret, tries, inVars, streamVars, replyVars, rc, attempts,
                   service>>

\* A sink overwrites or extends, as pwrite does.
WriteAt(s, pos, piece) ==
    [k \in 1 .. (IF pos < Len(s) THEN Len(s) ELSE pos + 1) |->
        IF k = pos + 1 THEN piece ELSE s[k]]

\* What a piece is for StringOutputStream below the string's end, where it is
\* taken for a C string: it may end inside the piece or go on behind it.
CString(piece) == {<<>>, <<piece>>, <<piece, Stray>>}

\* A string is extended at its end; below it the piece's C string takes the
\* place of what was there.
WritesToString(s, pos, piece) ==
    IF pos >= Len(s) THEN {Append(s, piece)}
    ELSE {SubSeq(s, 1, pos) \o c \o SubSeq(s, pos + 2, Len(s)) :
             c \in CString(piece)}

\* The stream takes a piece of the current attempt at its position.
Write ==
    \/ /\ sink = "sink"
       /\ outPos < room
       /\ out' = WriteAt(out, outPos, attempts)
       /\ patched' = patched
    \/ /\ sink = "string"
       /\ out' \in WritesToString(out, outPos, attempts)
       /\ patched' = (patched \/ outPos < Len(out))

\* write_body: one piece of a body below 400 goes to the stream.
BodyPiece ==
    /\ pc = "body"
    /\ resp.http.status < 400
    /\ outPos < bodyLen
    /\ Write
    /\ outPos' = outPos + 1
    /\ resp' = write_body(resp, NoBody)
    /\ UNCHANGED <<pc, ret, tries, inVars, hasLine, sink, room, replyVars, rc,
                   attempts, service>>

\* The sink is full: a short write, and curl gives up.
StreamFull ==
    /\ pc = "body"
    /\ resp.http.status < 400
    /\ outPos < bodyLen
    /\ sink = "sink" /\ outPos >= room
    /\ pc' = "conclude"
    /\ UNCHANGED <<ret, tries, inVars, resp, hasLine, streamVars, replyVars, rc,
                   attempts, service>>

\* The rest of the reply has arrived, an error body with it.
Complete ==
    /\ pc = "body"
    /\ resp.http.status < 400 => outPos = bodyLen
    /\ resp' = IF resp.http.status < 400 THEN resp
               ELSE write_body(resp, reply.body)
    /\ rc' = TRUE
    /\ pc' = "conclude"
    /\ UNCHANGED <<ret, tries, inVars, hasLine, streamVars, replyVars, attempts,
                   service>>

\* The connection breaks, or CURLOPT_TIMEOUT is over; what has arrived of an
\* error body stays in the error stream.
Die ==
    /\ pc \in {"send", "status", "body"}
    /\ \/ UNCHANGED resp
       \/ /\ pc = "body"
          /\ resp.http.status >= 400
          /\ resp' = write_body(resp, Garbage)
    /\ pc' = "conclude"
    /\ UNCHANGED <<ret, tries, inVars, hasLine, streamVars, replyVars, rc, attempts,
                   service>>

-------------------------------------------------------------------------------
\* The attempt as Conclude sees it.
Ended == IF rc THEN reply ELSE [rc |-> FALSE]

Concluded == Conclude(resp, Ended)

\* Mutant of Return: the status is returned without a look at is_ok().
ReturnStatus ==
    /\ pc = "conclude"
    /\ \/ is_ok(Concluded)
       \/ ~Retryable(Concluded.status)
       \/ tries = 0
    /\ resp' = Concluded
    /\ ret' = Concluded.status
    /\ pc' = "returned"
    /\ UNCHANGED <<tries, inVars, hasLine, streamVars, replyVars, rc, attempts,
                   service>>

Return ==
    /\ pc = "conclude"
    /\ \/ is_ok(Concluded)
       \/ ~Retryable(Concluded.status)
       \/ tries = 0
    /\ resp' = Concluded
    /\ ret' = IF is_ok(Concluded) THEN 0 ELSE Concluded.status
    /\ pc' = "returned"
    /\ UNCHANGED <<tries, inVars, hasLine, streamVars, replyVars, rc, attempts,
                   service>>

\* Mutant of Again: the input stream stays where it is.
AgainNotRewound ==
    /\ pc = "conclude"
    /\ is_fail(Concluded)
    /\ Retryable(Concluded.status)
    /\ tries > 0
    /\ inPos' = inPos
    /\ resp' = HttpReset(Concluded)
    /\ hasLine' = FALSE
    /\ outPos' = 0
    /\ pc' = "execute"
    /\ UNCHANGED <<ret, tries, first, digest, sink, room, out, patched, replyVars,
                   rc, attempts, service>>

\* Mutant of Again: the output stream stays where it is.
AgainNotSoughtBack ==
    /\ pc = "conclude"
    /\ is_fail(Concluded)
    /\ Retryable(Concluded.status)
    /\ tries > 0
    /\ inPos' = 0
    /\ resp' = HttpReset(Concluded)
    /\ hasLine' = FALSE
    /\ outPos' = outPos
    /\ pc' = "execute"
    /\ UNCHANGED <<ret, tries, first, digest, sink, room, out, patched, replyVars,
                   rc, attempts, service>>

\* Mutant of Again: the status alone decides, as in the batch call.
AgainOnStatus ==
    /\ pc = "conclude"
    /\ Retryable(Concluded.status)
    /\ tries > 0
    /\ inPos' = 0
    /\ resp' = HttpReset(Concluded)
    /\ hasLine' = FALSE
    /\ outPos' = 0
    /\ pc' = "execute"
    /\ UNCHANGED <<ret, tries, first, digest, sink, room, out, patched, replyVars,
                   rc, attempts, service>>

\* The input stream is rewound and the HttpResponse reset, its stream rewound
\* with it; the BceResponse keeps its status and error.
Again ==
    /\ pc = "conclude"
    /\ is_fail(Concluded)
    /\ Retryable(Concluded.status)
    /\ tries > 0
    /\ inPos' = 0
    /\ resp' = HttpReset(Concluded)
    /\ hasLine' = FALSE
    /\ outPos' = 0
    /\ pc' = "execute"
    /\ UNCHANGED <<ret, tries, first, digest, sink, room, out, patched, replyVars,
                   rc, attempts, service>>

Terminated == pc = "returned" /\ UNCHANGED vars

\* What the thread does on its own, and what needs the other side or a timeout.
Own == Build \/ BuildFails \/ Execute \/ Return \/ Again

Transfer ==
    \/ ReadPiece \/ Serve \/ Interim \/ StatusLine \/ BodyPiece \/ StreamFull
    \/ Complete \/ Die

Next == Own \/ Transfer \/ Terminated

\* Mutant of Fairness: no CURLOPT_TIMEOUT.
FairnessWithoutTimeout == WF_vars(Own)

\* The thread runs on, and CURLOPT_TIMEOUT ends a transfer that does not move.
Fairness == WF_vars(Own) /\ WF_vars(Transfer)

Spec == Init /\ [][Next]_vars /\ Fairness

===============================================================================
