----------------------------- MODULE SendProofs -----------------------------
(***************************************************************************)
(* Proofs that ClientImpl::send_request(request, response), as modelled by *)
(* SendRequest, keeps the safety properties of SendProperties for every    *)
(* number of retries, set of replies, lengths of bodies and response       *)
(* streams.                                                                *)
(*                                                                         *)
(* The argument: SendInv is inductive.  The attempt's verdict is settled   *)
(* by the lemmas about BceResponse; what is left is which pieces the two   *)
(* streams hold at each stage of a call.                                   *)
(***************************************************************************)
EXTENDS SendProperties, BceResponseProofs, TLAPS

\* At least one attempt is allowed.
LEMMA AllowedType == Allowed \in Nat \ {0}
BY SendAssumption DEF Allowed

\* Replies are outcomes that brought a status line.
LEMMA ReplyType ==
    ASSUME NEW o \in Replies
    PROVE  /\ o \in Outcome
           /\ o.rc
           /\ o.http \in Int /\ o.http >= 100
           /\ o.body \in ErrorBodies
BY SendAssumption DEF Outcome

\* The verdict on an attempt: ok exactly when the service said it carried the
\* request out, and a failure has a status that is not 0.
LEMMA Verdict ==
    ASSUME SendInv, pc = "conclude"
    PROVE  /\ Concluded \in Response
           /\ is_ok(Concluded) <=> rc /\ Succeeded(reply)
           /\ is_fail(Concluded) <=> ~is_ok(Concluded)
           /\ is_fail(Concluded) => Concluded.status # 0
           /\ Concluded.status \in Int
<1>1. /\ resp \in Response
      /\ "none" \notin Codes
  BY SendAssumption DEF SendInv, TypeOK
<1>2. is_fail(Concluded) <=> ~is_ok(Concluded)
  BY DEF is_fail, is_ok
<1>3. CASE rc
  <2>1. reply \in Outcome /\ reply.rc /\ resp.http.status = reply.http
    BY <1>3, ReplyType DEF SendInv, Receipt
  <2>2. Concluded = Conclude(resp, reply)
    BY <1>3 DEF Concluded, Ended
  <2>3. Concluded \in Response /\ (is_ok(Concluded) <=> Succeeded(reply))
    BY <1>1, <2>1, <2>2, ConcludeVerdict
  <2>4. is_fail(Concluded) => Concluded.status # 0
    BY <1>1, <2>1, <2>2, ConcludeStatus
  <2> QED
    BY <1>2, <1>3, <2>3, <2>4 DEF Response
<1>4. CASE ~rc
  <2> DEFINE code == "HttpExecuteFailure"
  <2>1. Concluded = set_error(resp, STATUS_RPC_FAIL, code)
    BY <1>4 DEF Concluded, Ended, Conclude
  <2>2. code \in Errors /\ code # NoError /\ STATUS_RPC_FAIL \in Int
    BY DEF Errors, NoError, STATUS_RPC_FAIL
  <2>3. Concluded \in Response /\ Concluded.error = code
    BY <1>1, <2>1, <2>2, SetErrorType
  <2>4. Concluded.status = STATUS_RPC_FAIL
    BY <1>1, <2>1 DEF set_error, Response
  <2> QED
    BY <1>2, <1>4, <2>2, <2>3, <2>4 DEF is_ok, STATUS_RPC_FAIL
<1>5. rc \in BOOLEAN
  BY DEF SendInv, TypeOK
<1> QED
  BY <1>3, <1>4, <1>5

LEMMA Initially == Init => SendInv
<1> SUFFICES ASSUME Init PROVE SendInv
  OBVIOUS
<1>1. UsedResponse \in Response
  <2>1. \A r \in Response : [r EXCEPT !.http.status = 200] \in Response
    BY DEF Response
  <2> QED
    BY <2>1, NewResponseType DEF UsedResponse
<1>2. TypeOK
  <2>1. resp \in Response /\ hasLine \in BOOLEAN
    BY <1>1, NewResponseType DEF Init
  <2>2. inPos \in 0 .. ReqLen /\ first \in 0 .. ReqLen
    BY SendAssumption DEF Init
  <2>3. room \in Nat /\ out \in Seq(0 .. attempts)
    <3>1. PICK n \in Before : out = [k \in 1 .. n |-> Stray]
      BY DEF Init
    <3>2. n \in Nat /\ Stray \in 0 .. attempts
      BY SendAssumption DEF Init, Stray
    <3> QED
      BY <3>1, <3>2, SendAssumption DEF Init
  <2>4. /\ pc = "build" /\ ret = 0 /\ tries = 0 /\ digest = NoDigest
        /\ outPos = 0 /\ reply = NoReply /\ rc = FALSE
        /\ patched = FALSE /\ bodyLen = 0 /\ sink \in Sinks
        /\ attempts = 0 /\ applied = 0 /\ stored = {}
    BY DEF Init
  <2>5. /\ rc \in BOOLEAN /\ pc \in Steps /\ reply \in Replies \cup {NoReply}
        /\ sink \in {"sink", "string"} /\ patched \in BOOLEAN
    BY <2>4, SendAssumption DEF Steps
  <2>6. /\ outPos \in Nat /\ bodyLen \in Nat
        /\ applied \in 0 .. attempts /\ stored \in SUBSET (1 .. ReqLen)
        /\ ret \in Int /\ tries \in Nat /\ attempts \in Nat
        /\ digest \in {NoDigest} \cup 0 .. ReqLen
    BY <2>3, <2>4
  <2> QED
    BY <2>1, <2>2, <2>3, <2>5, <2>6 DEF TypeOK
<1>3. Stage /\ Receipt
  BY SendAssumption DEF Init, Stage, Receipt
<1>6. Download
  <2>1. PICK n \in Before : /\ sink = "sink" => n <= room
                           /\ out = [k \in 1 .. n |-> Stray]
    BY DEF Init
  <2>2. n \in Nat
    BY SendAssumption
  <2>3. Len(out) = n
    BY <2>1, <2>2
  <2>4. pc = "build" /\ outPos = 0 /\ patched = FALSE
    BY DEF Init
  <2>5. (sink = "sink" => Len(out) <= room) /\ outPos <= Len(out)
    BY <2>1, <2>2, <2>3, <2>4
  <2> QED
    BY <2>4, <2>5 DEF Download
<1>4. ReturnAgrees /\ BodyIsWhole /\ DownloadIsWhole
  BY DEF Init, ReturnAgrees, BodyIsWhole, DownloadIsWhole
<1>5. RepeatsStartClean /\ OnlyFailuresRepeat
  BY DEF Init, RepeatsStartClean, OnlyFailuresRepeat
<1> QED
  BY <1>2, <1>3, <1>4, <1>5, <1>6 DEF SendInv


\* Three of the properties speak of the other stages only.
LEMMA ElsewhereHolds ==
    ASSUME pc' \notin {"execute", "returned"}
    PROVE  /\ ReturnAgrees'
           /\ DownloadIsWhole'
           /\ RepeatsStartClean'
           /\ OnlyFailuresRepeat'
BY DEF ReturnAgrees, DownloadIsWhole, RepeatsStartClean, OnlyFailuresRepeat

LEMMA BuildStep == SendInv /\ Build => SendInv'
<1> SUFFICES ASSUME SendInv, Build PROVE SendInv'
  OBVIOUS
<1> USE DEF SendInv, Build, inVars, streamVars, replyVars, service
<1>1. TypeOK'
  BY SendAssumption DEF TypeOK, Steps, NoDigest
<1>2. attempts = 0 /\ tries' = Allowed /\ Allowed > 0
  BY AllowedType DEF Stage, Allowed
<1>3. Stage' /\ Receipt' /\ Download'
  BY <1>2 DEF Stage, Receipt, Download, Allowed, TypeOK
<1>4. ReturnAgrees' /\ BodyIsWhole' /\ DownloadIsWhole'
  BY <1>2 DEF ReturnAgrees, BodyIsWhole, DownloadIsWhole, Stage
<1>5. RepeatsStartClean' /\ OnlyFailuresRepeat'
  BY <1>2 DEF RepeatsStartClean, OnlyFailuresRepeat
<1> QED
  BY <1>1, <1>3, <1>4, <1>5

LEMMA BuildFailsStep == SendInv /\ BuildFails => SendInv'
<1> SUFFICES ASSUME SendInv, BuildFails PROVE SendInv'
  OBVIOUS
<1> USE DEF SendInv, BuildFails, inVars, streamVars, replyVars, service
<1>1. TypeOK'
  BY DEF TypeOK, Steps
<1>2. attempts = 0 /\ applied = 0 /\ ~rc
  BY DEF Stage
<1>3. Stage' /\ Receipt' /\ Download'
  BY <1>2 DEF Stage, Receipt, Download
<1>4. ReturnAgrees' /\ BodyIsWhole' /\ DownloadIsWhole'
  BY <1>2 DEF ReturnAgrees, BodyIsWhole, DownloadIsWhole
<1>5. RepeatsStartClean' /\ OnlyFailuresRepeat'
  BY DEF RepeatsStartClean, OnlyFailuresRepeat
<1> QED
  BY <1>1, <1>3, <1>4, <1>5

LEMMA ExecuteStep == SendInv /\ Execute => SendInv'
<1> SUFFICES ASSUME SendInv, Execute PROVE SendInv'
  OBVIOUS
<1> USE DEF SendInv, Execute, inVars, streamVars, replyVars, service
<1>1. TypeOK'
  <2>1. tries' \in Nat /\ attempts' \in Nat /\ applied' \in 0 .. attempts'
    BY DEF TypeOK, Stage
  <2>2. out' \in Seq(0 .. attempts')
    BY DEF TypeOK
  <2> QED
    BY <2>1, <2>2 DEF TypeOK, Steps
<1>2. Stage'
  BY AllowedType DEF Stage, TypeOK
<1>3. Receipt'
  BY DEF Receipt
<1>4. Download'
  <2>1. \A k \in 1 .. Len(out) : out[k] < attempts'
    BY DEF TypeOK
  <2> QED
    BY <2>1 DEF Download, TypeOK
<1>5. BodyIsWhole'
  BY DEF BodyIsWhole
<1>6. pc' \notin {"execute", "returned"}
  OBVIOUS
<1> QED
  BY <1>1, <1>2, <1>3, <1>4, <1>5, <1>6, ElsewhereHolds

LEMMA ReadPieceStep == SendInv /\ ReadPiece => SendInv'
<1> SUFFICES ASSUME SendInv, ReadPiece PROVE SendInv'
  OBVIOUS
<1> USE DEF SendInv, ReadPiece, streamVars, replyVars, service
<1>1. TypeOK'
  BY SendAssumption DEF TypeOK
<1>2. Stage' /\ Receipt' /\ Download' /\ BodyIsWhole'
  BY DEF Stage, Receipt, Download, BodyIsWhole
<1> QED
  BY <1>1, <1>2, ElsewhereHolds

LEMMA ServeStep == SendInv /\ Serve => SendInv'
<1> SUFFICES ASSUME SendInv, Serve PROVE SendInv'
  OBVIOUS
<1> USE DEF SendInv, inVars, streamVars, replyVars
<1>1. PICK o \in Replies :
          /\ reply' = o
          /\ bodyLen' \in IF o.http < 400 THEN BodyLens ELSE {0}
          /\ \/ /\ Intact
                /\ Succeeded(o) \/ o.http >= 500
                /\ applied' = applied + 1
                /\ stored' = first + 1 .. ReqLen
             \/ ~Succeeded(o) /\ UNCHANGED service
  BY DEF Serve
<1>2. /\ pc = "send" /\ pc' = "status"
      /\ UNCHANGED <<ret, tries, inVars, resp, hasLine, streamVars, rc, attempts>>
  BY DEF Serve
<1>3. Intact => first = 0 /\ digest \in {NoDigest, 0}
  BY SendAssumption DEF Intact, Announced, TypeOK
<1>4. applied < attempts
  BY <1>2 DEF Stage
<1>5. applied' \in 0 .. attempts' /\ stored' \in SUBSET (1 .. ReqLen)
  <2>1. CASE Intact /\ applied' = applied + 1 /\ stored' = first + 1 .. ReqLen
    <3>1. stored' = 1 .. ReqLen
      BY <1>3, <2>1
    <3>2. applied' \in 0 .. attempts'
      BY <1>2, <1>4, <2>1 DEF TypeOK
    <3> QED
      BY <3>1, <3>2
  <2>2. CASE UNCHANGED service
    BY <1>2, <2>2 DEF TypeOK, service
  <2> QED
    BY <1>1, <2>1, <2>2
<1>6. TypeOK'
  <2>1. bodyLen' \in Nat
    BY <1>1, SendAssumption
  <2> QED
    BY <1>1, <1>2, <1>5, <2>1 DEF TypeOK, Steps
<1>7. Succeeded(o) => applied' >= 1
  BY <1>1 DEF TypeOK
<1>8. Stage'
  BY <1>2 DEF Stage
<1>9. Receipt'
  BY <1>1, <1>2, <1>7 DEF Receipt
<1>10. Download'
  BY <1>2 DEF Download
<1>11. BodyIsWhole'
  BY <1>1, <1>2, <1>3 DEF BodyIsWhole, service
<1> QED
  BY <1>2, <1>6, <1>8, <1>9, <1>10, <1>11, ElsewhereHolds

LEMMA InterimStep == SendInv /\ Interim => SendInv'
<1> SUFFICES ASSUME SendInv, Interim PROVE SendInv'
  OBVIOUS
<1> USE DEF SendInv, Interim, inVars, streamVars, replyVars, service
<1>1. resp' \in Response
  <2>1. resp \in Response /\ 100 \in Int
    BY DEF TypeOK
  <2> QED
    BY <2>1, StatusLineType
<1>2. TypeOK'
  BY <1>1 DEF TypeOK
<1>3. Stage' /\ Receipt' /\ Download' /\ BodyIsWhole'
  BY DEF Stage, Receipt, Download, BodyIsWhole
<1> QED
  BY <1>2, <1>3, ElsewhereHolds

LEMMA StatusLineStep == SendInv /\ StatusLine => SendInv'
<1> SUFFICES ASSUME SendInv, StatusLine PROVE SendInv'
  OBVIOUS
<1> USE DEF SendInv, StatusLine, inVars, streamVars, replyVars, service
<1>1. reply \in Replies /\ reply.http \in Int
  BY ReplyType DEF Receipt
<1>2. resp' \in Response /\ (pc' = "body" => resp'.http.status = reply.http)
  BY <1>1, StatusLineType DEF TypeOK
<1>3. TypeOK'
  BY <1>2 DEF TypeOK, Steps
<1>4. Stage'
  BY DEF Stage
<1>5. Receipt'
  BY <1>2 DEF Receipt
<1>6. Download'
  <2>1. outPos' = 0 /\ ~rc' /\ pc' \in {"body", "conclude"}
    BY DEF Download, Receipt
  <2> QED
    BY <2>1 DEF Download
<1>7. BodyIsWhole'
  BY DEF BodyIsWhole
<1> QED
  BY <1>3, <1>4, <1>5, <1>6, <1>7, ElsewhereHolds

\* A piece written at a position within a stream is the one found there, and
\* leaves those beside it alone.
LEMMA Writing ==
    ASSUME NEW STATE S, NEW STATE s, NEW STATE pos, NEW STATE piece,
           s \in Seq(S), pos \in 0 .. Len(s), piece \in S
    PROVE  /\ WriteAt(s, pos, piece) \in Seq(S)
           /\ Len(WriteAt(s, pos, piece))
                = IF pos < Len(s) THEN Len(s) ELSE pos + 1
           /\ WriteAt(s, pos, piece)[pos + 1] = piece
           /\ \A k \in 1 .. Len(s) :
                 k # pos + 1 => WriteAt(s, pos, piece)[k] = s[k]
<1> DEFINE n == IF pos < Len(s) THEN Len(s) ELSE pos + 1
           w == [k \in 1 .. n |-> IF k = pos + 1 THEN piece ELSE s[k]]
<1>1. n \in Nat /\ pos + 1 \in 1 .. n
  OBVIOUS
<1>2. \A k \in 1 .. n : k # pos + 1 => k \in 1 .. Len(s)
  OBVIOUS
<1>3. w \in Seq(S) /\ Len(w) = n
  BY <1>1, <1>2
<1>4. WriteAt(s, pos, piece) = w
  BY DEF WriteAt
<1> QED
  BY <1>1, <1>3, <1>4

\* What becomes of a string is still a string.
LEMMA WritingToString ==
    ASSUME NEW STATE S, NEW STATE s, NEW STATE pos, NEW STATE piece,
           s \in Seq(S), pos \in Nat, piece \in S, Stray \in S
    PROVE  \A t \in WritesToString(s, pos, piece) : t \in Seq(S)
<1> TAKE t \in WritesToString(s, pos, piece)
<1>1. CASE pos >= Len(s)
  BY <1>1 DEF WritesToString
<1>2. CASE ~(pos >= Len(s))
  <2>1. PICK c \in CString(piece) :
           t = SubSeq(s, 1, pos) \o c \o SubSeq(s, pos + 2, Len(s))
    BY <1>2 DEF WritesToString
  <2>2. <<>> \in Seq(S) /\ <<piece>> \in Seq(S) /\ <<piece, Stray>> \in Seq(S)
    OBVIOUS
  <2>4. c = <<>> \/ c = <<piece>> \/ c = <<piece, Stray>>
    BY <2>1 DEF CString
  <2>5. c \in Seq(S)
    BY <2>2, <2>4
  <2>3. SubSeq(s, 1, pos) \in Seq(S) /\ SubSeq(s, pos + 2, Len(s)) \in Seq(S)
    BY <1>2
  <2> QED
    BY <2>1, <2>3, <2>5
<1> QED
  BY <1>1, <1>2

\* Whatever the stream, its contents stay of this call's attempts, and with no
\* piece put into the middle of a string the new one stands at the position.
LEMMA Writes ==
    ASSUME SendInv, Write, attempts > 0, UNCHANGED <<sink, room, attempts>>
    PROVE  /\ out' \in Seq(0 .. attempts)
           /\ patched' \in BOOLEAN
           /\ patched' => sink = "string"
           /\ sink = "sink" => Len(out') <= room
           /\ ~patched' =>
                 /\ ~patched
                 /\ Len(out') >= Len(out) /\ Len(out') >= outPos + 1
                 /\ Len(out') = Len(out) \/ Len(out') = outPos + 1
                 /\ out'[outPos + 1] = attempts
                 /\ \A k \in 1 .. Len(out) : k # outPos + 1 => out'[k] = out[k]
<1>1. /\ out \in Seq(0 .. attempts) /\ outPos \in Nat /\ attempts \in 0 .. attempts
      /\ Stray \in 0 .. attempts /\ patched \in BOOLEAN /\ room \in Nat
  BY DEF SendInv, TypeOK, Stray
<1>2. CASE sink = "sink"
  <2>1. /\ ~patched /\ outPos \in 0 .. Len(out) /\ outPos < room
        /\ Len(out) <= room
        /\ out' = WriteAt(out, outPos, attempts) /\ patched' = patched
    BY <1>1, <1>2 DEF Write, SendInv, Download
  <2>2. /\ out' \in Seq(0 .. attempts)
        /\ Len(out') = IF outPos < Len(out) THEN Len(out) ELSE outPos + 1
        /\ out'[outPos + 1] = attempts
        /\ \A k \in 1 .. Len(out) : k # outPos + 1 => out'[k] = out[k]
    <3> DEFINE S == 0 .. attempts
               a == attempts
    <3>1. out \in Seq(S) /\ outPos \in 0 .. Len(out) /\ a \in S
      BY <1>1, <2>1
    <3>2. out' = WriteAt(out, outPos, a)
      BY <2>1
    <3> HIDE DEF S, a
    <3>3. /\ out' \in Seq(S)
          /\ Len(out') = IF outPos < Len(out) THEN Len(out) ELSE outPos + 1
          /\ out'[outPos + 1] = a
          /\ \A k \in 1 .. Len(out) : k # outPos + 1 => out'[k] = out[k]
      BY <3>1, <3>2, Writing
    <3> QED
      BY <3>3 DEF S, a
  <2>3. Len(out) \in Nat
    BY <1>1
  <2>4. /\ Len(out') >= Len(out) /\ Len(out') >= outPos + 1
        /\ Len(out') = Len(out) \/ Len(out') = outPos + 1
        /\ Len(out') <= room
    BY <1>1, <2>1, <2>2, <2>3
  <2>5. patched' \in BOOLEAN /\ ~patched'
    BY <1>1, <2>1
  <2> QED
    BY <1>2, <2>1, <2>2, <2>4, <2>5
<1>3. CASE sink = "string"
  <2>1. /\ out' \in WritesToString(out, outPos, attempts)
        /\ patched' = (patched \/ outPos < Len(out))
    BY <1>3 DEF Write
  <2>2. out' \in Seq(0 .. attempts)
    BY <1>1, <2>1, WritingToString
  <2>3. CASE ~patched'
    <3>0. ~patched /\ ~(outPos < Len(out))
      BY <1>1, <2>1, <2>3
    <3>1. ~patched /\ outPos = Len(out)
      BY <1>1, <3>0 DEF SendInv, Download
    <3>2. out' = Append(out, attempts)
      BY <1>1, <2>1, <3>1 DEF WritesToString
    <3>3. /\ Len(out') = Len(out) + 1
          /\ out'[outPos + 1] = attempts
          /\ \A k \in 1 .. Len(out) : out'[k] = out[k]
      BY <1>1, <3>1, <3>2
    <3>4. Len(out) \in Nat
      BY <1>1
    <3>5. Len(out') >= Len(out) /\ Len(out') >= outPos + 1 /\ Len(out') = outPos + 1
      BY <3>1, <3>3, <3>4
    <3>6. patched' \in BOOLEAN /\ sink # "sink"
      BY <1>1, <1>3, <2>1
    <3> QED
      BY <1>3, <2>2, <2>3, <3>1, <3>3, <3>5, <3>6
  <2> QED
    BY <1>1, <1>3, <2>1, <2>2, <2>3
<1> QED
  BY <1>2, <1>3 DEF Write

LEMMA BodyPieceStep == SendInv /\ BodyPiece => SendInv'
<1> SUFFICES ASSUME SendInv, BodyPiece PROVE SendInv'
  OBVIOUS
<1>1. /\ pc = "body" /\ outPos < bodyLen /\ Write
      /\ outPos' = outPos + 1
      /\ resp' = write_body(resp, NoBody)
      /\ UNCHANGED <<pc, ret, tries, inVars, hasLine, sink, room, replyVars, rc,
                     attempts, service>>
  BY DEF BodyPiece
<1>2. attempts > 0
  BY <1>1 DEF SendInv, Stage
<1>3. /\ out' \in Seq(0 .. attempts)
      /\ patched' \in BOOLEAN
      /\ patched' => sink = "string"
      /\ sink = "sink" => Len(out') <= room
      /\ ~patched' =>
            /\ ~patched
            /\ Len(out') >= Len(out) /\ Len(out') >= outPos + 1
            /\ Len(out') = Len(out) \/ Len(out') = outPos + 1
            /\ out'[outPos + 1] = attempts
            /\ \A k \in 1 .. Len(out) : k # outPos + 1 => out'[k] = out[k]
  BY <1>1, <1>2, Writes
<1>4. resp' \in Response /\ resp'.http.status = resp.http.status
  BY <1>1, WriteBodyType DEF SendInv, TypeOK, ErrorBodies
<1> USE DEF SendInv, inVars, replyVars, service
<1>5. TypeOK'
  BY <1>1, <1>3, <1>4 DEF TypeOK
<1>6. Stage' /\ BodyIsWhole'
  BY <1>1 DEF Stage, BodyIsWhole
<1>7. Receipt'
  BY <1>1, <1>4 DEF Receipt
<1>8. Download'
  <2>1. outPos \in Nat /\ out \in Seq(0 .. attempts)
    BY DEF TypeOK
  <2>2. ASSUME ~patched', NEW k \in 1 .. Len(out')
        PROVE  IF k <= outPos' THEN out'[k] = attempts ELSE out'[k] < attempts
    <3>1. CASE k = outPos + 1
      BY <1>1, <1>3, <2>1, <2>2, <3>1
    <3>2. CASE k # outPos + 1
      <4>1. k \in 1 .. Len(out)
        BY <1>3, <2>1, <2>2, <3>2 DEF Download
      <4>2. IF k <= outPos THEN out[k] = attempts ELSE out[k] < attempts
        BY <1>1, <1>3, <2>2, <4>1 DEF Download
      <4>3. k <= outPos <=> k <= outPos'
        BY <1>1, <2>1, <3>2
      <4> QED
        BY <1>3, <2>2, <3>2, <4>1, <4>2, <4>3
    <3> QED
      BY <3>1, <3>2
  <2> QED
    BY <1>1, <1>3, <2>1, <2>2 DEF Download
<1> QED
  BY <1>1, <1>5, <1>6, <1>7, <1>8, ElsewhereHolds

LEMMA StreamFullStep == SendInv /\ StreamFull => SendInv'
<1> SUFFICES ASSUME SendInv, StreamFull PROVE SendInv'
  OBVIOUS
<1> USE DEF SendInv, StreamFull, inVars, streamVars, replyVars, service
<1>1. TypeOK'
  BY DEF TypeOK, Steps
<1>2. Stage' /\ BodyIsWhole'
  BY DEF Stage, BodyIsWhole
<1>3. Receipt' /\ Download'
  BY DEF Receipt, Download
<1> QED
  BY <1>1, <1>2, <1>3, ElsewhereHolds

LEMMA CompleteStep == SendInv /\ Complete => SendInv'
<1> SUFFICES ASSUME SendInv, Complete PROVE SendInv'
  OBVIOUS
<1> USE DEF SendInv, Complete, inVars, streamVars, replyVars, service
<1>1. /\ reply \in Replies /\ reply.http \in Int /\ reply.body \in ErrorBodies
      /\ resp \in Response /\ resp.http.status = reply.http
  BY ReplyType DEF Receipt, TypeOK
<1>2. resp' \in Response /\ resp'.http.status = reply.http
  BY <1>1, WriteBodyType
<1>3. TypeOK'
  BY <1>2 DEF TypeOK, Steps
<1>4. Stage'
  BY DEF Stage
<1>5. Receipt'
  BY <1>1, <1>2 DEF Receipt
<1>6. Download'
  BY <1>1 DEF Download
<1>7. BodyIsWhole'
  BY DEF BodyIsWhole
<1> QED
  BY <1>3, <1>4, <1>5, <1>6, <1>7, ElsewhereHolds

LEMMA DieStep == SendInv /\ Die => SendInv'
<1> SUFFICES ASSUME SendInv, Die PROVE SendInv'
  OBVIOUS
<1> USE DEF SendInv, Die, inVars, streamVars, replyVars, service
<1>1. resp' \in Response
  BY WriteBodyType DEF TypeOK, ErrorBodies
<1>2. TypeOK'
  BY <1>1 DEF TypeOK, Steps
<1>3. ~rc' /\ pc' = "conclude"
  BY DEF Receipt
<1>4. Stage' /\ BodyIsWhole'
  BY <1>3 DEF Stage, BodyIsWhole
<1>5. Receipt'
  BY <1>3 DEF Receipt
<1>6. Download'
  <2>1. CASE pc = "body"
    BY <1>3, <2>1 DEF Download
  <2>2. CASE pc \in {"send", "status"}
    BY <1>3, <2>2 DEF Download
  <2> QED
    BY <2>1, <2>2
<1> QED
  BY <1>2, <1>3, <1>4, <1>5, <1>6, ElsewhereHolds

LEMMA ReturnStep == SendInv /\ Return => SendInv'
<1> SUFFICES ASSUME SendInv, Return PROVE SendInv'
  OBVIOUS
<1> USE DEF SendInv, inVars, streamVars, replyVars, service
<1>1. /\ pc = "conclude" /\ pc' = "returned"
      /\ resp' = Concluded
      /\ ret' = IF is_ok(Concluded) THEN 0 ELSE Concluded.status
      /\ UNCHANGED <<tries, inVars, hasLine, streamVars, replyVars, rc,
                     attempts, service>>
  BY DEF Return
<1>2. /\ Concluded \in Response /\ Concluded.status \in Int
      /\ is_ok(Concluded) <=> rc /\ Succeeded(reply)
      /\ ~is_ok(Concluded) => Concluded.status # 0
  BY <1>1, Verdict
<1>3. TypeOK'
  BY <1>1, <1>2 DEF TypeOK, Steps
<1>4. attempts > 0
  BY <1>1 DEF Stage
<1>5. Stage' /\ BodyIsWhole'
  BY <1>1, <1>4 DEF Stage, BodyIsWhole
<1>6. Receipt'
  BY <1>1 DEF Receipt
<1>7. Download'
  BY <1>1 DEF Download
<1>8. (ret' = 0) <=> (rc /\ Succeeded(reply))
  BY <1>1, <1>2
<1>9. is_ok(resp') <=> (rc /\ Succeeded(reply))
  BY <1>1, <1>2
<1>10. rc /\ Succeeded(reply) => applied >= 1
  BY DEF Receipt
<1>11. /\ rc' = rc /\ reply' = reply /\ applied' = applied
       /\ attempts' = attempts
  BY <1>1
<1>12. ReturnAgrees'
  BY <1>4, <1>8, <1>9, <1>10, <1>11 DEF ReturnAgrees, Succeeded, is_ok
<1>13. DownloadIsWhole'
  <2> SUFFICES ASSUME ret' = 0, ~patched'
               PROVE  /\ Len(out') >= bodyLen'
                      /\ \A k \in 1 .. Len(out') :
                            IF k <= bodyLen' THEN out'[k] = attempts'
                            ELSE out'[k] < attempts'
    BY DEF DownloadIsWhole
  <2>1. rc /\ reply.http < 400
    BY <1>8 DEF Succeeded
  <2>2. outPos = bodyLen /\ outPos <= Len(out)
    BY <1>1, <2>1 DEF Download, TypeOK
  <2>3. \A k \in 1 .. Len(out) : IF k <= outPos THEN out[k] = attempts
                                ELSE out[k] < attempts
    BY <1>1 DEF Download
  <2>4. out' = out /\ bodyLen' = bodyLen /\ Len(out) \in Nat /\ bodyLen \in Nat
    BY <1>1 DEF TypeOK
  <2> QED
    BY <1>1, <2>2, <2>3, <2>4
<1>14. RepeatsStartClean' /\ OnlyFailuresRepeat'
  BY <1>1 DEF RepeatsStartClean, OnlyFailuresRepeat
<1> QED
  BY <1>3, <1>5, <1>6, <1>7, <1>12, <1>13, <1>14

LEMMA AgainStep == SendInv /\ Again => SendInv'
<1> SUFFICES ASSUME SendInv, Again PROVE SendInv'
  OBVIOUS
<1> USE DEF SendInv, streamVars, replyVars, service
<1>1. /\ pc = "conclude" /\ pc' = "execute"
      /\ is_fail(Concluded) /\ Retryable(Concluded.status) /\ tries > 0
      /\ inPos' = 0 /\ outPos' = 0 /\ hasLine' = FALSE
      /\ resp' = HttpReset(Concluded)
      /\ UNCHANGED <<ret, tries, first, digest, sink, room, out, patched,
                     replyVars, rc, attempts, service>>
  BY DEF Again
<1>2. /\ Concluded \in Response
      /\ ~(rc /\ Succeeded(reply))
  BY <1>1, Verdict
<1>3. /\ resp' \in Response
      /\ resp'.http.status = 0
      /\ resp'.status = Concluded.status
      /\ resp'.error = Concluded.error
  BY <1>1, <1>2, HttpResetType
<1>4. TypeOK'
  <2>1. inPos' \in 0 .. ReqLen /\ outPos' \in Nat
    BY <1>1, SendAssumption DEF TypeOK
  <2> QED
    BY <1>1, <1>3, <2>1 DEF TypeOK, Steps, inVars
<1>5. Stage' /\ BodyIsWhole'
  BY <1>1 DEF Stage, BodyIsWhole
<1>6. Receipt'
  BY <1>1 DEF Receipt
<1>7. Download'
  BY <1>1 DEF Download
<1>8. ReturnAgrees' /\ DownloadIsWhole'
  BY <1>1 DEF ReturnAgrees, DownloadIsWhole
<1>9. RepeatsStartClean'
  BY <1>1, <1>3 DEF RepeatsStartClean, Stage, Allowed
<1>10. OnlyFailuresRepeat'
  <2>1. is_fail(resp') /\ Retryable(resp'.status)
    BY <1>1, <1>3 DEF is_fail
  <2>2. ~(rc' /\ Succeeded(reply'))
    BY <1>1, <1>2
  <2> QED
    BY <2>1, <2>2 DEF OnlyFailuresRepeat, is_fail, Retryable, Succeeded
<1> QED
  BY <1>4, <1>5, <1>6, <1>7, <1>8, <1>9, <1>10

LEMMA Stuttering == SendInv /\ UNCHANGED vars => SendInv'
BY DEF SendInv, vars, inVars, streamVars, replyVars, service, TypeOK, Stage, Receipt,
       Download, ReturnAgrees, BodyIsWhole, DownloadIsWhole, RepeatsStartClean,
       OnlyFailuresRepeat, is_ok, is_fail, Retryable, Succeeded

\* SendInv holds throughout, for all values of the constants.
THEOREM SendInvariant == Spec => []SendInv
<1>1. SendInv /\ [Next]_vars => SendInv'
  BY BuildStep, BuildFailsStep, ExecuteStep, ReadPieceStep, ServeStep,
     InterimStep, StatusLineStep, BodyPieceStep, StreamFullStep, CompleteStep, DieStep,
     ReturnStep, AgainStep, Stuttering
     DEF Next, Own, Transfer, Terminated
<1> QED
  BY Initially, <1>1, PTL DEF Spec

\* The variables hold values of their types.
THEOREM SendTypes == Spec => []TypeOK
<1>1. SendInv => TypeOK
  BY DEF SendInv
<1> QED
  BY <1>1, SendInvariant, PTL

\* The value returned, the response and the last reply agree.
THEOREM ReturnIsTrue == Spec => []ReturnAgrees
<1>1. SendInv => ReturnAgrees
  BY DEF SendInv
<1> QED
  BY <1>1, SendInvariant, PTL

\* What the service carries out has the whole stream for its body.
THEOREM BodyArrivesWhole == Spec => []BodyIsWhole
<1>1. SendInv => BodyIsWhole
  BY DEF SendInv
<1> QED
  BY <1>1, SendInvariant, PTL

\* A successful call leaves the last attempt's body, whole and from the first
\* byte, for bodies of any lengths; nothing of another attempt is among it.
THEOREM NoMixedDownload == Spec => []DownloadIsWhole
<1>1. SendInv => DownloadIsWhole
  BY DEF SendInv
<1> QED
  BY <1>1, SendInvariant, PTL

\* A repeated attempt starts clean, and within the number allowed.
THEOREM CleanRepeats == Spec => []RepeatsStartClean
<1>1. SendInv => RepeatsStartClean
  BY DEF SendInv
<1> QED
  BY <1>1, SendInvariant, PTL

\* Only a failure with a retryable status is repeated.
THEOREM NoSuccessRepeats == Spec => []OnlyFailuresRepeat
<1>1. SendInv => OnlyFailuresRepeat
  BY DEF SendInv
<1> QED
  BY <1>1, SendInvariant, PTL

===============================================================================
