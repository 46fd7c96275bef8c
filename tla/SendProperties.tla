--------------------------- MODULE SendProperties ---------------------------
(***************************************************************************)
(* What ClientImpl::send_request(request, response) owes its caller.       *)
(***************************************************************************)
EXTENDS SendRequest

(***************************************************************************)
(* The variables of SendRequest hold values of their types.                *)
(***************************************************************************)
TypeOK ==
    /\ pc \in Steps
    /\ ret \in Int
    /\ tries \in Nat
    /\ inPos \in 0 .. ReqLen
    /\ first \in 0 .. ReqLen
    /\ digest \in {NoDigest} \cup 0 .. ReqLen
    /\ resp \in Response
    /\ hasLine \in BOOLEAN
    /\ sink \in {"sink", "string"}
    /\ room \in Nat
    /\ out \in Seq(0 .. attempts)
    /\ outPos \in Nat
    /\ patched \in BOOLEAN
    /\ reply \in Replies \cup {NoReply}
    /\ bodyLen \in Nat
    /\ rc \in BOOLEAN
    /\ attempts \in Nat
    /\ applied \in 0 .. attempts
    /\ stored \in SUBSET (1 .. ReqLen)

(***************************************************************************)
(* The value returned is 0 exactly when something was sent, the response   *)
(* is ok and the last reply was a success; the service has then carried    *)
(* the request out, more than once when a reply was lost and it repeated.  *)
(* A retry that succeeds after a failure is a success although the status  *)
(* of the failure is still in the response (client_impl.cpp:104-107).      *)
(***************************************************************************)
ReturnAgrees == pc = "returned" =>
    /\ ret = 0 <=> attempts > 0 /\ is_ok(resp) /\ rc /\ Succeeded(reply)
    /\ ret = 0 => applied >= 1

(***************************************************************************)
(* What the service carries out has the whole stream for its body, from    *)
(* the stream's first byte, wherever the caller left it: an attempt that   *)
(* starts in the middle announces more than it sends and comes to nothing, *)
(* and the repeat starts at the first byte (client_impl.cpp:110-113).      *)
(* With an MD5 of the part behind the middle no attempt can succeed.       *)
(***************************************************************************)
BodyIsWhole == applied > 0 =>
    /\ stored = 1 .. ReqLen
    /\ digest \in {NoDigest, 0}

(***************************************************************************)
(* A successful call leaves in the response's stream the whole body of the *)
(* last attempt, piece for piece from the stream's first byte, and not one *)
(* piece of an attempt that died halfway between them.  Behind that body   *)
(* there is only what was there before: reset() seeks the stream back and  *)
(* truncates nothing (http_response.h:84-87), so the tail of a longer body *)
(* or of the caller's own contents stays, in a file the caller did not     *)
(* empty or one whose object was replaced by a shorter one meanwhile.      *)
(* This is so for files, for buffers, and for a string as long as pieces   *)
(* were put at its end only: a repeat that puts one below what an earlier  *)
(* attempt left in a string spoils it (memory_stream.h:119-133), and a     *)
(* call that returns 0 then has not got the body.                          *)
(***************************************************************************)
DownloadIsWhole == pc = "returned" /\ ret = 0 /\ ~patched =>
    /\ Len(out) >= bodyLen
    /\ \A k \in 1 .. Len(out) : IF k <= bodyLen THEN out[k] = attempts
                               ELSE out[k] < attempts

(***************************************************************************)
(* A repeated attempt starts with both streams at their first byte and a   *)
(* response that has no status line and no status of the attempt before;   *)
(* with the retries left it makes up the number allowed (README.md:141).   *)
(***************************************************************************)
RepeatsStartClean == pc = "execute" /\ attempts > 0 =>
    /\ inPos = 0
    /\ outPos = 0
    /\ ~hasLine
    /\ resp.http.status = 0
    /\ attempts + tries = 1 + (IF Retry > 0 THEN Retry ELSE 0)

(***************************************************************************)
(* Only a failure with a retryable status is repeated: a success never is, *)
(* whatever status an earlier attempt left in the response.                *)
(***************************************************************************)
OnlyFailuresRepeat == pc = "execute" /\ attempts > 0 =>
    /\ is_fail(resp)
    /\ Retryable(resp.status)
    /\ ~(rc /\ Succeeded(reply))

(***************************************************************************)
(* The call returns.                                                       *)
(***************************************************************************)
Returns == <>(pc = "returned")

-------------------------------------------------------------------------------
(***************************************************************************)
(* The inductive invariant behind the properties above.                    *)
(***************************************************************************)

Allowed == 1 + (IF Retry > 0 THEN Retry ELSE 0)

\* What each stage of a call has done to the counters.
Stage ==
    /\ pc = "build" => attempts = 0 /\ applied = 0 /\ digest = NoDigest
                       /\ ~rc
    /\ pc = "execute" => tries > 0
    /\ pc \notin {"build", "returned"} => attempts + tries = Allowed
    /\ pc \in {"send", "status", "body", "conclude"} => attempts > 0
    /\ pc = "send" => applied < attempts
    /\ attempts = 0 => ~rc

\* What has been received of the reply to the current attempt.
Receipt ==
    /\ pc \in {"send", "status", "body"} => ~rc
    /\ pc \in {"status", "body"} \/ rc =>
          /\ reply \in Replies
          /\ Succeeded(reply) => applied >= 1
    /\ pc = "body" \/ (rc /\ pc = "conclude") =>
          resp.http.status = reply.http

\* Only a string is written below its end as one.  Otherwise every piece before
\* the stream's position is of the current attempt and those behind it are not,
\* and a sink holds what it has room for.
Download ==
    /\ patched => sink = "string"
    /\ sink = "sink" => Len(out) <= room
    /\ pc \in {"build", "execute", "send", "status"} => outPos = 0
    /\ pc = "conclude" /\ rc /\ reply.http < 400 => outPos = bodyLen
    /\ ~patched =>
          /\ outPos <= Len(out)
          /\ pc \in {"send", "status", "body", "conclude"} =>
                \A k \in 1 .. Len(out) : IF k <= outPos THEN out[k] = attempts
                                        ELSE out[k] < attempts

SendInv ==
    /\ TypeOK
    /\ Stage
    /\ Receipt
    /\ Download
    /\ ReturnAgrees
    /\ BodyIsWhole
    /\ DownloadIsWhole
    /\ RepeatsStartClean
    /\ OnlyFailuresRepeat

===============================================================================
