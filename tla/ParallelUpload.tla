--------------------------- MODULE ParallelUpload ---------------------------
(***************************************************************************)
(* Client::parallel_upload with MultipleUploadHelper: open a multipart     *)
(* upload, cut the file into parts, upload them with the batch call,       *)
(* complete the upload, and abort it when anything went wrong.             *)
(*                                                                         *)
(* The batch call is taken at its contract (RequestPool): parts are        *)
(* answered in any order, or the call is given up.  The service's side of  *)
(* the upload is kept too, because the point of the protocol is what is    *)
(* left there when the call returns.  A message may be lost, and then the  *)
(* service may have acted.                                                 *)
(***************************************************************************)
EXTENDS PartSize, Sequences

CONSTANTS
    Sizes,     \* file.get_size()
    BlkSizes,  \* ClientOptions::multi_part_size
    Retry,     \* ClientOptions::retry
    Faults     \* bound: messages lost or refused in one run

ASSUME UploadAssumption ==
    /\ Sizes \subseteq Nat
    /\ BlkSizes \subseteq Int
    /\ \A s \in Sizes : CeilDiv(s, Unit) <= IntMax  \* no file has 2^31 MiB
    /\ Retry \in Nat
    /\ Faults \in Nat

VARIABLES
    pc,        \* see Steps
    ret,       \* value returned: 0, or 1 for any nonzero code
    size,
    blk,       \* _impl->options().multi_part_size
    whole,     \* part_size as calc_part_size gave it
    part_size,
    part_num,
    off,
    i,
    ctx,       \* what each context's request uploads, in order
    answer,    \* of each part: "none", "ok" or "fail"
    parts,     \* part numbers in _complete_request, or NoRequest
    session,   \* the service's upload: see Sessions
    stored,    \* the parts the service has: number |-> slice
    strays,    \* history: uploads the service opened and the SDK never heard of
    tried,     \* attempts made at the current single request
    faults     \* history: messages lost or refused

fileVars    == <<size, blk>>
sliceVars   == <<whole, part_size, part_num, off, i, ctx>>
serviceVars == <<session, stored, strays>>
vars == <<pc, ret, fileVars, sliceVars, answer, parts, serviceVars, tried,
          faults>>

Steps == {"init", "plan", "slice", "batch", "collect", "complete", "abort",
          "returned"}
Sessions == {"none", "open", "completed", "aborted",
             "orphaned"}  \* open, and the request to abort it failed
NoRequest == {0}  \* _complete_request is NULL (part numbers start at 1)

Init ==
    /\ pc = "init"
    /\ ret = 0
    /\ size \in Sizes
    /\ blk \in BlkSizes
    /\ whole = calc_part_size(size, blk)
    /\ part_size = whole
    /\ part_num = PartCount(size, whole)
    /\ off = 0
    /\ i = 0
    /\ ctx = <<>>
    /\ answer = <<>>
    /\ parts = NoRequest
    /\ session = "none"
    /\ stored = <<>>
    /\ strays = 0
    /\ tried = 0
    /\ faults = 0

Fault == faults < Faults /\ faults' = faults + 1

-------------------------------------------------------------------------------
(* MultipleUploadHelper::init *)

InitUpload ==
    /\ pc = "init"
    /\ session' = "open"
    /\ parts' = {}
    /\ tried' = 0
    /\ pc' = "plan"
    /\ UNCHANGED <<ret, fileVars, sliceVars, answer, stored, strays, faults>>

\* The reply is lost; the single send_request repeats the request while it has
\* retries, and every repeat may open another upload.
InitLost ==
    /\ pc = "init"
    /\ Fault
    /\ strays' \in {strays, strays + 1}
    /\ IF tried < Retry
         THEN tried' = tried + 1 /\ UNCHANGED <<pc, ret>>
         ELSE pc' = "returned" /\ ret' = 1 /\ UNCHANGED tried
    /\ UNCHANGED <<fileVars, sliceVars, answer, parts, session, stored>>

\* The service refuses: RET_SERVICE_ERROR, and there is nothing to abort.
InitRefused ==
    /\ pc = "init"
    /\ Fault
    /\ pc' = "returned"
    /\ ret' = 1
    /\ UNCHANGED <<fileVars, sliceVars, answer, parts, serviceVars, tried>>

-------------------------------------------------------------------------------
(* Cutting the file *)

\* The contexts are allocated once, before the loop.
Plan ==
    /\ pc = "plan"
    /\ pc' = "slice"
    /\ answer' = [k \in 1 .. part_num |-> "none"]
    /\ UNCHANGED <<ret, fileVars, sliceVars, parts, serviceVars, tried, faults>>

\* Mutant of Slice: the last part is not cut to the end of the file.
SliceWhole ==
    /\ pc = "slice"
    /\ off < size
    /\ ctx' = Append(ctx, [off |-> off, len |-> part_size])
    /\ off' = off + part_size
    /\ i' = i + 1
    /\ UNCHANGED <<pc, ret, fileVars, whole, part_size, part_num, answer,
                   parts, serviceVars, tried, faults>>

\* One turn of the loop fills ctx[i].
Slice ==
    /\ pc = "slice"
    /\ off < size
    /\ part_size' = IF off + part_size > size THEN size - off ELSE part_size
    /\ ctx' = Append(ctx, [off |-> off, len |-> part_size'])
    /\ off' = off + part_size'
    /\ i' = i + 1
    /\ UNCHANGED <<pc, ret, fileVars, whole, part_num, answer, parts,
                   serviceVars, tried, faults>>

Sliced ==
    /\ pc = "slice"
    /\ off >= size
    /\ pc' = "batch"
    /\ UNCHANGED <<ret, fileVars, sliceVars, answer, parts, serviceVars, tried,
                   faults>>

-------------------------------------------------------------------------------
(* The batch call *)

\* Part k is stored.  The part's stream is built on the file's descriptor with
\* an offset counted from the file's start.
Store(k) == stored' = [n \in (DOMAIN stored) \cup {k} |->
                          IF n = k THEN ctx[k] ELSE stored[n]]

PartStored(k) ==
    /\ pc = "batch"
    /\ answer[k] = "none"
    /\ Store(k)
    /\ answer' = [answer EXCEPT ![k] = "ok"]
    /\ UNCHANGED <<pc, ret, fileVars, sliceVars, parts, session, strays, tried,
                   faults>>

\* The part is refused or its last reply is lost.
PartFails(k) ==
    /\ pc = "batch"
    /\ answer[k] = "none"
    /\ Fault
    /\ Store(k) \/ UNCHANGED stored
    /\ answer' = [answer EXCEPT ![k] = "fail"]
    /\ UNCHANGED <<pc, ret, fileVars, sliceVars, parts, session, strays, tried>>

\* send_request returns 0 when every part has an answer, whatever it is.
BatchReturns ==
    /\ pc = "batch"
    /\ \A k \in DOMAIN answer : answer[k] # "none"
    /\ pc' = "collect"
    /\ UNCHANGED <<ret, fileVars, sliceVars, answer, parts, serviceVars, tried,
                   faults>>

\* It gives up with a nonzero code, or by the exception that a stored part
\* without an etag raises in UploadPartResponse: the helper's destructor is next.
BatchGivesUp ==
    /\ pc = "batch"
    /\ Fault
    /\ ret' = 1
    /\ pc' = "abort"
    /\ UNCHANGED <<fileVars, sliceVars, answer, parts, serviceVars, tried>>

-------------------------------------------------------------------------------
(* Completing *)

\* add_part is called for the parts that succeeded; it refuses a number above
\* MaxParts, and nobody looks at its result.
AddedParts == {k \in DOMAIN answer : answer[k] = "ok" /\ k <= MaxParts}

\* Mutant of Collect: failed parts are skipped and forgotten.
CollectOk ==
    /\ pc = "collect"
    /\ parts' = AddedParts
    /\ pc' = "complete"
    /\ UNCHANGED <<ret, fileVars, sliceVars, answer, serviceVars, tried,
                   faults>>

Collect ==
    /\ pc = "collect"
    /\ parts' = AddedParts
    /\ IF \E k \in DOMAIN answer : answer[k] = "fail"
         THEN pc' = "abort" /\ ret' = 1
         ELSE pc' = "complete" /\ UNCHANGED ret
    /\ UNCHANGED <<fileVars, sliceVars, answer, serviceVars, tried, faults>>

\* MultipleUploadHelper::complete.  CompleteMultipartUploadRequest does not
\* override build_command_specific (its definition is commented out): the
\* request that goes out is a GET of the object, signed as method UNKNOWN, and
\* names neither the upload nor the parts.  The service cannot complete anything
\* from it and its signature does not match: the response is a failure.
CompleteUpload ==
    /\ pc = "complete"
    /\ ret' = 1
    /\ pc' = "abort"
    /\ UNCHANGED <<fileVars, sliceVars, answer, parts, serviceVars, tried,
                   faults>>

\* Mutant of Abort: the destructor only frees the request.
AbortNothing ==
    /\ pc = "abort"
    /\ pc' = "returned"
    /\ parts' = NoRequest
    /\ UNCHANGED <<ret, fileVars, sliceVars, answer, serviceVars, tried, faults>>

\* ~MultipleUploadHelper aborts an upload it has a request for.
Abort ==
    /\ pc = "abort"
    /\ session' = "aborted"
    /\ stored' = <<>>
    /\ parts' = NoRequest
    /\ pc' = "returned"
    /\ UNCHANGED <<ret, fileVars, sliceVars, answer, strays, tried, faults>>

\* The abort is refused, or lost in every attempt; nobody looks at its result.
AbortFails ==
    /\ pc = "abort"
    /\ Fault
    /\ session' = "orphaned"
    /\ parts' = NoRequest
    /\ pc' = "returned"
    /\ UNCHANGED <<ret, fileVars, sliceVars, answer, stored, strays, tried>>

Terminated == pc = "returned" /\ UNCHANGED vars

Step == \/ InitUpload \/ InitLost \/ InitRefused
        \/ Plan \/ Slice \/ Sliced
        \/ (\E k \in DOMAIN answer : PartStored(k) \/ PartFails(k))
        \/ BatchReturns \/ BatchGivesUp
        \/ Collect \/ CompleteUpload \/ Abort \/ AbortFails

Next == Step \/ Terminated

Spec == Init /\ [][Next]_vars

===============================================================================
