---------------------------- MODULE ParallelCopy ----------------------------
(***************************************************************************)
(* Client::parallel_copy: ask for the source's size and etag, copy a small *)
(* object with one request, and a big one in ranges through a multipart    *)
(* upload, while others write the source.                                  *)
(*                                                                         *)
(* The batch call and the helper are taken as ParallelUpload takes them;   *)
(* what is new here is which version of the source each request reads.     *)
(***************************************************************************)
EXTENDS PartSize, Sequences

CONSTANTS
    Sizes,       \* sizes of the source's versions
    BlkSizes,    \* ClientOptions::multi_part_size
    MaxVersions, \* bound: versions the source has in one run
    Faults       \* bound: messages lost or refused in one run

ASSUME CopyAssumption ==
    /\ Sizes \subseteq Nat
    /\ BlkSizes \subseteq Int
    /\ \A s \in Sizes : CeilDiv(s, Unit) <= IntMax
    /\ MaxVersions \in Nat \ {0}
    /\ Faults \in Nat

VARIABLES
    pc,        \* see Steps
    ret,       \* value returned: see Returns
    versions,  \* history: the size of each version of the source, or Gone
    etag,      \* meta.etag(): the version that was asked about, or 0
    size,      \* meta.content_length()
    blk,       \* _impl->options().multi_part_size
    part_size,
    part_num,
    off,
    ctx,       \* what each context's request copies, in order
    answer,    \* of each part: "none", "ok" or "fail"
    session,   \* the upload at the service: see Sessions
    stored,    \* the parts the service has: number |-> version and range
    dst,       \* the version the destination is a copy of, or 0
    faults     \* history: messages lost or refused

metaVars  == <<etag, size, blk>>
sliceVars == <<part_size, part_num, off, ctx>>
vars == <<pc, ret, versions, metaVars, sliceVars, answer, session, stored, dst,
          faults>>

Steps == {"head", "small", "open", "slice", "batch", "collect", "complete",
          "abort", "returned"}
Returns == {"ok", "RET_SERVICE_ERROR", "RET_KEY_NOT_EXIST",
            "RET_CLIENT_ERROR"}  \* stands for libcurl's codes too
Sessions == {"none", "open", "aborted", "orphaned"}
Gone == -1  \* the source was deleted

Init ==
    /\ pc = "head"
    /\ ret = "ok"
    /\ \E s \in Sizes : versions = <<s>>
    /\ etag = 0
    /\ size = 0
    /\ blk \in BlkSizes
    /\ part_size = 0
    /\ part_num = 0
    /\ off = 0
    /\ ctx = <<>>
    /\ answer = <<>>
    /\ session = "none"
    /\ stored = <<>>
    /\ dst = 0
    /\ faults = 0

Fault == faults < Faults /\ faults' = faults + 1

\* The version a request reads now, and whether there is one.
Current == Len(versions)
Exists  == versions[Current] # Gone

\* Others write the source, or delete it, whenever they like.
Overwrite ==
    /\ pc # "returned"
    /\ Len(versions) < MaxVersions
    /\ \E s \in Sizes \cup {Gone} : versions' = Append(versions, s)
    /\ UNCHANGED <<pc, ret, metaVars, sliceVars, answer, session, stored, dst,
                   faults>>

-------------------------------------------------------------------------------
(* The small object *)

HeadSource ==
    /\ pc = "head"
    /\ Exists
    /\ etag' = Current
    /\ size' = versions[Current]
    /\ part_size' = calc_part_size(size', blk)
    /\ part_num' = PartCount(size', part_size')
    /\ pc' = IF size' < part_size' THEN "small" ELSE "open"
    /\ UNCHANGED <<ret, versions, blk, off, ctx, answer, session, stored, dst,
                   faults>>

\* Whatever the reason, a missing source included.
HeadFails ==
    /\ pc = "head"
    /\ IF Exists THEN Fault ELSE UNCHANGED faults
    /\ ret' = "RET_SERVICE_ERROR"
    /\ pc' = "returned"
    /\ UNCHANGED <<versions, metaVars, sliceVars, answer, session, stored, dst>>

\* copy_object names no version: it copies the one there is.
CopySmall ==
    /\ pc = "small"
    /\ Exists
    /\ dst' = Current
    /\ pc' = "returned"
    /\ UNCHANGED <<ret, versions, metaVars, sliceVars, answer, session, stored,
                   faults>>

\* Mutant of SmallFails: only the code of send_request would be looked at, and
\* copy_object drops it.
SmallFailsUnseen ==
    /\ pc = "small"
    /\ IF Exists THEN Fault ELSE UNCHANGED faults
    /\ UNCHANGED dst
    /\ pc' = "returned"
    /\ UNCHANGED <<ret, versions, metaVars, sliceVars, answer, session, stored>>

\* A lost reply leaves a copy behind a failure.
SmallFails ==
    /\ pc = "small"
    /\ \/ Exists /\ Fault /\ dst' \in {dst, Current} /\ ret' = "RET_SERVICE_ERROR"
       \/ ~Exists /\ ret' = "RET_KEY_NOT_EXIST" /\ UNCHANGED <<dst, faults>>
    /\ pc' = "returned"
    /\ UNCHANGED <<versions, metaVars, sliceVars, answer, session, stored>>

-------------------------------------------------------------------------------
(* The big object *)

\* MultipleUploadHelper::init, and the contexts.
Open ==
    /\ pc = "open"
    /\ session' = "open"
    /\ answer' = [k \in 1 .. part_num |-> "none"]
    /\ pc' = "slice"
    /\ UNCHANGED <<ret, versions, metaVars, sliceVars, stored, dst, faults>>

OpenFails ==
    /\ pc = "open"
    /\ Fault
    /\ ret' = "RET_SERVICE_ERROR"
    /\ pc' = "returned"
    /\ UNCHANGED <<versions, metaVars, sliceVars, answer, session, stored, dst>>

\* One turn of the loop: the request for [off, off + part_size - 1].
Slice ==
    /\ pc = "slice"
    /\ off < size
    /\ part_size' = IF off + part_size > size THEN size - off ELSE part_size
    /\ ctx' = Append(ctx, [first |-> off, last |-> off + part_size' - 1])
    /\ off' = off + part_size'
    /\ UNCHANGED <<pc, ret, versions, metaVars, part_num, answer, session,
                   stored, dst, faults>>

Sliced ==
    /\ pc = "slice"
    /\ off >= size
    /\ pc' = "batch"
    /\ UNCHANGED <<ret, versions, metaVars, sliceVars, answer, session, stored,
                   dst, faults>>

\* The service stores as part k the range of the version it finds.
Store(k) ==
    stored' = [n \in (DOMAIN stored) \cup {k} |->
        IF n = k THEN [ver |-> Current, range |-> ctx[k]] ELSE stored[n]]

\* Mutant of Matches: no x-bce-copy-source-if-match.
MatchesAny == Exists

\* The service copies a range only of the version named by the request.  Every
\* object has an etag: for an empty one the code sends no condition
\* (copy_request.cpp:23).
Matches == Exists /\ Current = etag

PartCopied(k) ==
    /\ pc = "batch"
    /\ answer[k] = "none"
    /\ Matches
    /\ Store(k)
    /\ answer' = [answer EXCEPT ![k] = "ok"]
    /\ UNCHANGED <<pc, ret, versions, metaVars, sliceVars, session, dst, faults>>

\* Refused, answered with an error in a 200, or its last reply lost.
PartFails(k) ==
    /\ pc = "batch"
    /\ answer[k] = "none"
    /\ \/ ~Matches /\ UNCHANGED <<stored, faults>>
       \/ Matches /\ Fault /\ (Store(k) \/ UNCHANGED stored)
    /\ answer' = [answer EXCEPT ![k] = "fail"]
    /\ UNCHANGED <<pc, ret, versions, metaVars, sliceVars, session, dst>>

BatchReturns ==
    /\ pc = "batch"
    /\ \A k \in DOMAIN answer : answer[k] # "none"
    /\ pc' = "collect"
    /\ UNCHANGED <<ret, versions, metaVars, sliceVars, answer, session, stored,
                   dst, faults>>

\* The batch's early returns: no handle, or libcurl takes none (BatchSend!Abandon).
BatchGivesUp ==
    /\ pc = "batch"
    /\ Fault
    /\ ret' = "RET_CLIENT_ERROR"
    /\ pc' = "abort"
    /\ UNCHANGED <<versions, metaVars, sliceVars, answer, session, stored, dst>>

\* One part that failed is enough not to complete.
Collect ==
    /\ pc = "collect"
    /\ IF \E k \in DOMAIN answer : answer[k] = "fail"
         THEN pc' = "abort" /\ ret' = "RET_SERVICE_ERROR"
         ELSE pc' = "complete" /\ UNCHANGED ret
    /\ UNCHANGED <<versions, metaVars, sliceVars, answer, session, stored, dst,
                   faults>>

\* The request to complete is empty (ParallelUpload!CompleteUpload).
CompleteCopy ==
    /\ pc = "complete"
    /\ ret' = "RET_SERVICE_ERROR"
    /\ pc' = "abort"
    /\ UNCHANGED <<versions, metaVars, sliceVars, answer, session, stored, dst,
                   faults>>

\* ~MultipleUploadHelper; nobody looks at the result of the request.
Abort ==
    /\ pc = "abort"
    /\ \/ session' = "aborted" /\ stored' = <<>> /\ UNCHANGED faults
       \/ Fault /\ session' = "orphaned" /\ UNCHANGED stored
    /\ pc' = "returned"
    /\ UNCHANGED <<ret, versions, metaVars, sliceVars, answer, dst>>

Terminated == pc = "returned" /\ UNCHANGED vars

Next == \/ Overwrite
        \/ HeadSource \/ HeadFails \/ CopySmall \/ SmallFails
        \/ Open \/ OpenFails \/ Slice \/ Sliced
        \/ (\E k \in DOMAIN answer : PartCopied(k) \/ PartFails(k))
        \/ BatchReturns \/ BatchGivesUp \/ Collect \/ CompleteCopy \/ Abort
        \/ Terminated

Spec == Init /\ [][Next]_vars

-------------------------------------------------------------------------------
(***************************************************************************)
(* The variables of ParallelCopy hold values of their types.               *)
(***************************************************************************)
TypeOK ==
    /\ pc \in Steps /\ ret \in Returns /\ session \in Sessions
    /\ versions \in Seq(Sizes \cup {Gone}) /\ Len(versions) \in 1 .. MaxVersions
    /\ etag \in 0 .. Len(versions) /\ dst \in 0 .. Len(versions)
    /\ size \in Nat /\ blk \in BlkSizes
    /\ part_size \in Nat /\ part_num \in Nat /\ off \in 0 .. size
    /\ ctx \in Seq([first : Nat, last : Nat])
    /\ answer \in Seq({"none", "ok", "fail"})
    /\ \A k \in DOMAIN stored : stored[k].ver \in DOMAIN versions
    /\ faults \in 0 .. Faults

(***************************************************************************)
(* However the source is written meanwhile, a copy that is completed is    *)
(* made of one version: the parts the service has are ranges of the        *)
(* version that was asked about, one per context allocated, each begins    *)
(* after the one before it, and the last ends with that version            *)
(* (client.cpp:559-582), given that the service names an etag for every    *)
(* object.                                                                 *)
(***************************************************************************)
CompletesOneVersion == pc = "complete" =>
    /\ DOMAIN stored = 1 .. part_num
    /\ \A k \in 1 .. part_num :
          /\ stored[k].ver = etag
          /\ stored[k].range.first =
                IF k = 1 THEN 0 ELSE stored[k - 1].range.last + 1
          /\ stored[k].range.first <= stored[k].range.last
    /\ stored[part_num].range.last + 1 = versions[etag]

(***************************************************************************)
(* A call that returns 0 has made a copy, of the version it asked about or *)
(* of a newer one that exists.                                             *)
(***************************************************************************)
SuccessMeansCopied == pc = "returned" /\ ret = "ok" =>
    /\ dst \in etag .. Len(versions) \ {0}
    /\ versions[dst] # Gone

-------------------------------------------------------------------------------
(***************************************************************************)
(* The inductive invariant behind the properties above.                    *)
(***************************************************************************)
Whole == calc_part_size(size, blk)

\* What HeadSource fixes for good.
Planned ==
    /\ pc \notin {"head", "returned"} => etag # 0
    /\ pc \in {"head", "small", "open"} => ctx = <<>> /\ off = 0 /\ stored = <<>>
    /\ pc \in {"open", "slice", "batch", "collect", "complete"} => size >= Whole
    /\ etag # 0 =>
          /\ size \in Sizes
          /\ versions[etag] = size
          /\ part_num = PartCount(size, Whole)
    /\ pc = "open" => part_size = Whole
    /\ pc = "abort" => ret # "ok"

\* The ranges cut so far tile the source; only the last is ever shorter.
RangesCut == pc \in {"slice", "batch", "collect", "complete"} =>
    /\ \A k \in 1 .. Len(ctx) :
          /\ ctx[k].first = (k - 1) * Whole
          /\ ctx[k].last = IF k * Whole <= size THEN k * Whole - 1 ELSE size - 1
          /\ ctx[k].first <= ctx[k].last
    /\ off = IF Len(ctx) * Whole <= size THEN Len(ctx) * Whole ELSE size
    /\ off < size => part_size = Whole
    /\ pc # "slice" => off >= size

\* The service has, under the numbers of contexts, what they name of the version
\* that was asked about.
PartsStored == pc \in {"slice", "batch", "collect", "complete"} =>
    /\ Len(answer) = part_num
    /\ pc = "slice" => DOMAIN stored = {}
    /\ \A k \in DOMAIN stored :
          k \in 1 .. Len(ctx) /\ stored[k] = [ver |-> etag, range |-> ctx[k]]
    /\ \A k \in 1 .. Len(answer) : answer[k] = "ok" => k \in DOMAIN stored
    /\ pc = "collect" => \A k \in 1 .. Len(answer) : answer[k] # "none"
    /\ pc = "complete" => \A k \in 1 .. Len(answer) : answer[k] = "ok"

CopyInv ==
    /\ TypeOK
    /\ Planned
    /\ RangesCut
    /\ PartsStored
    /\ SuccessMeansCopied

===============================================================================
