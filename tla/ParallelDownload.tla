-------------------------- MODULE ParallelDownload --------------------------
(***************************************************************************)
(* Client::parallel_download: ask for the size if the caller names none,   *)
(* fetch a small object with one request (download_file) and a big one     *)
(* with a batch of ranges, each written through a stream of its own to the *)
(* caller's descriptor, then tell the caller's callbacks about each range. *)
(*                                                                         *)
(* The transfers of the batch run side by side and in any order, and each  *)
(* may die anywhere and start again (SendRequest, BatchSend).  A byte of   *)
(* the object is named by its position in it, so that the file shows where *)
(* each of its bytes comes from.  A start of -1, which download_file       *)
(* refuses for a small object, is left out.                                *)
(***************************************************************************)
EXTENDS PartSize, Sequences

CONSTANTS
    ObjLens,    \* length of the object
    Starts,     \* argument start
    SizeArgs,   \* argument size; negative: not known
    BlkSizes,   \* ClientOptions::multi_part_size
    Positions,  \* _start_pos of the caller's stream
    Small,      \* below it (10 MiB) the object is fetched with one request
    Faults      \* bound: attempts and calls that fail in one run

ASSUME DownloadAssumption ==
    /\ ObjLens \subseteq Nat
    /\ Starts \subseteq Nat
    /\ SizeArgs \subseteq Int
    /\ BlkSizes \subseteq Nat \ {0}
    /\ Positions \subseteq Nat
    /\ Small \in Nat \ {0}
    /\ Faults \in Nat

VARIABLES
    pc,      \* see Steps
    ret,     \* value returned: 0, or 1 for any nonzero code
    objLen,
    start,
    sizeArg, \* history: the argument
    size,    \* size of the range, once known
    blk,
    pos,
    ranges,  \* set_range of each request and where its stream starts
    part,    \* the transfer of each range; named: its reply had a Content-Range
    file,    \* the file's bytes, those never written left out
    told,    \* calls of success_cb and fail_cb, in order
    faults   \* history: attempts and calls that failed

argVars == <<objLen, start, sizeArg, blk, pos>>
vars == <<pc, ret, argVars, size, ranges, part, file, told, faults>>

Steps == {"start", "size", "fetch", "returned"}

Init ==
    /\ pc = "start"
    /\ ret = 0
    /\ objLen \in ObjLens
    /\ start \in Starts
    /\ sizeArg \in SizeArgs
    /\ size = sizeArg
    /\ blk \in BlkSizes
    /\ pos \in Positions
    /\ ranges = <<>>
    /\ part = <<>>
    /\ file = <<>>
    /\ told = <<>>
    /\ faults = 0

-------------------------------------------------------------------------------
(* Choosing the ranges *)

KnowSize ==
    /\ pc = "start"
    /\ sizeArg >= 0
    /\ pc' = "size"
    /\ UNCHANGED <<ret, argVars, size, ranges, part, file, told, faults>>

\* The size of the whole object, wherever start is.
AskSize ==
    /\ pc = "start"
    /\ sizeArg < 0
    /\ size' = objLen
    /\ pc' = "size"
    /\ UNCHANGED <<ret, argVars, ranges, part, file, told, faults>>

\* The service refuses; or nothing was sent or no length came back, the
\* response is ok all the same, and download_file refuses the size of -1.
AskFails ==
    /\ pc = "start"
    /\ sizeArg < 0
    /\ faults < Faults
    /\ faults' = faults + 1
    /\ ret' = 1
    /\ pc' = "returned"
    /\ UNCHANGED <<argVars, size, ranges, part, file, told>>

Idle == [st |-> "running", sent |-> 0, at |-> 0, named |-> FALSE]

Fetch(rs) ==
    /\ ranges' = rs
    /\ part' = [k \in DOMAIN rs |-> Idle]
    /\ pc' = "fetch"
    /\ UNCHANGED <<ret, argVars, size, file, told, faults>>

\* download_file, into the caller's stream.
Single ==
    /\ pc = "size"
    /\ size < Small
    /\ Fetch(<<[first |-> start, last |-> start + size - 1, to |-> pos]>>)

RangeCount == ToInt(CeilDiv(size, blk))

\* Mutant of Cut: the last range is as long as the others.
CutWhole ==
    /\ pc = "size"
    /\ size >= Small
    /\ RangeCount >= 0
    /\ Fetch([k \in 1 .. RangeCount |->
                LET off == start + (k - 1) * blk
                IN  [first |-> off, last |-> off + blk - 1, to |-> off]])

\* The last range takes what is left.  Every stream starts at its range's
\* position in the object, whatever pos is.
Cut ==
    /\ pc = "size"
    /\ size >= Small
    /\ RangeCount >= 0
    /\ Fetch([k \in 1 .. RangeCount |->
                LET off == start + (k - 1) * blk
                    len == IF k = RangeCount THEN size - (off - start) ELSE blk
                IN  [first |-> off, last |-> off + len - 1, to |-> off]])

\* std::vector(n) with an n that became negative.
CutThrows ==
    /\ pc = "size"
    /\ size >= Small
    /\ RangeCount < 0
    /\ ret' = 1
    /\ pc' = "returned"
    /\ UNCHANGED <<argVars, size, ranges, part, file, told, faults>>

-------------------------------------------------------------------------------
(* The transfers *)

\* GetObjectRequest leaves a negative end out of the Range header, and the
\* service ignores a range that ends before it starts.
Whole(r)   == r.last >= 0 /\ r.last < r.first
Refused(r) == ~Whole(r) /\ r.first >= objLen

\* What the service sends: the first byte and the number of bytes.
Served(r) ==
    LET from == IF Whole(r) THEN 0 ELSE r.first
        to   == IF Whole(r) \/ r.last < 0 \/ r.last >= objLen
                  THEN objLen - 1 ELSE r.last
    IN  [from |-> from, len |-> to - from + 1]

\* A byte arrives and FileOutputStream::write puts it at the stream's offset.
Write(k) ==
    LET r == ranges[k]  p == part[k]  byte == r.to + p.at
    IN  /\ pc = "fetch"
        /\ p.st = "running"
        /\ ~Refused(r)
        /\ p.sent < Served(r).len
        /\ file' = [b \in (DOMAIN file) \cup {byte} |->
                       IF b = byte THEN Served(r).from + p.sent ELSE file[b]]
        /\ part' = [part EXCEPT ![k].sent = @ + 1, ![k].at = @ + 1]
        /\ UNCHANGED <<pc, ret, argVars, size, ranges, told, faults>>

\* Mutant of Restart: the stream is not sought back.
RestartWhereItWas(k) ==
    /\ pc = "fetch"
    /\ part[k].st = "running"
    /\ faults < Faults
    /\ faults' = faults + 1
    /\ part' = [part EXCEPT ![k].sent = 0]
    /\ UNCHANGED <<pc, ret, argVars, size, ranges, file, told>>

\* An attempt dies and the sender repeats it, the stream sought back.
Restart(k) ==
    /\ pc = "fetch"
    /\ part[k].st = "running"
    /\ faults < Faults
    /\ faults' = faults + 1
    /\ part' = [part EXCEPT ![k].sent = 0, ![k].at = 0]
    /\ UNCHANGED <<pc, ret, argVars, size, ranges, file, told>>

\* The whole body has come.  A reply with the whole object has no Content-Range
\* header, and a reply with a part of it may come without.
Complete(k) ==
    /\ pc = "fetch"
    /\ part[k].st = "running"
    /\ ~Refused(ranges[k])
    /\ part[k].sent = Served(ranges[k]).len
    /\ \E named \in IF Whole(ranges[k]) THEN {FALSE} ELSE BOOLEAN :
          part' = [part EXCEPT ![k].st = "ok", ![k].named = named]
    /\ UNCHANGED <<pc, ret, argVars, size, ranges, file, told, faults>>

\* The service refuses the range, or the last attempt dies.
Fail(k) ==
    /\ pc = "fetch"
    /\ part[k].st = "running"
    /\ \/ Refused(ranges[k]) /\ UNCHANGED faults
       \/ faults < Faults /\ faults' = faults + 1
    /\ part' = [part EXCEPT ![k].st = "fail"]
    /\ UNCHANGED <<pc, ret, argVars, size, ranges, file, told>>

\* The batch call is given up: parallel_download returns its code at once.
GiveUp ==
    /\ pc = "fetch"
    /\ faults < Faults
    /\ faults' = faults + 1
    /\ ret' = 1
    /\ pc' = "returned"
    /\ UNCHANGED <<argVars, size, ranges, part, file, told>>

-------------------------------------------------------------------------------
(* Reporting *)

Failed == {k \in DOMAIN part : part[k].st = "fail"}
Over   == \A k \in DOMAIN part : part[k].st # "running"

\* download_file calls no callback.
ReturnSingle ==
    /\ pc = "fetch"
    /\ size < Small
    /\ Over
    /\ ret' = IF Failed = {} THEN 0 ELSE 1
    /\ pc' = "returned"
    /\ UNCHANGED <<argVars, size, ranges, part, file, told, faults>>

\* The loop over the header's characters, bytes first-last/total: buf has the
\* digits since the last mark, each mark takes what they say.
NothingRead  == [first |-> 0, len |-> 0, buf |-> 0]
Digits(s, n) == [s EXCEPT !.buf = n]
AtDash(s)    == [s EXCEPT !.first = s.buf, !.buf = 0]
AtSlash(s)   == [s EXCEPT !.len = s.buf - s.first + 1]

ContentRange(k) ==
    LET sent == Served(ranges[k])
    IN  IF part[k].named
          THEN AtSlash(Digits(AtDash(Digits(NothingRead, sent.from)),
                              sent.from + sent.len - 1))
          ELSE NothingRead

\* What fail_cb is told.
ToldFailed(k) == [ok |-> FALSE, first |-> ranges[k].first,
                  len |-> ranges[k].last - ranges[k].first]

\* Mutant of Told: the range asked for, not the one the reply names.
ToldAsAsked(k) ==
    IF k \in Failed THEN ToldFailed(k)
    ELSE [ok |-> TRUE, first |-> ranges[k].first,
          len |-> ranges[k].last - ranges[k].first + 1]

Told(k) ==
    IF k \in Failed THEN ToldFailed(k)
    ELSE [ok |-> TRUE, first |-> ContentRange(k).first, len |-> ContentRange(k).len]

\* Mutant of ReportAll: only the last range decides the value returned.
ReportLast ==
    /\ pc = "fetch"
    /\ size >= Small
    /\ Over
    /\ told' = [k \in DOMAIN ranges |-> Told(k)]
    /\ ret' = IF Len(ranges) \in Failed THEN 1 ELSE 0
    /\ pc' = "returned"
    /\ UNCHANGED <<argVars, size, ranges, part, file, faults>>

\* The loop over the contexts, in order.
ReportAll ==
    /\ pc = "fetch"
    /\ size >= Small
    /\ Over
    /\ told' = [k \in DOMAIN ranges |-> Told(k)]
    /\ ret' = IF Failed = {} THEN 0 ELSE 1
    /\ pc' = "returned"
    /\ UNCHANGED <<argVars, size, ranges, part, file, faults>>

Terminated == pc = "returned" /\ UNCHANGED vars

Next ==
    \/ KnowSize \/ AskSize \/ AskFails
    \/ Single \/ Cut \/ CutThrows
    \/ \E k \in DOMAIN part : Write(k) \/ Restart(k) \/ Complete(k) \/ Fail(k)
    \/ GiveUp \/ ReturnSingle \/ ReportAll
    \/ Terminated

Spec == Init /\ [][Next]_vars

===============================================================================
