------------------------- MODULE DownloadProperties -------------------------
(***************************************************************************)
(* What Client::parallel_download does to the caller's file, and what it   *)
(* tells the caller.                                                       *)
(***************************************************************************)
EXTENDS ParallelDownload

Ranges == [first : Nat, last : Int, to : Nat]
Transfer == [st : {"running", "ok", "fail"}, sent : 0 .. objLen, at : Nat,
             named : BOOLEAN]

(***************************************************************************)
(* The variables of ParallelDownload hold values of their types; a range   *)
(* of the batch is never empty.                                            *)
(***************************************************************************)
TypeOK ==
    /\ pc \in Steps
    /\ ret \in {0, 1}
    /\ objLen \in Nat /\ start \in Nat /\ blk \in Nat \ {0} /\ pos \in Nat
    /\ sizeArg \in Int /\ size \in Int
    /\ ranges \in Seq(Ranges)
    /\ size >= Small => \A k \in DOMAIN ranges : ranges[k].first <= ranges[k].last
    /\ DOMAIN part = DOMAIN ranges
    /\ \A k \in DOMAIN part : part[k] \in Transfer
    /\ \A b \in DOMAIN file : file[b] \in 0 .. objLen - 1
    /\ told \in Seq([ok : BOOLEAN, first : Nat, len : Int])
    /\ faults \in 0 .. Faults

\* The number of ranges fits an int (client.cpp:413).
Representable == CeilDiv(size, blk) <= IntMax

Batch == size >= Small

(***************************************************************************)
(* The ranges of a batch tile [start, start + size): the first starts at   *)
(* start, each starts after the one before, the last ends with the range   *)
(* asked for (client.cpp:416-429).                                         *)
(***************************************************************************)
RangesTile == Batch /\ Representable /\ ranges # <<>> =>
    /\ ranges[1].first = start
    /\ \A k \in 1 .. Len(ranges) - 1 : ranges[k + 1].first = ranges[k].last + 1
    /\ ranges[Len(ranges)].last = start + size - 1

\* Where the byte b of the object belongs in the file.
Place(b) == IF Batch THEN b ELSE pos + (b - start)

Wanted == {b \in start .. start + size - 1 : b < objLen}

(***************************************************************************)
(* Whatever the order of the transfers, however often they die and start   *)
(* again, and also when the call fails in the end: no byte is ever written *)
(* to a place that is not its own, or outside the range asked for.  Parts  *)
(* share one descriptor, and this is why they need no lock.                *)
(***************************************************************************)
EachByteInItsPlace == size > 0 =>
    \A p \in DOMAIN file : file[p] \in Wanted /\ p = Place(file[p])

(***************************************************************************)
(* A call that returns 0 has written every byte of the range that the      *)
(* object has.                                                             *)
(***************************************************************************)
FileIsRange == pc = "returned" /\ ret = 0 /\ size > 0 /\ (Batch => Representable) =>
    \A b \in Wanted : Place(b) \in DOMAIN file /\ file[Place(b)] = b

(***************************************************************************)
(* The call returns 0 exactly when every transfer succeeded, and a batch   *)
(* that was not given up has told the outcome of each of its ranges once.  *)
(***************************************************************************)
FailureIsReported ==
    /\ pc = "returned" /\ ret = 0 => Over /\ Failed = {}
    /\ pc = "returned" /\ told # <<>> =>
          /\ DOMAIN told = DOMAIN ranges
          /\ \A k \in DOMAIN told : told[k].ok <=> part[k].st = "ok"
          /\ (ret = 0) <=> \A k \in DOMAIN told : told[k].ok

\* The bytes that success_cb was told of range k.
Progress(k) ==
    IF told[k].ok THEN told[k].first .. told[k].first + told[k].len - 1 ELSE {}

(***************************************************************************)
(* What success_cb is told is in the file: the lengths are read from the   *)
(* replies (client.cpp:445-462), the bytes were written by the streams.    *)
(* No byte is told that is not in the file, at its place; none is told     *)
(* twice; and when the call returns 0 and every reply had its              *)
(* Content-Range header, the progress told adds up to the whole range, as  *)
(* far as the object goes.                                                 *)
(***************************************************************************)
ToldIsWritten ==
    /\ \A k \in DOMAIN told : \A b \in Progress(k) :
          b \in DOMAIN file /\ file[b] = b
    /\ \A j, k \in DOMAIN told : j # k => Progress(j) \cap Progress(k) = {}
    /\ /\ told # <<>> /\ ret = 0 /\ Representable
       /\ \A k \in DOMAIN part : part[k].named
       => \A b \in Wanted : \E k \in DOMAIN told : b \in Progress(k)

-------------------------------------------------------------------------------
(***************************************************************************)
(* The inductive invariant behind the properties above.                    *)
(***************************************************************************)

\* Nothing is planned before the size is known; nothing is told before the end.
Stages ==
    /\ pc \in {"start", "size"} =>
          ranges = <<>> /\ part = <<>> /\ DOMAIN file = {} /\ told = <<>>
    /\ pc = "start" => size = sizeArg
    /\ pc \in {"size", "fetch"} => size \in Nat
    /\ pc = "fetch" => told = <<>>
    /\ told # <<>> => Batch

\* The ranges asked for, as the arguments say.
Planned ==
    /\ ranges # <<>> => size \in Nat
    /\ ~Batch => \A k \in DOMAIN ranges :
          ranges[k] = [first |-> start, last |-> start + size - 1, to |-> pos]
    /\ Batch /\ ranges # <<>> =>
          /\ Len(ranges) = RangeCount
          /\ \A k \in DOMAIN ranges :
                /\ ranges[k].first = start + (k - 1) * blk
                /\ ranges[k].last = IF k = RangeCount THEN start + size - 1
                                    ELSE start + k * blk - 1
                /\ ranges[k].to = ranges[k].first
    /\ (pc = "fetch" \/ (pc = "returned" /\ ret = 0)) /\ (Batch => Representable)
          => ranges # <<>>

\* What has arrived of a range since its transfer last started is in the file.
Arrived ==
    \A k \in DOMAIN part :
        /\ part[k].at = part[k].sent
        /\ ~Refused(ranges[k]) => part[k].sent <= Served(ranges[k]).len
        /\ part[k].st = "ok" =>
              ~Refused(ranges[k]) /\ part[k].sent = Served(ranges[k]).len
        /\ \A j \in 0 .. part[k].sent - 1 : ranges[k].to + j \in DOMAIN file

\* What the loop over the header's characters makes of it.
ToldAsSent ==
    \A k \in DOMAIN told : told[k].ok =>
        IF part[k].named
          THEN /\ told[k].first = ranges[k].first
               /\ told[k].first + told[k].len =
                     IF ranges[k].last < objLen THEN ranges[k].last + 1 ELSE objLen
          ELSE told[k].len = 0

DownloadInv ==
    /\ TypeOK
    /\ Stages
    /\ Planned
    /\ Arrived
    /\ EachByteInItsPlace
    /\ FailureIsReported
    /\ ToldAsSent

-------------------------------------------------------------------------------
(***************************************************************************)
(* Statements of the documentation that the code does not keep.            *)
(***************************************************************************)

\* README.md:211-213: downloads the object, or the range that is named.  With
\* start inside the object and the size left to its default of -1, nothing
\* going wrong, the call succeeds.
DownloadsRest ==
    pc = "returned" /\ sizeArg = -1 /\ start < objLen /\ faults = 0 => ret = 0

===============================================================================
