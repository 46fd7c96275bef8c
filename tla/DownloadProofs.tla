---------------------------- MODULE DownloadProofs ----------------------------
(***************************************************************************)
(* The properties of parallel_download for every object, range, block size *)
(* and number of transfers, whatever order they run in.                    *)
(***************************************************************************)
EXTENDS DownloadProperties, SequenceTheorems, TLAPS

(***************************************************************************)
(* The number of ranges                                                    *)
(***************************************************************************)
LEMMA TimesMono ==
    ASSUME NEW m \in Nat, NEW n \in Nat, NEW b \in Nat, m <= n
    PROVE  m * b <= n * b
  OBVIOUS

\* The number of blocks that cover s, and no block too many.
LEMMA BlockCount ==
    ASSUME NEW s \in Nat, NEW b \in Nat \ {0}
    PROVE  /\ CeilDiv(s, b) \in Nat
           /\ s <= CeilDiv(s, b) * b
           /\ CeilDiv(s, b) * b < s + b
  <1>1. s + b - 1 \in Nat
    OBVIOUS
  <1>2. \A a \in Nat : a \div b \in Nat /\ (a \div b) * b <= a
                         /\ a < (a \div b) * b + b
    OBVIOUS
  <1>3. QED
    BY <1>1, <1>2 DEF CeilDiv

\* The conversion to int makes a count smaller or leaves it.
LEMMA IntAtMost ==
    ASSUME NEW x \in Nat
    PROVE  /\ ToInt(x) \in Int /\ ToInt(x) <= x
           /\ x <= IntMax => ToInt(x) = x
  <1>1. IntMod \in Nat \ {0} /\ IntMax \in Nat /\ IntMax < IntMod
    BY PartSizeAssumption DEF IntMax
  <1>2. x % IntMod \in Nat /\ x % IntMod <= x
    BY <1>1
  <1>3. x < IntMod => x % IntMod = x
    BY <1>1
  <1>4. QED
    BY <1>1, <1>2, <1>3 DEF ToInt

\* The last range of a batch is not empty, even when the count does not fit.
LEMMA CountFits ==
    ASSUME size \in Nat, blk \in Nat \ {0}, RangeCount >= 1
    PROVE  RangeCount \in Nat /\ (RangeCount - 1) * blk < size
  <1> DEFINE n == RangeCount
             c == CeilDiv(size, blk)
  <1>1. c \in Nat /\ c * blk < size + blk
    BY BlockCount
  <1>2. n \in Int /\ n <= c /\ n >= 1
    BY <1>1, IntAtMost DEF RangeCount
  <1> HIDE DEF n, c
  <1>3. n - 1 \in Nat /\ c - 1 \in Nat /\ n - 1 <= c - 1
    BY <1>1, <1>2
  <1>4. (n - 1) * blk <= (c - 1) * blk
    BY <1>3, TimesMono
  <1>5. (c - 1) * blk = c * blk - blk /\ c * blk \in Nat /\ (n - 1) * blk \in Nat
    BY <1>1, <1>3
  <1>6. (n - 1) * blk < size
    BY <1>1, <1>4, <1>5
  <1>7. QED
    BY <1>2, <1>6 DEF n

(***************************************************************************)
(* Ranges and what the service sends for them                              *)
(***************************************************************************)
LEMMA ServedFacts ==
    ASSUME objLen \in Nat, NEW r \in Ranges, ~Refused(r)
    PROVE  /\ Served(r).from \in Nat
           /\ Served(r).len \in Nat
           /\ Served(r).from + Served(r).len <= objLen
  BY DEF Ranges, Refused, Whole, Served

\* A range with a first and a last byte is sent from the first on, up to the
\* last or to the end of the object.
LEMMA ServedRange ==
    ASSUME objLen \in Nat, NEW r \in Ranges, r.first <= r.last
    PROVE  /\ ~Whole(r)
           /\ Served(r).from = r.first
           /\ Served(r).len \in Int
           /\ r.first + Served(r).len =
                 IF r.last < objLen THEN r.last + 1 ELSE objLen
  BY DEF Ranges, Whole, Served

\* The ranges of a batch lie within the range asked for, and each is written
\* where it comes from.
LEMMA RangeFacts ==
    ASSUME TypeOK, Planned, size > 0, NEW k \in DOMAIN ranges
    PROVE  /\ ranges[k] \in Ranges
           /\ ranges[k].first <= ranges[k].last
           /\ start <= ranges[k].first
           /\ ranges[k].last <= start + size - 1
           /\ Batch => ranges[k].to = ranges[k].first
           /\ ~Batch => ranges[k].to = pos /\ ranges[k].first = start
  <1>1. /\ ranges[k] \in Ranges /\ start \in Nat /\ blk \in Nat \ {0}
        /\ size \in Nat /\ ranges # <<>> /\ Small \in Nat /\ pos \in Nat
    BY DownloadAssumption DEF TypeOK, Planned
  <1>2. CASE ~Batch
    <2>1. ranges[k] = [first |-> start, last |-> start + size - 1, to |-> pos]
      BY <1>2 DEF Planned
    <2>2. QED
      BY <1>1, <1>2, <2>1
  <1>3. CASE Batch
    <2>1. /\ Len(ranges) = RangeCount /\ k \in 1 .. RangeCount
          /\ ranges[k].first = start + (k - 1) * blk
          /\ ranges[k].last = IF k = RangeCount THEN start + size - 1
                              ELSE start + k * blk - 1
          /\ ranges[k].to = ranges[k].first
      BY <1>1, <1>3 DEF Planned, TypeOK
    <2>2. ranges[k].first <= ranges[k].last
      BY <1>3 DEF TypeOK, Batch
    <2>3. RangeCount \in Nat /\ (RangeCount - 1) * blk < size
      <3>1. RangeCount >= 1
        BY <1>1, <2>1, IntAtMost, BlockCount DEF RangeCount
      <3>2. QED
        BY <1>1, <3>1, CountFits
    <2>4. (k - 1) * blk \in Nat
      BY <1>1, <2>1, <2>3
    <2>5. k # RangeCount => k * blk \in Nat /\ k * blk < size
      <3>1. SUFFICES ASSUME k # RangeCount PROVE k * blk \in Nat /\ k * blk < size
        OBVIOUS
      <3>2. k \in Nat /\ RangeCount - 1 \in Nat /\ k <= RangeCount - 1
        BY <2>1, <2>3, <3>1
      <3>3. k * blk <= (RangeCount - 1) * blk
        BY <1>1, <3>2, TimesMono
      <3>4. k * blk \in Nat /\ (RangeCount - 1) * blk \in Nat
        BY <1>1, <3>2
      <3>5. QED
        BY <1>1, <2>3, <3>3, <3>4
    <2>6. start <= ranges[k].first
      BY <1>1, <2>1, <2>4
    <2>7. ranges[k].last <= start + size - 1
      BY <1>1, <2>1, <2>5
    <2>8. QED
      BY <1>1, <1>3, <2>1, <2>2, <2>6, <2>7
  <1>4. QED
    BY <1>2, <1>3

(***************************************************************************)
(* The inductive invariant                                                 *)
(***************************************************************************)
LEMMA InitInv == ASSUME Init PROVE DownloadInv
  <1> USE DEF Init
  <1>1. /\ objLen \in Nat /\ start \in Nat /\ blk \in Nat \ {0} /\ pos \in Nat
        /\ sizeArg \in Int /\ Faults \in Nat
    BY DownloadAssumption
  <1>2. /\ DOMAIN part = {} /\ DOMAIN ranges = {} /\ DOMAIN file = {}
        /\ DOMAIN told = {}
    OBVIOUS
  <1>3. TypeOK
    BY <1>1, <1>2 DEF TypeOK, Steps
  <1>4. Stages /\ Planned /\ Arrived
    BY <1>1, <1>2 DEF Stages, Planned, Arrived
  <1>5. EachByteInItsPlace /\ FailureIsReported /\ ToldAsSent
    BY <1>1, <1>2 DEF EachByteInItsPlace, FailureIsReported, ToldAsSent
  <1>6. QED
    BY <1>3, <1>4, <1>5 DEF DownloadInv

\* A step that plans, writes and tells nothing, and does not claim success.
LEMMA QuietInv ==
    ASSUME DownloadInv,
           UNCHANGED <<objLen, start, sizeArg, blk, pos, ranges, part, file, told>>,
           pc' \in Steps, ret' \in {0, 1}, size' \in Int, faults' \in 0 .. Faults,
           size' = size \/ pc = "start",
           pc' = "start" => pc = "start" /\ size' = size,
           pc' = "size" => pc \in {"start", "size"} /\ size' \in Nat,
           pc' = "fetch" => pc = "fetch" /\ size' = size,
           pc' = "returned" => \/ pc # "returned" /\ ret' = 1 /\ told = <<>>
                               \/ pc = "returned" /\ ret' = ret
    PROVE  DownloadInv'
  <1> USE DEF DownloadInv
  <1>1. pc = "start" => ranges = <<>> /\ part = <<>> /\ DOMAIN file = {} /\ told = <<>>
    BY DEF Stages
  <1>2. TypeOK'
    BY <1>1 DEF TypeOK, Transfer
  <1>3. Stages'
    BY <1>1 DEF Stages, Batch
  <1>4. Planned'
    <2>1. CASE size' = size
      BY <2>1 DEF Planned, Batch, RangeCount, Representable
    <2>2. CASE pc = "start"
      BY <1>1, <2>2 DEF Planned, Batch
    <2>3. QED
      BY <2>1, <2>2
  <1>5. Arrived'
    BY DEF Arrived, Refused, Whole, Served
  <1>6. EachByteInItsPlace'
    <2>1. CASE size' = size
      BY <2>1 DEF EachByteInItsPlace, Wanted, Place, Batch
    <2>2. CASE pc = "start"
      BY <1>1, <2>2 DEF EachByteInItsPlace
    <2>3. QED
      BY <2>1, <2>2
  <1>7. FailureIsReported'
    <2>1. Over' = Over /\ Failed' = Failed
      BY DEF Over, Failed
    <2>2. QED
      BY <2>1 DEF FailureIsReported
  <1>8. ToldAsSent'
    BY DEF ToldAsSent
  <1>9. QED
    BY <1>2, <1>3, <1>4, <1>5, <1>6, <1>7, <1>8

LEMMA QuietSteps ==
    ASSUME DownloadInv, KnowSize \/ AskSize \/ AskFails \/ CutThrows \/ GiveUp
    PROVE  DownloadInv'
  <1>1. /\ ret \in {0, 1} /\ size \in Int /\ sizeArg \in Int /\ objLen \in Nat
        /\ faults \in 0 .. Faults /\ Faults \in Nat
    BY DownloadAssumption DEF DownloadInv, TypeOK
  <1>2. pc \in {"start", "size", "fetch"} => told = <<>>
    BY DEF DownloadInv, Stages
  <1>3. pc = "start" => size = sizeArg
    BY DEF DownloadInv, Stages
  <1>4. CASE KnowSize
    BY <1>1, <1>2, <1>3, <1>4, QuietInv DEF KnowSize, argVars, Steps
  <1>5. CASE AskSize
    BY <1>1, <1>2, <1>5, QuietInv DEF AskSize, argVars, Steps
  <1>6. CASE AskFails
    BY <1>1, <1>2, <1>6, QuietInv DEF AskFails, argVars, Steps
  <1>7. CASE CutThrows
    BY <1>1, <1>2, <1>7, QuietInv DEF CutThrows, argVars, Steps
  <1>8. CASE GiveUp
    BY <1>1, <1>2, <1>8, QuietInv DEF GiveUp, argVars, Steps
  <1>9. QED
    BY <1>4, <1>5, <1>6, <1>7, <1>8

\* Any plan that is a list of ranges as Planned describes them.
LEMMA FetchInv ==
    ASSUME DownloadInv, pc = "size",
           NEW rs \in Seq(Ranges), Fetch(rs),
           Batch => \A k \in DOMAIN rs : rs[k].first <= rs[k].last,
           Planned'
    PROVE  DownloadInv'
  <1> USE DEF DownloadInv, Fetch, argVars
  <1>1. /\ size \in Nat /\ told = <<>> /\ DOMAIN file = {} /\ objLen \in Nat
        /\ DOMAIN part' = DOMAIN rs /\ ranges' = rs
        /\ \A k \in DOMAIN rs : part'[k] = Idle
    BY DEF Stages, TypeOK
  <1>2. Idle \in Transfer /\ Idle.sent = 0 /\ Idle.at = 0 /\ Idle.st = "running"
    BY <1>1 DEF Idle, Transfer
  <1>3. TypeOK'
    BY <1>1, <1>2 DEF TypeOK, Steps, Transfer, Batch
  <1>4. Stages'
    BY <1>1 DEF Stages
  <1>5. Arrived'
    <2>1. \A k \in DOMAIN rs : ~Refused(rs[k]) => Served(rs[k]).len \in Nat
      BY <1>1, ServedFacts
    <2>2. \A k \in DOMAIN rs : ~Refused(rs[k]) => 0 <= Served(rs[k]).len
      BY <2>1
    <2>3. QED
      BY <1>1, <1>2, <2>2 DEF Arrived, Refused, Whole, Served
  <1>6. EachByteInItsPlace' /\ FailureIsReported' /\ ToldAsSent'
    BY <1>1 DEF EachByteInItsPlace, FailureIsReported, ToldAsSent
  <1>7. QED
    BY <1>3, <1>4, <1>5, <1>6

LEMMA SingleInv == ASSUME DownloadInv, Single PROVE DownloadInv'
  <1> DEFINE r == [first |-> start, last |-> start + size - 1, to |-> pos]
  <1>1. /\ start \in Nat /\ pos \in Nat /\ size \in Nat /\ Small \in Nat
        /\ pc = "size" /\ size < Small /\ Fetch(<<r>>)
    BY DownloadAssumption DEF DownloadInv, TypeOK, Stages, Single
  <1>2. <<r>> \in Seq(Ranges) /\ <<r>> # <<>> /\ DOMAIN <<r>> = {1} /\ <<r>>[1] = r
    BY <1>1 DEF Ranges
  <1>3. ~Batch
    BY <1>1 DEF Batch
  <1>4. Planned'
    BY <1>1, <1>2 DEF Planned, Fetch, argVars, Batch
  <1>5. QED
    BY <1>1, <1>2, <1>3, <1>4, FetchInv

LEMMA CutInv == ASSUME DownloadInv, Cut PROVE DownloadInv'
  <1> DEFINE n == RangeCount
             len(k) == IF k = n THEN size - (k - 1) * blk ELSE blk
             first(k) == start + (k - 1) * blk
             r(k) == [first |-> first(k), last |-> first(k) + len(k) - 1,
                      to |-> first(k)]
             rs == [k \in 1 .. n |-> r(k)]
  <1>1. /\ start \in Nat /\ blk \in Nat \ {0} /\ size \in Nat
        /\ pc = "size" /\ size >= Small /\ Small \in Nat \ {0} /\ n >= 0
    BY DownloadAssumption DEF DownloadInv, TypeOK, Stages, Cut
  <1>2. n \in Nat
    BY <1>1, IntAtMost, BlockCount DEF RangeCount
  <1>3. ASSUME NEW k \in 1 .. n
        PROVE  /\ (k - 1) * blk \in Nat
               /\ first(k) \in Nat
               /\ first(k) + len(k) - 1 =
                     IF k = n THEN start + size - 1 ELSE start + k * blk - 1
               /\ first(k) <= first(k) + len(k) - 1
               /\ first(k) + len(k) - 1 \in Nat
    <2>1. k - 1 \in Nat /\ (k - 1) * blk \in Nat /\ k * blk = (k - 1) * blk + blk
      BY <1>1, <1>2
    <2>2. (n - 1) * blk < size
      BY <1>1, <1>2, CountFits
    <2> HIDE DEF n
    <2>3. QED
      BY <1>1, <1>2, <2>1, <2>2
  <1>4. Fetch(rs)
    <2>1. ASSUME NEW k \in 1 .. n
          PROVE  LET off == start + (k - 1) * blk
                     l == IF k = RangeCount THEN size - (off - start) ELSE blk
                 IN  [first |-> off, last |-> off + l - 1, to |-> off] = r(k)
      BY <1>1, <1>3
    <2>2. rs = [k \in 1 .. RangeCount |->
                LET off == start + (k - 1) * blk
                    l == IF k = RangeCount THEN size - (off - start) ELSE blk
                IN  [first |-> off, last |-> off + l - 1, to |-> off]]
      BY <2>1
    <2>3. QED
      BY <2>2 DEF Cut
  <1>5. \A k \in 1 .. n : /\ rs[k] = r(k) /\ r(k) \in Ranges
                          /\ r(k).first = first(k) /\ r(k).to = first(k)
                          /\ r(k).last = first(k) + len(k) - 1
                          /\ r(k).first <= r(k).last
    BY <1>3 DEF Ranges
  <1>6. DOMAIN rs = 1 .. n /\ rs \in Seq(Ranges) /\ Len(rs) = n
    <2> HIDE DEF r, n
    <2>1. rs \in [1 .. n -> Ranges]
      BY <1>5
    <2>2. QED
      BY <1>2, <2>1
  <1>7. (Batch => Representable) => rs # <<>>
    <2>1. SUFFICES ASSUME Representable PROVE n # 0
      BY <1>1, <1>6 DEF Batch
    <2>2. n = CeilDiv(size, blk)
      BY <1>1, <2>1, IntAtMost, BlockCount DEF Representable, RangeCount
    <2>3. size <= n * blk /\ size # 0
      BY <1>1, <2>2, BlockCount
    <2>4. QED
      BY <1>1, <2>3
  <1> HIDE DEF rs, r
  <1>8. Planned'
    <2>1. /\ ranges' = rs /\ Batch /\ Batch'
          /\ (RangeCount = n)' /\ UNCHANGED <<start, blk, size>> /\ pc' = "fetch"
      BY <1>1, <1>4 DEF Fetch, argVars, Batch, RangeCount
    <2>2. Representable' <=> Representable
      BY <2>1 DEF Representable
    <2>3. \A k \in DOMAIN rs :
             /\ rs[k].first = start + (k - 1) * blk
             /\ rs[k].last = IF k = n THEN start + size - 1 ELSE start + k * blk - 1
             /\ rs[k].to = rs[k].first
      BY <1>3, <1>5, <1>6
    <2>4. RangeCount' = n
      BY <2>1 DEF RangeCount
    <2> HIDE DEF n
    <2>5. QED
      BY <1>1, <1>6, <1>7, <2>1, <2>2, <2>3, <2>4 DEF Planned
  <1>9. QED
    BY <1>1, <1>4, <1>5, <1>6, <1>8, FetchInv

\* A step of one transfer that leaves its bytes and its outcome as they were.
LEMMA TransferInv ==
    ASSUME DownloadInv, pc = "fetch",
           UNCHANGED <<pc, ret, objLen, start, sizeArg, blk, pos, size, ranges, told>>,
           NEW k \in DOMAIN part, NEW p \in Transfer,
           DOMAIN part' = DOMAIN part, part'[k] = p,
           \A n \in DOMAIN part : n # k => part'[n] = part[n],
           p.at = p.sent,
           ~Refused(ranges[k]) => p.sent <= Served(ranges[k]).len,
           p.st = "ok" => ~Refused(ranges[k]) /\ p.sent = Served(ranges[k]).len,
           \A j \in 0 .. p.sent - 1 : ranges[k].to + j \in DOMAIN file',
           DOMAIN file \subseteq DOMAIN file',
           \A b \in DOMAIN file' : file'[b] \in 0 .. objLen - 1,
           EachByteInItsPlace',
           faults' \in 0 .. Faults
    PROVE  DownloadInv'
  <1> USE DEF DownloadInv
  <1>1. told = <<>>
    BY DEF Stages
  <1>2. \A n \in DOMAIN part : part'[n] = IF n = k THEN p ELSE part[n]
    OBVIOUS
  <1>3. TypeOK'
    BY <1>1, <1>2 DEF TypeOK, Transfer
  <1>4. Stages'
    BY DEF Stages, Batch
  <1>5. Planned'
    BY DEF Planned, Batch, RangeCount, Representable
  <1>6. Arrived'
    <2>1. ASSUME NEW n \in DOMAIN part
          PROVE  /\ part'[n].at = part'[n].sent
                 /\ ~Refused(ranges[n]) => part'[n].sent <= Served(ranges[n]).len
                 /\ part'[n].st = "ok" =>
                       /\ ~Refused(ranges[n])
                       /\ part'[n].sent = Served(ranges[n]).len
                 /\ \A j \in 0 .. part'[n].sent - 1 :
                       ranges[n].to + j \in DOMAIN file'
      BY <1>2 DEF Arrived
    <2>2. \A n \in DOMAIN part :
             /\ (Refused(ranges[n]))' <=> Refused(ranges[n])
             /\ (Served(ranges[n]))' = Served(ranges[n])
      BY DEF Refused, Served, Whole
    <2>3. QED
      BY <1>1, <2>1, <2>2 DEF Arrived
  <1>7. FailureIsReported' /\ ToldAsSent'
    BY <1>1 DEF FailureIsReported, ToldAsSent
  <1>8. QED
    BY <1>3, <1>4, <1>5, <1>6, <1>7

\* What the transfer of a range is like before it makes a step.
LEMMA TransferFacts ==
    ASSUME DownloadInv, NEW k \in DOMAIN part
    PROVE  /\ part[k] \in Transfer /\ part[k].at = part[k].sent
           /\ part[k] = [st |-> part[k].st, sent |-> part[k].sent,
                         at |-> part[k].at, named |-> part[k].named]
           /\ ~Refused(ranges[k]) => part[k].sent <= Served(ranges[k]).len
           /\ \A j \in 0 .. part[k].sent - 1 : ranges[k].to + j \in DOMAIN file
           /\ ranges[k] \in Ranges /\ k \in DOMAIN ranges
           /\ objLen \in Nat /\ Faults \in Nat /\ faults \in 0 .. Faults
           /\ \A b \in DOMAIN file : file[b] \in 0 .. objLen - 1
  BY DownloadAssumption DEF DownloadInv, TypeOK, Arrived, Transfer

LEMMA SameFile ==
    ASSUME DownloadInv, UNCHANGED <<start, objLen, pos, size, file>>
    PROVE  EachByteInItsPlace'
  BY DEF DownloadInv, EachByteInItsPlace, Wanted, Place, Batch

LEMMA RestartInv ==
    ASSUME DownloadInv, NEW k \in DOMAIN part, Restart(k)
    PROVE  DownloadInv'
  <1> DEFINE p == [st |-> part[k].st, sent |-> 0, at |-> 0, named |-> part[k].named]
  <1>1. p \in Transfer /\ p.sent = 0 /\ p.at = 0 /\ p.st = "running"
    BY TransferFacts DEF Transfer, Restart
  <1>2. /\ DOMAIN part' = DOMAIN part /\ part'[k] = p
        /\ \A n \in DOMAIN part : n # k => part'[n] = part[n]
    BY TransferFacts DEF Restart, Transfer
  <1>3. ~Refused(ranges[k]) => 0 <= Served(ranges[k]).len
    BY TransferFacts, ServedFacts
  <1>4. EachByteInItsPlace'
    BY SameFile DEF Restart, argVars
  <1> HIDE DEF p
  <1>5. /\ pc = "fetch"
        /\ UNCHANGED <<pc, ret, objLen, start, sizeArg, blk, pos, size, ranges, told>>
        /\ file' = file /\ DOMAIN file' = DOMAIN file
    BY DEF Restart, argVars
  <1>6. faults' \in 0 .. Faults
    BY TransferFacts DEF Restart
  <1>7. \A j \in 0 .. p.sent - 1 : ranges[k].to + j \in DOMAIN file'
    BY <1>1, <1>5, TransferFacts
  <1>8. \A b \in DOMAIN file' : file'[b] \in 0 .. objLen - 1
    BY <1>5, TransferFacts
  <1>9. /\ p.at = p.sent
        /\ ~Refused(ranges[k]) => p.sent <= Served(ranges[k]).len
        /\ p.st = "ok" => ~Refused(ranges[k]) /\ p.sent = Served(ranges[k]).len
    BY <1>1, <1>3, TransferFacts DEF Restart
  <1>10. QED
    BY <1>1, <1>2, <1>3, <1>4, <1>5, <1>6, <1>7, <1>8, <1>9, TransferInv

LEMMA CompleteInv ==
    ASSUME DownloadInv, NEW k \in DOMAIN part, Complete(k)
    PROVE  DownloadInv'
  <1>1. PICK named \in BOOLEAN :
           part' = [part EXCEPT ![k].st = "ok", ![k].named = named]
    BY DEF Complete
  <1> DEFINE p == [st |-> "ok", sent |-> part[k].sent, at |-> part[k].at,
                   named |-> named]
  <1>2. p \in Transfer /\ p.sent = part[k].sent /\ p.at = part[k].at /\ p.st = "ok"
    BY TransferFacts DEF Transfer
  <1>3. /\ DOMAIN part' = DOMAIN part /\ part'[k] = p
        /\ \A n \in DOMAIN part : n # k => part'[n] = part[n]
    BY <1>1, TransferFacts DEF Transfer
  <1>4. EachByteInItsPlace'
    BY SameFile DEF Complete, argVars
  <1> HIDE DEF p
  <1>5. /\ pc = "fetch"
        /\ UNCHANGED <<pc, ret, objLen, start, sizeArg, blk, pos, size, ranges, told>>
        /\ file' = file /\ DOMAIN file' = DOMAIN file
    BY DEF Complete, argVars
  <1>6. faults' \in 0 .. Faults
    BY TransferFacts DEF Complete
  <1>7. \A j \in 0 .. p.sent - 1 : ranges[k].to + j \in DOMAIN file'
    BY <1>2, <1>5, TransferFacts
  <1>8. \A b \in DOMAIN file' : file'[b] \in 0 .. objLen - 1
    BY <1>5, TransferFacts
  <1>9. /\ p.at = p.sent
        /\ ~Refused(ranges[k]) => p.sent <= Served(ranges[k]).len
        /\ p.st = "ok" => ~Refused(ranges[k]) /\ p.sent = Served(ranges[k]).len
    BY <1>2, TransferFacts DEF Complete
  <1>10. QED
    BY <1>2, <1>3, <1>4, <1>5, <1>6, <1>7, <1>8, <1>9, TransferInv

LEMMA FailInv ==
    ASSUME DownloadInv, NEW k \in DOMAIN part, Fail(k)
    PROVE  DownloadInv'
  <1> DEFINE p == [st |-> "fail", sent |-> part[k].sent, at |-> part[k].at,
                   named |-> part[k].named]
  <1>1. p \in Transfer /\ p.sent = part[k].sent /\ p.at = part[k].at /\ p.st = "fail"
    BY TransferFacts DEF Transfer
  <1>2. /\ DOMAIN part' = DOMAIN part /\ part'[k] = p
        /\ \A n \in DOMAIN part : n # k => part'[n] = part[n]
    BY TransferFacts DEF Fail, Transfer
  <1>3. EachByteInItsPlace'
    BY SameFile DEF Fail, argVars
  <1> HIDE DEF p
  <1>4. /\ pc = "fetch"
        /\ UNCHANGED <<pc, ret, objLen, start, sizeArg, blk, pos, size, ranges, told>>
        /\ file' = file /\ DOMAIN file' = DOMAIN file
    BY DEF Fail, argVars
  <1>5. faults' \in 0 .. Faults
    BY TransferFacts DEF Fail
  <1>6. \A j \in 0 .. p.sent - 1 : ranges[k].to + j \in DOMAIN file'
    BY <1>1, <1>4, TransferFacts
  <1>7. \A b \in DOMAIN file' : file'[b] \in 0 .. objLen - 1
    BY <1>4, TransferFacts
  <1>8. /\ p.at = p.sent
        /\ ~Refused(ranges[k]) => p.sent <= Served(ranges[k]).len
        /\ p.st = "ok" => ~Refused(ranges[k]) /\ p.sent = Served(ranges[k]).len
    BY <1>1, TransferFacts DEF Fail
  <1>9. QED
    BY <1>1, <1>2, <1>3, <1>4, <1>5, <1>6, <1>7, <1>8, TransferInv

LEMMA WriteInv ==
    ASSUME DownloadInv, NEW k \in DOMAIN part, Write(k)
    PROVE  DownloadInv'
  <1> DEFINE r == ranges[k]
             n == part[k].sent
             place == r.to + n
             value == Served(r).from + n
             p == [st |-> part[k].st, sent |-> n + 1, at |-> n + 1,
                   named |-> part[k].named]
  <1>1. /\ ~Refused(r) /\ n < Served(r).len /\ part[k].st = "running"
        /\ pc = "fetch"
        /\ file' = [b \in (DOMAIN file) \cup {place} |->
                       IF b = place THEN value ELSE file[b]]
        /\ part' = [part EXCEPT ![k].sent = @ + 1, ![k].at = @ + 1]
        /\ UNCHANGED <<pc, ret, objLen, start, sizeArg, blk, pos, size, ranges,
                       told, faults>>
    BY TransferFacts DEF Write, argVars
  <1>2. /\ part[k] \in Transfer /\ part[k].at = n /\ n \in Nat
        /\ part[k] = [st |-> part[k].st, sent |-> n, at |-> n,
                         named |-> part[k].named]
        /\ r \in Ranges /\ objLen \in Nat
        /\ \A j \in 0 .. n - 1 : r.to + j \in DOMAIN file
    BY TransferFacts DEF Transfer
  <1>3. /\ Served(r).from \in Nat /\ Served(r).len \in Nat
        /\ Served(r).from + Served(r).len <= objLen
    BY <1>1, <1>2, ServedFacts
  <1>4. /\ p \in Transfer /\ p.sent = n + 1 /\ p.at = n + 1 /\ p.st = "running"
        /\ n + 1 <= Served(r).len
    BY <1>1, <1>2, <1>3 DEF Transfer
  <1>5. /\ DOMAIN part' = DOMAIN part /\ part'[k] = p
        /\ \A m \in DOMAIN part : m # k => part'[m] = part[m]
    BY <1>1, <1>2 DEF Transfer
  <1>6. /\ DOMAIN file' = DOMAIN file \cup {place}
        /\ \A b \in DOMAIN file' : file'[b] = IF b = place THEN value ELSE file[b]
    BY <1>1
  <1>7. \A j \in 0 .. n : r.to + j \in DOMAIN file'
    BY <1>2, <1>6
  <1>8. value \in 0 .. objLen - 1
    BY <1>1, <1>2, <1>3
  <1>9. \A b \in DOMAIN file' : file'[b] \in 0 .. objLen - 1
    BY <1>6, <1>8, TransferFacts
  <1>10. EachByteInItsPlace'
    <2>1. SUFFICES ASSUME size > 0
                   PROVE  value \in Wanted /\ place = Place(value)
      <3>1. /\ Wanted' = Wanted /\ size' = size
            /\ \A b : Place(b)' = Place(b)
        BY <1>1 DEF Wanted, Place, Batch
      <3>2. QED
        BY <1>6, <2>1, <3>1 DEF DownloadInv, EachByteInItsPlace
    <2>2. /\ r.first <= r.last /\ start <= r.first /\ r.last <= start + size - 1
          /\ Batch => r.to = r.first
          /\ ~Batch => r.to = pos /\ r.first = start
      BY <2>1, TransferFacts, RangeFacts DEF DownloadInv
    <2>3. /\ Served(r).from = r.first
          /\ r.first + Served(r).len = IF r.last < objLen THEN r.last + 1 ELSE objLen
      BY <1>2, <2>2, ServedRange
    <2>4. start \in Nat /\ size \in Nat /\ r.first \in Nat /\ r.last \in Int
          /\ pos \in Nat
      BY <1>2, <2>1 DEF DownloadInv, TypeOK, Ranges
    <2>5. value = r.first + n /\ start <= value /\ value <= start + size - 1
      BY <1>1, <1>2, <1>3, <2>2, <2>3, <2>4
    <2>6. value \in Wanted
      <3> HIDE DEF value
      <3>1. value \in start .. start + size - 1 /\ value < objLen
        BY <1>2, <1>8, <2>4, <2>5
      <3>2. QED
        BY <3>1 DEF Wanted
    <2>7. place = Place(value)
      BY <1>2, <2>2, <2>4, <2>5 DEF Place
    <2>8. QED
      BY <2>6, <2>7
  <1>11. faults' \in 0 .. Faults
    BY <1>1, TransferFacts
  <1> HIDE DEF p, value, place
  <1>12. \A j \in 0 .. p.sent - 1 : ranges[k].to + j \in DOMAIN file'
    BY <1>2, <1>4, <1>7
  <1>13. /\ p.at = p.sent /\ p.st # "ok"
         /\ ~Refused(ranges[k]) => p.sent <= Served(ranges[k]).len
         /\ DOMAIN file \subseteq DOMAIN file'
    BY <1>4, <1>6
  <1> HIDE DEF r, n
  <1>14. QED
    BY <1>1, <1>4, <1>5, <1>9, <1>10, <1>11, <1>12, <1>13, TransferInv

\* What both returns leave as it was.
LEMMA ReturnKeeps ==
    ASSUME DownloadInv, pc = "fetch", pc' = "returned", ret' \in {0, 1},
           UNCHANGED <<objLen, start, sizeArg, blk, pos, size, ranges, part, file,
                       faults>>,
           told' \in Seq([ok : BOOLEAN, first : Nat, len : Int]),
           told' # <<>> => Batch
    PROVE  TypeOK' /\ Stages' /\ Planned' /\ Arrived' /\ EachByteInItsPlace'
  <1> USE DEF DownloadInv
  <1>1. TypeOK'
    BY DEF TypeOK, Transfer, Steps
  <1>2. Stages' /\ Planned'
    BY DEF Stages, Planned, Batch, RangeCount, Representable
  <1>3. Arrived'
    BY DEF Arrived, Refused, Whole, Served
  <1>4. EachByteInItsPlace'
    BY DEF EachByteInItsPlace, Wanted, Place, Batch
  <1>5. QED
    BY <1>1, <1>2, <1>3, <1>4

LEMMA ReturnSingleInv == ASSUME DownloadInv, ReturnSingle PROVE DownloadInv'
  <1> USE DEF ReturnSingle, argVars
  <1>1. /\ told = <<>> /\ DOMAIN told = {} /\ told' = told
        /\ told \in Seq([ok : BOOLEAN, first : Nat, len : Int])
    BY DEF DownloadInv, Stages, TypeOK
  <1>2. TypeOK' /\ Stages' /\ Planned' /\ Arrived' /\ EachByteInItsPlace'
    BY <1>1, ReturnKeeps
  <1>3. FailureIsReported'
    BY <1>1 DEF FailureIsReported, Over, Failed
  <1>4. ToldAsSent'
    BY <1>1 DEF ToldAsSent
  <1>5. QED
    BY <1>2, <1>3, <1>4 DEF DownloadInv

LEMMA ReportAllInv == ASSUME DownloadInv, ReportAll PROVE DownloadInv'
  <1> DEFINE n == Len(ranges)
  <1>1. /\ pc = "fetch" /\ size >= Small /\ Over /\ pc' = "returned"
        /\ told' = [k \in DOMAIN ranges |-> Told(k)]
        /\ ret' = IF Failed = {} THEN 0 ELSE 1
        /\ UNCHANGED <<objLen, start, sizeArg, blk, pos, size, ranges, part, file,
                       faults>>
    BY DEF ReportAll, argVars
  <1>2. /\ Batch /\ objLen \in Nat /\ n \in Nat /\ DOMAIN ranges = 1 .. n
        /\ DOMAIN part = 1 .. n
    BY <1>1 DEF DownloadInv, TypeOK, Batch
  <1>3. ASSUME NEW k \in 1 .. n
        PROVE  /\ part[k].st \in {"ok", "fail"}
               /\ k \in Failed <=> part[k].st = "fail"
               /\ ranges[k] \in Ranges /\ ranges[k].first <= ranges[k].last
    <2>1. part[k] \in Transfer /\ part[k].st # "running"
      BY <1>1, <1>2 DEF DownloadInv, TypeOK, Over
    <2>2. part[k].st \in {"ok", "fail"} /\ (k \in Failed <=> part[k].st = "fail")
      BY <1>2, <2>1 DEF Transfer, Failed
    <2>3. ranges[k] \in Ranges /\ ranges[k].first <= ranges[k].last
      BY <1>1, <1>2 DEF DownloadInv, TypeOK
    <2>4. QED
      BY <2>2, <2>3
  <1>4. ASSUME NEW k \in 1 .. n
        PROVE  /\ Told(k) \in [ok : BOOLEAN, first : Nat, len : Int]
               /\ Told(k).ok <=> part[k].st = "ok"
               /\ Told(k).ok =>
                    IF part[k].named
                      THEN /\ Told(k).first = ranges[k].first
                           /\ Told(k).first + Told(k).len =
                                 IF ranges[k].last < objLen
                                   THEN ranges[k].last + 1 ELSE objLen
                      ELSE Told(k).len = 0
    <2>1. /\ ~Whole(ranges[k]) /\ Served(ranges[k]).from = ranges[k].first
          /\ Served(ranges[k]).len \in Int
          /\ ranges[k].first + Served(ranges[k]).len =
                IF ranges[k].last < objLen THEN ranges[k].last + 1 ELSE objLen
      BY <1>2, <1>3, ServedRange
    <2>2. CASE k \in Failed
      <3>1. Told(k) = [ok |-> FALSE, first |-> ranges[k].first,
                       len |-> ranges[k].last - ranges[k].first]
        BY <2>2 DEF Told, ToldFailed
      <3>2. ranges[k].first \in Nat /\ ranges[k].last \in Int
        BY <1>3 DEF Ranges
      <3>3. QED
        BY <1>3, <2>2, <3>1, <3>2
    <2>3. CASE k \notin Failed
      <3>1. ranges[k].first \in Nat
        BY <1>3 DEF Ranges
      <3>2. /\ part[k].named => /\ ContentRange(k).first = ranges[k].first
                               /\ ContentRange(k).len = Served(ranges[k]).len
            /\ ~part[k].named => ContentRange(k).first = 0 /\ ContentRange(k).len = 0
        BY <2>1, <3>1 DEF ContentRange, NothingRead, Digits, AtDash, AtSlash
      <3>3. Told(k) = [ok |-> TRUE, first |-> ContentRange(k).first,
                       len |-> ContentRange(k).len]
        BY <2>3 DEF Told
      <3>4. QED
        BY <1>3, <2>1, <2>3, <3>1, <3>2, <3>3
    <2>4. QED
      BY <2>2, <2>3
  <1>5. /\ DOMAIN told' = 1 .. n /\ \A k \in 1 .. n : told'[k] = Told(k)
        /\ told' \in Seq([ok : BOOLEAN, first : Nat, len : Int])
    <2>1. told' \in [1 .. n -> [ok : BOOLEAN, first : Nat, len : Int]]
      BY <1>1, <1>2, <1>4
    <2>2. QED
      BY <1>1, <1>2, <2>1
  <1>6. TypeOK' /\ Stages' /\ Planned' /\ Arrived' /\ EachByteInItsPlace'
    <2>1. ret' \in {0, 1}
      BY <1>1
    <2>2. QED
      BY <1>1, <1>2, <1>5, <2>1, ReturnKeeps
  <1>7. FailureIsReported'
    <2>1. Over' /\ Failed' = Failed /\ Failed \subseteq 1 .. n
      BY <1>1, <1>2 DEF Over, Failed
    <2>2. \A k \in 1 .. n : told'[k].ok <=> part[k].st = "ok"
      BY <1>4, <1>5
    <2>3. \A k \in 1 .. n : k \notin Failed <=> told'[k].ok
      BY <1>3, <2>2
    <2>4. (Failed = {}) <=> \A k \in 1 .. n : told'[k].ok
      BY <2>1, <2>3
    <2>5. (ret' = 0) <=> (Failed = {})
      BY <1>1
    <2>6. QED
      BY <1>1, <1>2, <1>5, <2>1, <2>2, <2>4, <2>5 DEF FailureIsReported
  <1>8. ToldAsSent'
    BY <1>1, <1>2, <1>4, <1>5 DEF ToldAsSent
  <1>9. QED
    BY <1>6, <1>7, <1>8 DEF DownloadInv

LEMMA StutterInv ==
    ASSUME DownloadInv, UNCHANGED vars
    PROVE  DownloadInv'
  BY SMTT(30) DEF DownloadInv, TypeOK, Transfer, Stages, Planned, Arrived, Refused,
         Whole, Served, EachByteInItsPlace, Wanted, Place, Batch, RangeCount,
         Representable, FailureIsReported, Over, Failed, ToldAsSent, vars, argVars

LEMMA NextInv == ASSUME DownloadInv, [Next]_vars PROVE DownloadInv'
  BY QuietSteps, SingleInv, CutInv, WriteInv, RestartInv, CompleteInv, FailInv,
     ReturnSingleInv, ReportAllInv, StutterInv DEF Next, Terminated

(***************************************************************************)
(* Every reachable state satisfies the inductive invariant: the plan of    *)
(* the ranges, and what of each range is in the file.                      *)
(***************************************************************************)
THEOREM DownloadInvariant == Spec => []DownloadInv
  <1>1. Init => DownloadInv
    BY InitInv
  <1>2. DownloadInv /\ [Next]_vars => DownloadInv'
    BY NextInv
  <1>3. QED
    BY <1>1, <1>2, PTL DEF Spec

(***************************************************************************)
(* Type correctness for every object, range and block size.                *)
(***************************************************************************)
THEOREM DownloadTypes == Spec => []TypeOK
  <1>1. DownloadInv => TypeOK
    BY DEF DownloadInv
  <1>2. QED
    BY <1>1, DownloadInvariant, PTL

(***************************************************************************)
(* The ranges of a batch tile the range asked for (client.cpp:416-429).    *)
(***************************************************************************)
THEOREM RangesAlwaysTile == Spec => []RangesTile
  <1>1. ASSUME DownloadInv PROVE RangesTile
    <2>1. SUFFICES ASSUME Batch, ranges # <<>> PROVE RangesTile
      BY DEF RangesTile
    <2> DEFINE n == RangeCount
    <2>2. /\ Len(ranges) = n /\ n \in Nat /\ n >= 1 /\ DOMAIN ranges = 1 .. n
          /\ start \in Nat /\ blk \in Nat \ {0} /\ size \in Nat
      <3>1. ranges \in Seq(Ranges) /\ Len(ranges) \in Nat
            /\ DOMAIN ranges = 1 .. Len(ranges) /\ Len(ranges) # 0
        BY <1>1, <2>1 DEF DownloadInv, TypeOK
      <3>2. QED
        BY <1>1, <2>1, <3>1 DEF DownloadInv, TypeOK, Planned
    <2> HIDE DEF n
    <2>3. \A k \in 1 .. n :
             /\ ranges[k].first = start + (k - 1) * blk
             /\ ranges[k].last = IF k = n THEN start + size - 1
                                 ELSE start + k * blk - 1
      BY <1>1, <2>1, <2>2 DEF DownloadInv, Planned, n
    <2>4. ranges[1].first = start
      <3>1. (1 - 1) * blk = 0
        BY <2>2
      <3>2. QED
        BY <2>2, <2>3, <3>1
    <2>5. ASSUME NEW k \in 1 .. n - 1
          PROVE  ranges[k + 1].first = ranges[k].last + 1
      <3>1. k \in 1 .. n /\ k + 1 \in 1 .. n /\ k # n /\ (k + 1) - 1 = k
        BY <2>2
      <3>2. ranges[k + 1].first = start + k * blk
        BY <2>3, <3>1
      <3>3. ranges[k].last = start + k * blk - 1 /\ k * blk \in Nat
        BY <2>2, <2>3, <3>1
      <3>4. QED
        BY <2>2, <3>2, <3>3
    <2>6. ranges[n].last = start + size - 1
      BY <2>2, <2>3
    <2>7. QED
      BY <2>2, <2>4, <2>5, <2>6 DEF RangesTile
  <1>2. QED
    BY <1>1, DownloadInvariant, PTL

(***************************************************************************)
(* No byte is ever written to a place that is not its own, whatever the    *)
(* order of the transfers and however often they start again.              *)
(***************************************************************************)
THEOREM BytesInPlace == Spec => []EachByteInItsPlace
  <1>1. DownloadInv => EachByteInItsPlace
    BY DEF DownloadInv
  <1>2. QED
    BY <1>1, DownloadInvariant, PTL

\* Some range of the plan has the byte b.
LEMMA Covered ==
    ASSUME DownloadInv, ranges # <<>>, size > 0, Batch => Representable,
           NEW b \in Wanted
    PROVE  \E k \in DOMAIN ranges : ranges[k].first <= b /\ b <= ranges[k].last
  <1>1. /\ start \in Nat /\ blk \in Nat \ {0} /\ size \in Nat
        /\ b \in start .. start + size - 1
    BY DEF DownloadInv, TypeOK, Planned, Wanted
  <1>2. 1 \in DOMAIN ranges /\ DOMAIN ranges = 1 .. Len(ranges) /\ Len(ranges) \in Nat
    <2>1. ranges \in Seq(Ranges)
      BY DEF DownloadInv, TypeOK
    <2>2. QED
      BY <2>1
  <1>3. CASE ~Batch
    <2>1. ranges[1].first = start /\ ranges[1].last = start + size - 1
      BY <1>2, <1>3 DEF DownloadInv, Planned
    <2>2. QED
      BY <1>1, <1>2, <2>1
  <1>4. CASE Batch
    <2> DEFINE n == RangeCount
               d == b - start
               q == d \div blk
               k == q + 1
    <2>1. /\ n = CeilDiv(size, blk) /\ n \in Nat /\ size <= n * blk
          /\ Len(ranges) = n
      <3>1. n = CeilDiv(size, blk)
        BY <1>1, <1>4, IntAtMost, BlockCount DEF Representable, RangeCount
      <3>2. QED
        BY <1>1, <1>4, <3>1, BlockCount DEF DownloadInv, Planned
    <2>2. d \in Nat /\ d < size
      BY <1>1
    <2>3. q \in Nat /\ q * blk <= d /\ d < q * blk + blk
      BY <1>1, <2>2
    <2> HIDE DEF n, q
    <2>4. q < n
      <3>1. SUFFICES ASSUME n <= q PROVE FALSE
        BY <2>1, <2>3
      <3>2. n * blk <= q * blk
        BY <1>1, <2>1, <2>3, <3>1, TimesMono
      <3>3. n * blk \in Nat /\ q * blk \in Nat
        BY <1>1, <2>1, <2>3
      <3>4. QED
        BY <1>1, <2>1, <2>2, <2>3, <3>2, <3>3
    <2>5. k \in 1 .. n /\ k - 1 = q /\ k * blk = q * blk + blk
      BY <1>1, <2>1, <2>3, <2>4
    <2>6. /\ ranges[k].first = start + q * blk
          /\ ranges[k].last = IF k = n THEN start + size - 1
                              ELSE start + (q * blk + blk) - 1
      BY <1>2, <1>4, <2>1, <2>5 DEF DownloadInv, Planned, n
    <2>7. q * blk \in Nat
      BY <1>1, <2>3
    <2>8. ranges[k].first <= b /\ b <= ranges[k].last
      <3> HIDE DEF k
      <3>1. QED
        BY <1>1, <2>2, <2>3, <2>6, <2>7
    <2>9. QED
      BY <1>2, <2>1, <2>5, <2>8
  <1>5. QED
    BY <1>3, <1>4

(***************************************************************************)
(* A call that returns 0 has written every byte of the range that the      *)
(* object has.                                                             *)
(***************************************************************************)
THEOREM FileIsComplete == Spec => []FileIsRange
  <1>1. ASSUME DownloadInv PROVE FileIsRange
    <2>1. SUFFICES ASSUME pc = "returned", ret = 0, size > 0,
                          Batch => Representable, NEW b \in Wanted
                   PROVE  Place(b) \in DOMAIN file /\ file[Place(b)] = b
      BY DEF FileIsRange
    <2>2. ranges # <<>> /\ Over /\ Failed = {}
      BY <1>1, <2>1 DEF DownloadInv, Planned, FailureIsReported
    <2>3. PICK k \in DOMAIN ranges : ranges[k].first <= b /\ b <= ranges[k].last
      BY <1>1, <2>1, <2>2, Covered
    <2> DEFINE r == ranges[k]
               j == b - r.first
    <2>4. /\ r \in Ranges /\ r.first <= r.last
          /\ Batch => r.to = r.first
          /\ ~Batch => r.to = pos /\ r.first = start
      BY <1>1, <2>1, RangeFacts DEF DownloadInv
    <2>5. /\ objLen \in Nat /\ start \in Nat /\ pos \in Nat /\ b \in Nat
          /\ b < objLen /\ r.first \in Nat /\ r.last \in Int /\ r.to \in Nat
          /\ start <= b
      BY <1>1, <2>1, <2>4 DEF DownloadInv, TypeOK, Wanted, Ranges
    <2>6. /\ r.first + Served(r).len =
                IF r.last < objLen THEN r.last + 1 ELSE objLen
          /\ Served(r).len \in Int
      BY <2>4, <2>5, ServedRange
    <2>7. j \in Nat /\ j < Served(r).len
      BY <2>3, <2>5, <2>6
    <2>8. k \in DOMAIN part /\ part[k].st = "ok"
      BY <1>1, <2>2 DEF DownloadInv, TypeOK, Over, Failed, Transfer
    <2>9. part[k].sent = Served(r).len
      BY <1>1, <2>8 DEF DownloadInv, Arrived
    <2>10. r.to + j \in DOMAIN file
      <3>1. j \in 0 .. part[k].sent - 1
        BY <2>6, <2>7, <2>9
      <3>2. QED
        BY <1>1, <2>8, <3>1 DEF DownloadInv, Arrived
    <2>11. r.to + j = Place(b)
      BY <2>4, <2>5 DEF Place
    <2>12. file[Place(b)] \in Wanted /\ Place(b) = Place(file[Place(b)])
      BY <1>1, <2>1, <2>10, <2>11 DEF DownloadInv, EachByteInItsPlace
    <2>13. file[Place(b)] = b
      <3>1. file[Place(b)] \in Int
        BY <1>1, <2>1, <2>12 DEF Wanted, DownloadInv, TypeOK
      <3>2. QED
        BY <2>5, <2>12, <3>1 DEF Place
    <2>14. QED
      BY <2>10, <2>11, <2>13
  <1>2. QED
    BY <1>1, DownloadInvariant, PTL

(***************************************************************************)
(* The call returns 0 exactly when every transfer succeeded, and a batch   *)
(* that was not given up has told the outcome of each of its ranges once.  *)
(***************************************************************************)
THEOREM FailuresAreReported == Spec => []FailureIsReported
  <1>1. DownloadInv => FailureIsReported
    BY DEF DownloadInv
  <1>2. QED
    BY <1>1, DownloadInvariant, PTL

\* The ranges of a batch have no byte in common.
LEMMA RangesApart ==
    ASSUME DownloadInv, Batch, ranges # <<>>,
           NEW j \in DOMAIN ranges, NEW k \in DOMAIN ranges, j < k
    PROVE  ranges[j].last < ranges[k].first
  <1>1. /\ Len(ranges) = RangeCount /\ Len(ranges) \in Nat
        /\ DOMAIN ranges = 1 .. Len(ranges) /\ start \in Nat /\ blk \in Nat \ {0}
    BY DEF DownloadInv, TypeOK, Planned
  <1>2. /\ j \in Nat /\ k - 1 \in Nat /\ j <= k - 1 /\ j # RangeCount
    BY <1>1
  <1>3. j * blk <= (k - 1) * blk /\ j * blk \in Nat /\ (k - 1) * blk \in Nat
    BY <1>1, <1>2, TimesMono
  <1>4. ranges[k].first = start + (k - 1) * blk /\ ranges[j].last = start + j * blk - 1
    BY <1>2 DEF DownloadInv, Planned
  <1>5. QED
    BY <1>1, <1>3, <1>4

\* What is told of a range lies in the range and in the file.
LEMMA ProgressFacts ==
    ASSUME DownloadInv, NEW k \in DOMAIN told
    PROVE  /\ Batch /\ ranges # <<>> /\ size > 0 /\ k \in DOMAIN ranges
           /\ Progress(k) \subseteq
                 {b \in ranges[k].first .. ranges[k].last : b < objLen}
           /\ told[k].ok /\ part[k].named =>
                 Progress(k) = {b \in ranges[k].first .. ranges[k].last : b < objLen}
           /\ \A b \in Progress(k) : b \in DOMAIN file /\ file[b] = b
  <1> DEFINE r == ranges[k]
             t == told[k]
  <1>1. /\ told # <<>> /\ t \in [ok : BOOLEAN, first : Nat, len : Int]
        /\ objLen \in Nat /\ Small \in Nat \ {0}
    <2> DEFINE T == [ok : BOOLEAN, first : Nat, len : Int]
    <2>1. told \in Seq(T) /\ objLen \in Nat
      BY DEF DownloadInv, TypeOK
    <2>2. told # <<>> /\ t \in T
      <3> HIDE DEF T
      <3>1. QED
        BY <2>1
    <2>3. QED
      BY <2>1, <2>2, DownloadAssumption
  <1>2. pc = "returned" /\ Batch
    BY <1>1 DEF DownloadInv, Stages, TypeOK, Steps
  <1>3. /\ DOMAIN told = DOMAIN ranges /\ k \in DOMAIN part
        /\ t.ok <=> part[k].st = "ok"
    BY <1>1, <1>2 DEF DownloadInv, FailureIsReported, TypeOK
  <1>4. ranges # <<>> /\ size > 0
    BY <1>1, <1>2, <1>3 DEF DownloadInv, Planned, Batch, TypeOK
  <1>5. r \in Ranges /\ r.first <= r.last /\ r.to = r.first
    BY <1>2, <1>3, <1>4, RangeFacts DEF DownloadInv
  <1>6. r.first \in Nat /\ r.last \in Int
    BY <1>5 DEF Ranges
  <1>7. CASE ~t.ok \/ ~part[k].named
    <2>1. Progress(k) = {}
      <3>1. t.ok => t.len = 0
        BY <1>7 DEF DownloadInv, ToldAsSent
      <3>2. QED
        BY <1>1, <3>1 DEF Progress
    <2>2. QED
      BY <1>2, <1>3, <1>4, <1>7, <2>1
  <1>8. CASE t.ok /\ part[k].named
    <2>1. /\ t.first = r.first
          /\ t.first + t.len = IF r.last < objLen THEN r.last + 1 ELSE objLen
      BY <1>8 DEF DownloadInv, ToldAsSent
    <2>2. Progress(k) = t.first .. t.first + t.len - 1
      BY <1>8 DEF Progress
    <2> HIDE DEF r, t
    <2>3. Progress(k) = {b \in r.first .. r.last : b < objLen}
      BY <1>1, <1>6, <2>1, <2>2
    <2>4. /\ r.first + Served(r).len = IF r.last < objLen THEN r.last + 1 ELSE objLen
          /\ Served(r).len \in Int
      BY <1>1, <1>5, ServedRange
    <2>5. part[k].sent = Served(r).len
      BY <1>3, <1>8 DEF DownloadInv, Arrived, r
    <2>6. ASSUME NEW b \in Progress(k) PROVE b \in DOMAIN file
      <3>4. b \in r.first .. r.last /\ b < objLen
        BY <2>3, <2>6
      <3>5. objLen \in Nat
        BY <1>1 DEF DownloadInv, TypeOK
      <3>6. b < r.first + part[k].sent /\ part[k].sent \in Int
        BY <1>6, <2>4, <2>5, <3>4, <3>5
      <3>1. b - r.first \in 0 .. part[k].sent - 1 /\ b = r.to + (b - r.first)
        BY <1>5, <1>6, <3>4, <3>6
      <3>2. \A j \in 0 .. part[k].sent - 1 : r.to + j \in DOMAIN file
        BY <1>3 DEF DownloadInv, Arrived, r
      <3>3. QED
        BY <3>1, <3>2
    <2>7. ASSUME NEW b \in Progress(k) PROVE file[b] = b
      <3>1. file[b] \in Wanted /\ b = Place(file[b])
        BY <1>4, <2>6, <2>7 DEF DownloadInv, EachByteInItsPlace
      <3>2. QED
        BY <1>2, <3>1 DEF Place
    <2>8. QED
      BY <1>2, <1>3, <1>4, <2>3, <2>6, <2>7 DEF r
  <1>9. QED
    BY <1>7, <1>8

(***************************************************************************)
(* What success_cb is told is in the file, at its place; no byte is told   *)
(* twice; and the progress adds up to the range when the call returns 0    *)
(* and every reply named its range.                                        *)
(***************************************************************************)
THEOREM ProgressIsTrue == Spec => []ToldIsWritten
  <1>1. ASSUME DownloadInv PROVE ToldIsWritten
    <2>1. ASSUME NEW j \in DOMAIN told, NEW k \in DOMAIN told, j < k
          PROVE  Progress(j) \cap Progress(k) = {}
      <3>1. ranges[j].last < ranges[k].first
        BY <1>1, <2>1, ProgressFacts, RangesApart
      <3>2. /\ Progress(j) \subseteq ranges[j].first .. ranges[j].last
            /\ Progress(k) \subseteq ranges[k].first .. ranges[k].last
        BY <1>1, <2>1, ProgressFacts
      <3>3. ranges[j] \in Ranges /\ ranges[k] \in Ranges
        BY <1>1, <2>1, ProgressFacts DEF DownloadInv, TypeOK
      <3>4. QED
        BY <3>1, <3>2, <3>3 DEF Ranges
    <2>2. \A j, k \in DOMAIN told : j # k => Progress(j) \cap Progress(k) = {}
      <3>1. DOMAIN told \subseteq Int
        BY <1>1 DEF DownloadInv, TypeOK
      <3>2. QED
        BY <2>1, <3>1
    <2>3. ASSUME told # <<>>, ret = 0, Representable,
                 \A k \in DOMAIN part : part[k].named, NEW b \in Wanted
          PROVE  \E k \in DOMAIN told : b \in Progress(k)
      <3>1. pc = "returned" /\ Batch
        BY <1>1, <2>3 DEF DownloadInv, Stages, TypeOK, Steps
      <3>2. DOMAIN told = DOMAIN ranges /\ DOMAIN part = DOMAIN ranges
            /\ \A k \in DOMAIN told : told[k].ok
        BY <1>1, <2>3, <3>1 DEF DownloadInv, FailureIsReported, TypeOK
      <3>3. 1 \in DOMAIN told
        BY <1>1, <2>3 DEF DownloadInv, TypeOK
      <3>4. PICK k \in DOMAIN ranges : ranges[k].first <= b /\ b <= ranges[k].last
        BY <1>1, <2>3, <3>3, ProgressFacts, Covered
      <3>5. Progress(k) = {c \in ranges[k].first .. ranges[k].last : c < objLen}
        BY <1>1, <2>3, <3>2, <3>4, ProgressFacts
      <3>6. b \in Int /\ b < objLen
        BY <1>1 DEF Wanted, DownloadInv, TypeOK
      <3>7. ranges[k].first \in Int /\ ranges[k].last \in Int
        <4>1. ranges[k] \in Ranges
          BY <1>1, <3>2, <3>4, ProgressFacts, RangeFacts DEF DownloadInv
        <4>2. QED
          BY <4>1 DEF Ranges
      <3>8. QED
        BY <3>2, <3>4, <3>5, <3>6, <3>7
    <2>4. \A k \in DOMAIN told : \A b \in Progress(k) : b \in DOMAIN file /\ file[b] = b
      BY <1>1, ProgressFacts
    <2>5. QED
      BY <2>2, <2>3, <2>4 DEF ToldIsWritten
  <1>2. QED
    BY <1>1, DownloadInvariant, PTL

===============================================================================
