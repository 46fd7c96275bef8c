---------------------------- MODULE UploadProofs ----------------------------
(***************************************************************************)
(* The multipart arithmetic for every size and block size, and from it the *)
(* properties of parallel_upload.                                          *)
(***************************************************************************)
EXTENDS UploadProperties, SequenceTheorems, TLAPS

(***************************************************************************)
(* Division                                                                *)
(***************************************************************************)

\* n = a \div b is the only number with n * b <= a < (n + 1) * b.
LEMMA DivBounds ==
    ASSUME NEW a \in Nat, NEW b \in Nat \ {0}
    PROVE  /\ a \div b \in Nat
           /\ (a \div b) * b <= a
           /\ a < (a \div b) * b + b
  OBVIOUS

LEMMA TimesMono ==
    ASSUME NEW m \in Nat, NEW n \in Nat, NEW b \in Nat, m <= n
    PROVE  m * b <= n * b
  OBVIOUS

\* CeilDiv(s, p) pieces of size p cover s, and one piece less does not.
LEMMA CeilBounds ==
    ASSUME NEW s \in Nat, NEW p \in Nat \ {0}
    PROVE  /\ CeilDiv(s, p) \in Nat
           /\ s <= CeilDiv(s, p) * p
           /\ CeilDiv(s, p) * p < s + p
  <1>1. s + p - 1 \in Nat
    OBVIOUS
  <1>2. QED
    BY <1>1, DivBounds DEF CeilDiv

\* If n pieces cover s, CeilDiv(s, p) is at most n.
LEMMA CeilLeast ==
    ASSUME NEW s \in Nat, NEW p \in Nat \ {0}, NEW n \in Nat, s <= n * p
    PROVE  CeilDiv(s, p) <= n
  <1> DEFINE c == CeilDiv(s, p)
  <1>1. c \in Nat /\ c * p < s + p
    BY CeilBounds
  <1>2. SUFFICES ASSUME n + 1 <= c PROVE FALSE
    BY <1>1
  <1> HIDE DEF c
  <1>3. (n + 1) * p <= c * p
    BY <1>1, <1>2, TimesMono
  <1>4. (n + 1) * p = n * p + p
    OBVIOUS
  <1>5. n * p \in Nat /\ c * p \in Nat
    BY <1>1
  <1>6. QED
    BY <1>1, <1>3, <1>4, <1>5

\* If fewer than n + 1 pieces do not do, CeilDiv(s, p) is more than n.
LEMMA CeilMore ==
    ASSUME NEW s \in Nat, NEW p \in Nat \ {0}, NEW n \in Nat, n * p < s
    PROVE  n < CeilDiv(s, p)
  <1> DEFINE c == CeilDiv(s, p)
  <1>1. c \in Nat /\ s <= c * p
    BY CeilBounds
  <1>2. SUFFICES ASSUME c <= n PROVE FALSE
    BY <1>1
  <1> HIDE DEF c
  <1>3. c * p <= n * p
    BY <1>1, <1>2, TimesMono
  <1>4. n * p \in Nat /\ c * p \in Nat
    BY <1>1
  <1>5. QED
    BY <1>1, <1>3, <1>4

(***************************************************************************)
(* Integers                                                                *)
(***************************************************************************)
LEMMA IntRange == IntMax \in Nat /\ MaxParts <= IntMax /\ IntMax < IntMod
  BY PartSizeAssumption DEF IntMax

\* An int holds what it can.
LEMMA ToIntSmall ==
    ASSUME NEW x \in Nat, x <= IntMax
    PROVE  ToInt(x) = x
  <1>1. x < IntMod /\ IntMod \in Nat /\ IntMax \in Nat
    BY IntRange, PartSizeAssumption
  <1>2. x % IntMod = x
    BY <1>1
  <1>3. ~(x % IntMod > IntMax)
    BY <1>1, <1>2
  <1>4. QED
    BY <1>2, <1>3 DEF ToInt

\* What does not fit may come out as anything, but 0 comes out as 0.
LEMMA ToIntZero == ToInt(0) = 0
  BY ToIntSmall, IntRange

LEMMA ToIntType == ASSUME NEW x \in Nat PROVE ToInt(x) \in Int
  BY PartSizeAssumption DEF ToInt

(***************************************************************************)
(* The part size                                                           *)
(***************************************************************************)
LEMMA CeilZero == ASSUME NEW p \in Nat \ {0} PROVE CeilDiv(0, p) = 0
  <1>1. CeilDiv(0, p) \in Nat
    BY CeilBounds
  <1>2. CeilDiv(0, p) <= 0
    BY CeilLeast
  <1>3. QED
    BY <1>1, <1>2

\* Rounding up to units gives at least one unit, and no less than before.
LEMMA RoundUpBounds ==
    ASSUME NEW x \in Nat \ {0}
    PROVE  RoundUp(x) \in Nat /\ RoundUp(x) >= x /\ RoundUp(x) >= Unit
  <1> DEFINE c == CeilDiv(x, Unit)
  <1>1. Unit \in Nat \ {0}
    BY PartSizeAssumption
  <1>2. c \in Nat /\ x <= c * Unit
    BY <1>1, CeilBounds
  <1>3. 0 < c
    BY <1>1, CeilMore
  <1> HIDE DEF c
  <1>4. 1 * Unit <= c * Unit
    BY <1>1, <1>2, <1>3, TimesMono
  <1>5. c * Unit \in Nat
    BY <1>1, <1>2
  <1>6. RoundUp(x) = c * Unit
    BY DEF RoundUp, c
  <1>7. QED
    BY <1>1, <1>2, <1>4, <1>5, <1>6

LEMMA BlockType == ASSUME NEW b \in Int PROVE Block(b) \in Nat \ {0}
  BY PartSizeAssumption DEF Block

\* The part size is what one of two sizes rounds up to, and not less than it.
LEMMA PartSizeChoice ==
    ASSUME NEW s \in Nat, NEW b \in Int
    PROVE  LET w == calc_part_size(s, b)
               n == ToInt(CeilDiv(s, Block(b)))
           IN  /\ w \in Nat \ {0} /\ w >= Unit
               /\ n > MaxParts => w >= CeilDiv(s, MaxParts)
               /\ ~(n > MaxParts) => w >= Block(b)
  <1> DEFINE w == calc_part_size(s, b)
             n == ToInt(CeilDiv(s, Block(b)))
  <1>1. Unit \in Nat \ {0} /\ MaxParts \in Nat \ {0} /\ Block(b) \in Nat \ {0}
    BY PartSizeAssumption, BlockType
  <1>2. CASE n > MaxParts
    <2>1. s # 0
      <3>1. SUFFICES ASSUME s = 0 PROVE FALSE
        OBVIOUS
      <3>2. n = 0
        BY <1>1, <3>1, CeilZero, ToIntZero
      <3>3. QED
        BY <1>1, <1>2, <3>2
    <2>2. 0 < CeilDiv(s, MaxParts)
      BY <1>1, <2>1, CeilMore
    <2>3. CeilDiv(s, MaxParts) \in Nat \ {0}
      BY <1>1, <2>2, CeilBounds
    <2>4. w = RoundUp(CeilDiv(s, MaxParts))
      BY <1>2 DEF calc_part_size
    <2>5. w \in Nat /\ w >= CeilDiv(s, MaxParts) /\ w >= Unit
      BY <2>3, <2>4, RoundUpBounds
    <2>6. QED
      BY <1>1, <1>2, <2>5
  <1>3. CASE ~(n > MaxParts)
    <2>1. w = RoundUp(Block(b))
      BY <1>3 DEF calc_part_size
    <2>2. w \in Nat /\ w >= Block(b) /\ w >= Unit
      BY <1>1, <2>1, RoundUpBounds
    <2>3. QED
      BY <1>1, <1>3, <2>2
  <1>4. QED
    BY <1>2, <1>3

LEMMA PartSizeType ==
    ASSUME NEW s \in Nat, NEW b \in Int
    PROVE  calc_part_size(s, b) \in Nat \ {0} /\ calc_part_size(s, b) >= Unit
  BY PartSizeChoice

\* Parts of at least a unit: their number fits an int when that of units does.
LEMMA PartCountExact ==
    ASSUME NEW s \in Nat, CeilDiv(s, Unit) <= IntMax,
           NEW w \in Nat \ {0}, w >= Unit
    PROVE  PartCount(s, w) = CeilDiv(s, w)
  <1> DEFINE u == CeilDiv(s, Unit)
  <1>1. Unit \in Nat \ {0}
    BY PartSizeAssumption
  <1>2. u \in Nat /\ s <= u * Unit
    BY <1>1, CeilBounds
  <1>3. u <= IntMax
    OBVIOUS
  <1> HIDE DEF u
  <1>4. u * Unit <= w * u
    BY <1>1, <1>2, TimesMono
  <1>5. u * Unit \in Nat /\ w * u \in Nat /\ w * u = u * w
    BY <1>1, <1>2
  <1>6. s <= u * w
    BY <1>2, <1>4, <1>5
  <1>7. CeilDiv(s, w) <= u /\ CeilDiv(s, w) \in Nat
    BY <1>2, <1>6, CeilLeast, CeilBounds
  <1>8. CeilDiv(s, w) <= IntMax
    BY <1>2, <1>3, <1>7, IntRange
  <1>9. QED
    BY <1>7, <1>8, ToIntSmall DEF PartCount

(***************************************************************************)
(* Whatever the file's size and the block size, the parts are no more than *)
(* MaxParts, as long as the first count in calc_part_size and the number   *)
(* of units fit an int (client.h:266-276).                                 *)
(***************************************************************************)
THEOREM PartLimit ==
    ASSUME NEW s \in Nat, CeilDiv(s, Unit) <= IntMax,
           NEW b \in Int, CeilDiv(s, Block(b)) <= IntMax
    PROVE  PartCount(s, calc_part_size(s, b)) <= MaxParts
  <1> DEFINE w == calc_part_size(s, b)
             n == CeilDiv(s, Block(b))
             m == CeilDiv(s, MaxParts)
  <1>1. /\ MaxParts \in Nat \ {0} /\ Block(b) \in Nat \ {0}
        /\ w \in Nat \ {0} /\ w >= Unit
    BY PartSizeAssumption, BlockType, PartSizeType
  <1>2. PartCount(s, w) = CeilDiv(s, w)
    BY <1>1, PartCountExact
  <1>3. /\ n \in Nat /\ s <= n * Block(b)
        /\ m \in Nat /\ s <= m * MaxParts
    BY <1>1, CeilBounds
  <1>4. ToInt(n) = n
    BY <1>3, ToIntSmall
  <1>5. (n > MaxParts => w >= m) /\ (~(n > MaxParts) => w >= Block(b))
    BY <1>4, PartSizeChoice
  <1> HIDE DEF w, n, m
  <1>6. CASE n > MaxParts
    <2>1. m * MaxParts <= w * MaxParts
      BY <1>1, <1>3, <1>5, <1>6, TimesMono
    <2>2. s <= MaxParts * w
      <3>1. m * MaxParts \in Nat /\ w * MaxParts \in Nat /\ w * MaxParts = MaxParts * w
        BY <1>1, <1>3
      <3>2. QED
        BY <1>3, <2>1, <3>1
    <2>3. QED
      BY <1>1, <1>2, <2>2, CeilLeast DEF w
  <1>7. CASE ~(n > MaxParts)
    <2>1. Block(b) * n <= w * n
      BY <1>1, <1>3, <1>5, <1>7, TimesMono
    <2>2. s <= n * w
      <3>1. /\ n * Block(b) \in Nat /\ n * w \in Nat
            /\ n * Block(b) = Block(b) * n /\ n * w = w * n
        BY <1>1, <1>3
      <3>2. QED
        BY <1>3, <2>1, <3>1
    <2>3. CeilDiv(s, w) <= n /\ CeilDiv(s, w) \in Nat
      BY <1>1, <1>3, <2>2, CeilLeast, CeilBounds
    <2>4. QED
      BY <1>1, <1>2, <1>3, <1>7, <2>3 DEF w
  <1>8. QED
    BY <1>6, <1>7

(***************************************************************************)
(* The inductive invariant                                                 *)
(***************************************************************************)

\* What the size chosen at the start says of the parts.
LEMMA ChosenFacts ==
    ASSUME UploadInv
    PROVE  /\ size \in Nat /\ blk \in Int
           /\ whole \in Nat \ {0}
           /\ CeilDiv(size, Unit) <= IntMax
           /\ part_num = CeilDiv(size, whole)
  <1>1. size \in Nat /\ blk \in Int /\ CeilDiv(size, Unit) <= IntMax
    BY UploadAssumption DEF UploadInv, TypeOK, Chosen
  <1>2. whole \in Nat \ {0} /\ whole >= Unit
    BY <1>1, PartSizeType DEF UploadInv, Chosen
  <1>3. part_num = CeilDiv(size, whole)
    BY <1>1, <1>2, PartCountExact DEF UploadInv, Chosen
  <1>4. QED
    BY <1>1, <1>2, <1>3

\* Once the loop is over there is a context for each part of the file.
LEMMA AllCut ==
    ASSUME UploadInv, pc \notin {"init", "plan", "slice"}, session # "none"
    PROVE  Len(ctx) = part_num /\ off = size
  <1> DEFINE n == Len(ctx)
             w == whole
             c == CeilDiv(size, w)
  <1>1. size \in Nat /\ w \in Nat \ {0} /\ part_num = c
    BY ChosenFacts
  <1>2. n \in Nat /\ c \in Nat /\ off \in Nat
    BY <1>1, CeilBounds DEF UploadInv, TypeOK
  <1>3. off >= size /\ off = IF n * w <= size THEN n * w ELSE size
    BY DEF UploadInv, Cursor, PartsTile
  <1>4. n * w \in Nat /\ size <= n * w
    BY <1>1, <1>2, <1>3
  <1>5. c <= n
    BY <1>1, <1>2, <1>4, CeilLeast
  <1>6. n <= c
    <2>1. CASE n = 0
      BY <1>2, <2>1
    <2>2. CASE n # 0
      <3>1. /\ ctx[n].off = (n - 1) * w
            /\ ctx[n].len = IF n * w <= size THEN w ELSE size - ctx[n].off
            /\ ctx[n].len > 0
        <4>1. n \in 1 .. n
          BY <1>2, <2>2
        <4>2. QED
          BY <4>1 DEF UploadInv, PartsTile
      <3>2. n - 1 \in Nat /\ (n - 1) * w \in Nat /\ n * w = (n - 1) * w + w
        BY <1>1, <1>2, <2>2
      <3>3. (n - 1) * w < size
        BY <1>1, <1>4, <3>1, <3>2
      <3>4. n - 1 < c
        BY <1>1, <3>2, <3>3, CeilMore
      <3>5. QED
        BY <1>2, <3>4
    <2>3. QED
      BY <2>1, <2>2
  <1>7. QED
    BY <1>1, <1>2, <1>3, <1>4, <1>5, <1>6

LEMMA InitInv == ASSUME Init PROVE UploadInv
  <1>1. size \in Nat /\ blk \in Int /\ CeilDiv(size, Unit) <= IntMax
    BY UploadAssumption DEF Init
  <1>2. whole \in Nat \ {0} /\ whole >= Unit
    BY <1>1, PartSizeType DEF Init
  <1>3. part_num = CeilDiv(size, whole) /\ part_num \in Nat
    BY <1>1, <1>2, PartCountExact, CeilBounds DEF Init
  <1>4. Len(<<>>) = 0 /\ DOMAIN <<>> = {}
    OBVIOUS
  <1>5. TypeOK
    BY <1>1, <1>2, <1>3, <1>4, UploadAssumption, EmptySeq
    DEF Init, TypeOK, Steps, Sessions, NoRequest
  <1>6. Chosen
    BY DEF Init, Chosen
  <1>7. PartsTile
    BY <1>1, <1>2, <1>4 DEF Init, PartsTile
  <1>8. Cursor
    BY <1>1, <1>4 DEF Init, Cursor
  <1>9. Uploaded
    BY <1>4 DEF Init, Uploaded
  <1>10. Working
    BY DEF Init, Working, NoRequest
  <1>11. QED
    BY <1>5, <1>6, <1>7, <1>8, <1>9, <1>10 DEF UploadInv

\* The upload is opened.
LEMMA InitUploadInv ==
    ASSUME UploadInv, InitUpload
    PROVE  UploadInv'
  <1>1. TypeOK'
    BY UploadAssumption DEF TypeOK, Steps, Sessions, InitUpload, UploadInv,
       fileVars, sliceVars, serviceVars
  <1>2. Chosen'
    BY DEF Chosen, InitUpload, UploadInv, fileVars, sliceVars, serviceVars
  <1>3. PartsTile'
    BY DEF PartsTile, InitUpload, UploadInv, fileVars, sliceVars, serviceVars
  <1>4. Cursor'
    BY DEF Cursor, InitUpload, UploadInv, fileVars, sliceVars, serviceVars
  <1>5. Uploaded'
    BY DEF Uploaded, InitUpload, UploadInv, fileVars, sliceVars, serviceVars,
       TypeOK, Cursor
  <1>6. Working'
    BY DEF Working, NoRequest, InitUpload, UploadInv, fileVars, sliceVars,
       serviceVars
  <1>7. QED
    BY <1>1, <1>2, <1>3, <1>4, <1>5, <1>6 DEF UploadInv

\* A reply is lost; the upload that may be open is not this one.
LEMMA InitLostInv ==
    ASSUME UploadInv, InitLost
    PROVE  UploadInv'
  <1>1. TypeOK'
    <2>1. /\ strays' \in 0 .. faults'
          /\ faults' \in 0 .. Faults
      BY UploadAssumption DEF InitLost, Fault, UploadInv, TypeOK
    <2>2. tried' \in 0 .. Retry
      BY UploadAssumption DEF InitLost, UploadInv, TypeOK
    <2>3. pc' \in Steps /\ ret' \in {0, 1}
      BY DEF InitLost, UploadInv, TypeOK, Steps
    <2> QED
      BY <2>1, <2>2, <2>3 DEF TypeOK, InitLost, UploadInv, fileVars, sliceVars
  <1>2. Chosen'
    BY DEF Chosen, InitLost, UploadInv, fileVars, sliceVars, serviceVars
  <1>3. PartsTile'
    BY DEF PartsTile, InitLost, UploadInv, fileVars, sliceVars, serviceVars
  <1>4. Cursor'
    BY DEF Cursor, InitLost, UploadInv, fileVars, sliceVars, serviceVars,
       Fault, Uploaded
  <1>5. Uploaded'
    BY DEF Uploaded, InitLost, UploadInv, fileVars, sliceVars, serviceVars,
       Fault
  <1>6. Working'
    BY DEF Working, NoRequest, InitLost, UploadInv, fileVars, sliceVars,
       serviceVars, Fault, Uploaded
  <1>7. QED
    BY <1>1, <1>2, <1>3, <1>4, <1>5, <1>6 DEF UploadInv

\* Nothing was opened.
LEMMA InitRefusedInv ==
    ASSUME UploadInv, InitRefused
    PROVE  UploadInv'
  <1>1. TypeOK'
    BY UploadAssumption DEF TypeOK, Steps, Sessions, InitRefused, UploadInv,
       fileVars, sliceVars, serviceVars, Fault
  <1>2. Chosen'
    BY DEF Chosen, InitRefused, UploadInv, fileVars, sliceVars, serviceVars
  <1>3. PartsTile'
    BY DEF PartsTile, InitRefused, UploadInv, fileVars, sliceVars, serviceVars
  <1>4. Cursor'
    BY DEF Cursor, InitRefused, UploadInv, fileVars, sliceVars, serviceVars,
       Fault, Uploaded
  <1>5. Uploaded'
    BY DEF Uploaded, InitRefused, UploadInv, fileVars, sliceVars, serviceVars,
       Fault
  <1>6. Working'
    BY DEF Working, NoRequest, InitRefused, UploadInv, fileVars, sliceVars,
       serviceVars, Fault, Uploaded
  <1>7. QED
    BY <1>1, <1>2, <1>3, <1>4, <1>5, <1>6 DEF UploadInv

\* The answers before any came.
LEMMA NoneYet ==
    ASSUME NEW n \in Nat
    PROVE  LET a == [k \in 1 .. n |-> "none"]
           IN  /\ a \in Seq({"none", "ok", "fail"})
               /\ Len(a) = n
               /\ \A k \in 1 .. n : a[k] = "none"
  OBVIOUS

\* As many answers to come as parts.
LEMMA PlanInv ==
    ASSUME UploadInv, Plan
    PROVE  UploadInv'
  <1>1. TypeOK'
    <2>1. answer' \in Seq({"none", "ok", "fail"})
      BY NoneYet DEF Plan, UploadInv, TypeOK
    <2>2. QED
      BY <2>1 DEF TypeOK, Plan, UploadInv, fileVars, sliceVars, serviceVars,
                  Steps
  <1>2. Chosen'
    BY DEF Chosen, Plan, UploadInv, fileVars, sliceVars, serviceVars
  <1>3. PartsTile'
    BY DEF PartsTile, Plan, UploadInv, fileVars, sliceVars, serviceVars
  <1>4. Cursor'
    BY DEF Cursor, Plan, UploadInv, fileVars, sliceVars, serviceVars
  <1>5. Uploaded'
    <2>1. /\ Len(answer') = part_num
          /\ \A k \in 1 .. Len(answer') : answer'[k] = "none"
      BY NoneYet DEF Plan, UploadInv, TypeOK
    <2>2. QED
      BY <2>1 DEF Uploaded, Plan, UploadInv, fileVars, sliceVars, serviceVars
  <1>6. Working'
    BY DEF Working, NoRequest, Plan, UploadInv, fileVars, sliceVars,
       serviceVars
  <1>7. QED
    BY <1>1, <1>2, <1>3, <1>4, <1>5, <1>6 DEF UploadInv

\* The whole file is cut.
LEMMA SlicedInv ==
    ASSUME UploadInv, Sliced
    PROVE  UploadInv'
  <1>1. TypeOK'
    BY DEF TypeOK, Steps, Sessions, Sliced, UploadInv, fileVars, sliceVars,
       serviceVars
  <1>2. Chosen'
    BY DEF Chosen, Sliced, UploadInv, fileVars, sliceVars, serviceVars
  <1>3. PartsTile'
    BY DEF PartsTile, Sliced, UploadInv, fileVars, sliceVars, serviceVars
  <1>4. Cursor'
    BY DEF Cursor, Sliced, UploadInv, fileVars, sliceVars, serviceVars
  <1>5. Uploaded'
    BY DEF Uploaded, Sliced, UploadInv, fileVars, sliceVars, serviceVars
  <1>6. Working'
    BY DEF Working, NoRequest, Sliced, UploadInv, fileVars, sliceVars,
       serviceVars
  <1>7. QED
    BY <1>1, <1>2, <1>3, <1>4, <1>5, <1>6 DEF UploadInv

\* A batch has a slice and an answer for each part.
LEMMA InBatch ==
    ASSUME UploadInv, pc \in {"batch", "collect"}, NEW k \in DOMAIN answer
    PROVE  /\ session = "open" /\ off = size
           /\ k \in 1 .. Len(ctx) /\ k \in 1 .. Len(answer)
           /\ ctx[k] \in [off : Nat, len : Nat]
  <1>1. session = "open"
    BY DEF UploadInv, Working
  <1>2. Len(ctx) = part_num /\ off = size
    BY <1>1, AllCut
  <1>3. Len(answer) = part_num
    BY <1>1 DEF UploadInv, Uploaded
  <1>4. DOMAIN answer = 1 .. Len(answer)
    BY DEF UploadInv, TypeOK
  <1>5. k \in 1 .. Len(ctx) /\ k \in 1 .. Len(answer)
    BY <1>2, <1>3, <1>4
  <1>6. ctx[k] \in [off : Nat, len : Nat]
    BY <1>5, ElementOfSeq DEF UploadInv, TypeOK
  <1>7. QED
    BY <1>1, <1>2, <1>5, <1>6

\* What the service has after storing part k.
LEMMA StoreFacts ==
    ASSUME UploadInv, pc = "batch", NEW k \in DOMAIN answer, Store(k)
    PROVE  /\ DOMAIN stored' = (DOMAIN stored) \cup {k}
           /\ stored' = [n \in DOMAIN stored' |-> stored'[n]]
           /\ \A n \in DOMAIN stored' : /\ n \in 1 .. Len(ctx)
                                        /\ stored'[n] = ctx[n]
                                        /\ stored'[n] \in [off : Nat, len : Nat]
  <1>1. k \in 1 .. Len(ctx) /\ ctx[k] \in [off : Nat, len : Nat]
    BY InBatch
  <1>2. /\ DOMAIN stored' = (DOMAIN stored) \cup {k}
        /\ stored' = [n \in DOMAIN stored' |-> stored'[n]]
        /\ \A n \in DOMAIN stored' :
              stored'[n] = IF n = k THEN ctx[k] ELSE stored[n]
    BY DEF Store
  <1>3. \A n \in DOMAIN stored : /\ n \in 1 .. Len(ctx)
                                 /\ stored[n] = ctx[n]
                                 /\ stored[n] \in [off : Nat, len : Nat]
    BY DEF UploadInv, Uploaded, TypeOK
  <1>4. QED
    BY <1>1, <1>2, <1>3

\* One answer more.
LEMMA AnswerFacts ==
    ASSUME UploadInv, NEW k \in 1 .. Len(answer), NEW a \in {"none", "ok", "fail"},
           answer' = [answer EXCEPT ![k] = a]
    PROVE  /\ answer' \in Seq({"none", "ok", "fail"})
           /\ Len(answer') = Len(answer)
           /\ answer'[k] = a
           /\ \A j \in 1 .. Len(answer) : j # k => answer'[j] = answer[j]
  <1>1. answer \in Seq({"none", "ok", "fail"})
    BY DEF UploadInv, TypeOK
  <1>2. QED
    BY <1>1, ExceptSeq

\* The part stored is the slice its context names.
LEMMA PartStoredInv ==
    ASSUME UploadInv, NEW k \in DOMAIN answer, PartStored(k)
    PROVE  UploadInv'
  <1> USE DEF PartStored, fileVars, sliceVars, serviceVars
  <1>1. /\ session = "open" /\ session' = "open" /\ off = size
        /\ k \in 1 .. Len(ctx) /\ k \in 1 .. Len(answer)
    BY InBatch
  <1>2. /\ answer' \in Seq({"none", "ok", "fail"})
        /\ Len(answer') = Len(answer)
        /\ answer'[k] = "ok"
        /\ \A j \in 1 .. Len(answer) : j # k => answer'[j] = answer[j]
    BY <1>1, AnswerFacts
  <1>3. /\ stored' = [n \in DOMAIN stored' |-> stored'[n]]
        /\ DOMAIN stored \subseteq DOMAIN stored'
        /\ k \in DOMAIN stored'
        /\ \A n \in DOMAIN stored' : /\ n \in 1 .. Len(ctx)
                                     /\ stored'[n] = ctx[n]
                                     /\ stored'[n] \in [off : Nat, len : Nat]
    BY StoreFacts
  <1>4. strays' \in 0 .. faults' /\ faults' \in 0 .. Faults
    BY UploadAssumption DEF UploadInv, TypeOK, Fault
  <1>5. TypeOK'
    BY <1>2, <1>3, <1>4 DEF UploadInv, TypeOK
  <1>6. Chosen' /\ PartsTile' /\ Cursor' /\ Working'
    BY <1>1 DEF UploadInv, Chosen, PartsTile, Cursor, Working
  <1>7. Uploaded'
    BY <1>1, <1>2, <1>3 DEF UploadInv, Uploaded
  <1>8. QED
    BY <1>5, <1>6, <1>7 DEF UploadInv

\* A part that fails may be stored all the same.
LEMMA PartFailsInv ==
    ASSUME UploadInv, NEW k \in DOMAIN answer, PartFails(k)
    PROVE  UploadInv'
  <1> USE DEF PartFails, fileVars, sliceVars, serviceVars
  <1>1. /\ session = "open" /\ session' = "open" /\ off = size
        /\ k \in 1 .. Len(ctx) /\ k \in 1 .. Len(answer)
    BY InBatch
  <1>2. /\ answer' \in Seq({"none", "ok", "fail"})
        /\ Len(answer') = Len(answer)
        /\ answer'[k] = "fail"
        /\ \A j \in 1 .. Len(answer) : j # k => answer'[j] = answer[j]
    BY <1>1, AnswerFacts
  <1>3. /\ stored' = [n \in DOMAIN stored' |-> stored'[n]]
        /\ DOMAIN stored \subseteq DOMAIN stored'
        /\ \A n \in DOMAIN stored' : /\ n \in 1 .. Len(ctx)
                                     /\ stored'[n] = ctx[n]
                                     /\ stored'[n] \in [off : Nat, len : Nat]
    <2>1. CASE Store(k)
      BY <2>1, StoreFacts
    <2>2. CASE UNCHANGED stored
      BY <2>2 DEF UploadInv, TypeOK, Uploaded
    <2>3. QED
      BY <2>1, <2>2
  <1>4. strays' \in 0 .. faults' /\ faults' \in 0 .. Faults
    BY SMTT(30), UploadAssumption DEF UploadInv, TypeOK, Fault
  <1>5. TypeOK'
    BY <1>2, <1>3, <1>4 DEF UploadInv, TypeOK
  <1>6. Chosen' /\ PartsTile' /\ Cursor' /\ Working'
    BY <1>1 DEF UploadInv, Chosen, PartsTile, Cursor, Working
  <1>7. Uploaded'
    BY <1>1, <1>2, <1>3 DEF UploadInv, Uploaded
  <1>8. QED
    BY <1>5, <1>6, <1>7 DEF UploadInv

\* Every part has its answer.
LEMMA BatchReturnsInv ==
    ASSUME UploadInv, BatchReturns
    PROVE  UploadInv'
  <1>1. TypeOK'
    BY DEF TypeOK, Steps, Sessions, BatchReturns, UploadInv, fileVars,
       sliceVars, serviceVars
  <1>2. Chosen'
    BY DEF Chosen, BatchReturns, UploadInv, fileVars, sliceVars, serviceVars
  <1>3. PartsTile'
    BY DEF PartsTile, BatchReturns, UploadInv, fileVars, sliceVars, serviceVars
  <1>4. Cursor'
    BY DEF Cursor, BatchReturns, UploadInv, fileVars, sliceVars, serviceVars
  <1>5. Uploaded'
    BY DEF Uploaded, BatchReturns, UploadInv, fileVars, sliceVars,
       serviceVars, TypeOK
  <1>6. Working'
    BY DEF Working, NoRequest, BatchReturns, UploadInv, fileVars, sliceVars,
       serviceVars
  <1>7. QED
    BY <1>1, <1>2, <1>3, <1>4, <1>5, <1>6 DEF UploadInv

\* The upload stays open for the destructor.
LEMMA BatchGivesUpInv ==
    ASSUME UploadInv, BatchGivesUp
    PROVE  UploadInv'
  <1>1. TypeOK'
    BY UploadAssumption DEF TypeOK, Steps, Sessions, BatchGivesUp, UploadInv,
       fileVars, sliceVars, serviceVars, Fault
  <1>2. Chosen'
    BY DEF Chosen, BatchGivesUp, UploadInv, fileVars, sliceVars, serviceVars
  <1>3. PartsTile'
    BY DEF PartsTile, BatchGivesUp, UploadInv, fileVars, sliceVars, serviceVars
  <1>4. Cursor'
    BY DEF Cursor, BatchGivesUp, UploadInv, fileVars, sliceVars, serviceVars
  <1>5. Uploaded'
    BY DEF Uploaded, BatchGivesUp, UploadInv, fileVars, sliceVars, serviceVars
  <1>6. Working'
    BY DEF Working, NoRequest, BatchGivesUp, UploadInv, fileVars, sliceVars,
       serviceVars
  <1>7. QED
    BY <1>1, <1>2, <1>3, <1>4, <1>5, <1>6 DEF UploadInv

\* add_part is called with part numbers.
LEMMA AddedFacts ==
    ASSUME UploadInv
    PROVE  AddedParts \subseteq Nat /\ AddedParts # NoRequest
  <1>1. DOMAIN answer = 1 .. Len(answer) /\ Len(answer) \in Nat
    BY DEF UploadInv, TypeOK
  <1>2. \A k \in AddedParts : k \in Nat /\ k # 0
    BY <1>1 DEF AddedParts
  <1>3. QED
    BY <1>2 DEF NoRequest

\* Only an upload with every part is completed.
LEMMA CollectInv ==
    ASSUME UploadInv, Collect
    PROVE  UploadInv'
  <1>1. TypeOK'
    BY AddedFacts DEF TypeOK, Steps, Sessions, Collect, UploadInv, fileVars,
       sliceVars, serviceVars
  <1>2. Chosen'
    BY DEF Chosen, Collect, UploadInv, fileVars, sliceVars, serviceVars
  <1>3. PartsTile'
    BY DEF PartsTile, Collect, UploadInv, fileVars, sliceVars, serviceVars
  <1>4. Cursor'
    BY DEF Cursor, Collect, UploadInv, fileVars, sliceVars, serviceVars
  <1>5. Uploaded'
    <2>1. AddedParts' = AddedParts
      BY DEF AddedParts, Collect
    <2>2. DOMAIN answer = 1 .. Len(answer) /\ session = "open"
      BY DEF UploadInv, TypeOK, Working, Collect
    <2>3. \A k \in 1 .. Len(answer) : answer[k] \in {"none", "ok", "fail"}
      BY <2>2 DEF UploadInv, TypeOK
    <2>4. \A k \in 1 .. Len(answer) : answer[k] # "none"
      BY <2>2 DEF UploadInv, Uploaded, Collect
    <2>5. pc' = "complete" => /\ \A k \in 1 .. Len(answer) : answer[k] = "ok"
                              /\ parts' = AddedParts'
      BY <2>1, <2>2, <2>3, <2>4 DEF Collect
    <2>6. QED
      BY <2>2, <2>5 DEF Uploaded, Collect, UploadInv, fileVars, sliceVars,
         serviceVars
  <1>6. Working'
    BY AddedFacts DEF Working, NoRequest, Collect, UploadInv, fileVars,
       sliceVars, serviceVars
  <1>7. QED
    BY <1>1, <1>2, <1>3, <1>4, <1>5, <1>6 DEF UploadInv

\* The request that goes out completes nothing.
LEMMA CompleteUploadInv ==
    ASSUME UploadInv, CompleteUpload
    PROVE  UploadInv'
  <1>1. TypeOK'
    BY DEF TypeOK, Steps, Sessions, CompleteUpload, UploadInv, fileVars,
       sliceVars, serviceVars
  <1>2. Chosen'
    BY DEF Chosen, CompleteUpload, UploadInv, fileVars, sliceVars, serviceVars
  <1>3. PartsTile'
    BY DEF PartsTile, CompleteUpload, UploadInv, fileVars, sliceVars,
       serviceVars
  <1>4. Cursor'
    BY DEF Cursor, CompleteUpload, UploadInv, fileVars, sliceVars, serviceVars
  <1>5. Uploaded'
    BY DEF Uploaded, CompleteUpload, UploadInv, fileVars, sliceVars,
       serviceVars
  <1>6. Working'
    BY DEF Working, NoRequest, CompleteUpload, UploadInv, fileVars, sliceVars,
       serviceVars
  <1>7. QED
    BY <1>1, <1>2, <1>3, <1>4, <1>5, <1>6 DEF UploadInv

\* The upload is gone, with its parts.
LEMMA AbortInv ==
    ASSUME UploadInv, Abort
    PROVE  UploadInv'
  <1>1. TypeOK'
    <2>1. DOMAIN stored' = {}
      BY DEF Abort
    <2>2. QED
      BY <2>1 DEF TypeOK, Steps, Sessions, Abort, UploadInv, fileVars,
         sliceVars,
                  NoRequest
  <1>2. Chosen'
    BY DEF Chosen, Abort, UploadInv, fileVars, sliceVars, serviceVars
  <1>3. PartsTile'
    BY DEF PartsTile, Abort, UploadInv, fileVars, sliceVars, serviceVars
  <1>4. Cursor'
    BY DEF Cursor, Abort, UploadInv, fileVars, sliceVars, serviceVars, Working
  <1>5. Uploaded'
    BY DEF Uploaded, Abort, UploadInv, fileVars, sliceVars, serviceVars
  <1>6. Working'
    BY DEF Working, NoRequest, Abort, UploadInv, fileVars, sliceVars,
       serviceVars
  <1>7. QED
    BY <1>1, <1>2, <1>3, <1>4, <1>5, <1>6 DEF UploadInv

\* The upload is left, and the helper knows it no more.
LEMMA AbortFailsInv ==
    ASSUME UploadInv, AbortFails
    PROVE  UploadInv'
  <1>1. TypeOK'
    BY UploadAssumption DEF TypeOK, Steps, Sessions, AbortFails, UploadInv,
       fileVars, sliceVars, serviceVars, Fault, NoRequest
  <1>2. Chosen'
    BY DEF Chosen, AbortFails, UploadInv, fileVars, sliceVars, serviceVars
  <1>3. PartsTile'
    BY DEF PartsTile, AbortFails, UploadInv, fileVars, sliceVars, serviceVars
  <1>4. Cursor'
    BY DEF Cursor, AbortFails, UploadInv, fileVars, sliceVars, serviceVars,
       Working
  <1>5. Uploaded'
    BY DEF Uploaded, AbortFails, UploadInv, fileVars, sliceVars, serviceVars
  <1>6. Working'
    BY DEF Working, NoRequest, AbortFails, UploadInv, fileVars, sliceVars,
       serviceVars
  <1>7. QED
    BY <1>1, <1>2, <1>3, <1>4, <1>5, <1>6 DEF UploadInv

\* A part more: it starts where the last one ended.
LEMMA SliceInv ==
    ASSUME UploadInv, Slice
    PROVE  UploadInv'
  <1> USE DEF Slice, fileVars, sliceVars, serviceVars
  <1> DEFINE n == Len(ctx)
             w == whole
             c == [off |-> off, len |-> part_size']
  <1>1. /\ size \in Nat /\ w \in Nat \ {0} /\ off \in Nat /\ n \in Nat
        /\ part_size = w /\ i = n
    BY ChosenFacts DEF UploadInv, TypeOK, Cursor
  <1>2. /\ n * w \in Nat /\ n * w + w \in Nat
        /\ (n + 1) * w = n * w + w
        /\ (n + 1) - 1 = n
    BY <1>1
  <1>3. off = n * w
    BY <1>1, <1>2 DEF UploadInv, PartsTile
  <1>4. /\ part_size' = IF n * w + w <= size THEN w ELSE size - off
        /\ part_size' \in Nat \ {0} /\ part_size' > 0
        /\ off' = IF n * w + w <= size THEN n * w + w ELSE size
    <2> HIDE DEF n, w
    <2>1. QED
      BY <1>1, <1>2, <1>3
  <1>5. /\ c \in [off : Nat, len : Nat]
        /\ c.off = off /\ c.len = part_size'
    BY <1>1, <1>4
  <1>6. /\ ctx' \in Seq([off : Nat, len : Nat])
        /\ Len(ctx') = n + 1
        /\ \A k \in 1 .. n : ctx'[k] = ctx[k]
        /\ ctx'[n + 1] = c
    BY <1>5 DEF UploadInv, TypeOK
  <1>7. TypeOK'
    BY <1>1, <1>2, <1>4, <1>6 DEF UploadInv, TypeOK
  <1>8. Chosen'
    BY DEF UploadInv, Chosen
  <1>9. PartsTile'
    <2>1. ASSUME NEW k \in 1 .. n + 1
          PROVE  /\ ctx'[k].off = (k - 1) * w
                 /\ ctx'[k].len = IF k * w <= size THEN w ELSE size - ctx'[k].off
                 /\ ctx'[k].len > 0
      <3>1. CASE k \in 1 .. n
        <4>1. ctx'[k] = ctx[k] /\ k \in 1 .. Len(ctx)
          BY <1>6, <3>1
        <4>2. /\ ctx[k].off = (k - 1) * w
              /\ ctx[k].len = IF k * w <= size THEN w ELSE size - ctx[k].off
              /\ ctx[k].len > 0
          BY ONLY UploadInv, <4>1 DEF UploadInv, PartsTile
        <4> QED
          BY ONLY <4>1, <4>2
      <3>2. CASE k = n + 1
        <4>1. k * w = n * w + w /\ (k - 1) * w = n * w
          BY <1>1, <1>2, <3>2
        <4>2. ctx'[k].off = off /\ ctx'[k].len = part_size'
          BY <1>5, <1>6, <3>2
        <4> HIDE DEF n, w
        <4>3. ctx'[k].off = (k - 1) * w
          BY <1>3, <4>1, <4>2
        <4>4. ctx'[k].len > 0
          <5>1. part_size' > 0
            BY <1>4
          <5>2. QED
            BY <4>2, <5>1
        <4>5. ctx'[k].len = IF k * w <= size THEN w ELSE size - ctx'[k].off
          BY <1>4, <4>1, <4>2
        <4>6. QED
          BY <4>3, <4>4, <4>5
      <3>3. QED
        BY <1>1, <3>1, <3>2
    <2>2. off' = IF Len(ctx') * w <= size THEN Len(ctx') * w ELSE size
      BY <1>2, <1>4, <1>6
    <2>3. QED
      BY <1>6, <2>1, <2>2 DEF PartsTile
  <1>10. Cursor'
    BY <1>1, <1>2, <1>3, <1>4, <1>6 DEF UploadInv, Cursor
  <1>11. Uploaded'
    BY DEF UploadInv, Uploaded
  <1>12. Working'
    BY DEF UploadInv, Working
  <1>13. QED
    BY <1>7, <1>8, <1>9, <1>10, <1>11, <1>12 DEF UploadInv

LEMMA StutterInv ==
    ASSUME UploadInv, UNCHANGED vars
    PROVE  UploadInv'
  BY SMTT(30) DEF UploadInv, TypeOK, Chosen, PartsTile, Cursor, Uploaded,
         Working, AddedParts, vars, fileVars, sliceVars, serviceVars

LEMMA NextInv ==
    ASSUME UploadInv, [Next]_vars
    PROVE  UploadInv'
  <1>1. CASE Step
    BY <1>1, InitUploadInv, InitLostInv, InitRefusedInv, PlanInv, SliceInv,
       SlicedInv, PartStoredInv, PartFailsInv, BatchReturnsInv, BatchGivesUpInv,
       CollectInv, CompleteUploadInv, AbortInv, AbortFailsInv DEF Step
  <1>2. CASE UNCHANGED vars
    BY <1>2, StutterInv
  <1>3. QED
    BY <1>1, <1>2 DEF Next, Terminated

(***************************************************************************)
(* Every reachable state satisfies the inductive invariant: the types, and *)
(* how cursor, contexts, answers, stored parts and session go together.    *)
(***************************************************************************)
THEOREM UploadInvariant == Spec => []UploadInv
  <1>1. Init => UploadInv
    BY InitInv
  <1>2. UploadInv /\ [Next]_vars => UploadInv'
    BY NextInv
  <1>3. QED
    BY <1>1, <1>2, PTL DEF Spec

(***************************************************************************)
(* The helper's fields hold values of their types whatever fails.          *)
(***************************************************************************)
THEOREM UploadTypes == Spec => []TypeOK
  <1>1. UploadInv => TypeOK
    BY DEF UploadInv
  <1>2. QED
    BY <1>1, UploadInvariant, PTL

(***************************************************************************)
(* The parts tile the file, for every size and block size (client.cpp:     *)
(* 487-504).                                                               *)
(***************************************************************************)
THEOREM Tiling == Spec => []PartsTile
  <1>1. UploadInv => PartsTile
    BY DEF UploadInv
  <1>2. QED
    BY <1>1, UploadInvariant, PTL

(***************************************************************************)
(* The loop over off fills exactly the part_num contexts allocated.        *)
(***************************************************************************)
THEOREM Fitting == Spec => []ContextsFit
  <1>1. ASSUME UploadInv PROVE ContextsFit
    <2>1. ASSUME pc = "slice", off < size PROVE i < part_num
      <3> DEFINE n == Len(ctx)
                 w == whole
      <3>1. /\ size \in Nat /\ w \in Nat \ {0} /\ n \in Nat /\ i = n
            /\ part_num = CeilDiv(size, w)
        BY <1>1, ChosenFacts DEF UploadInv, TypeOK, Cursor
      <3>2. n * w < size
        <4>1. n * w \in Nat /\ off = IF n * w <= size THEN n * w ELSE size
          BY <1>1, <3>1 DEF UploadInv, PartsTile
        <4>2. QED
          BY <2>1, <3>1, <4>1
      <3>3. QED
        BY <3>1, <3>2, CeilMore
    <2>2. ASSUME pc \notin {"init", "plan", "slice"}, session # "none"
          PROVE  i = part_num
      BY <1>1, <2>2, AllCut DEF UploadInv, Cursor
    <2>3. QED
      BY <2>1, <2>2 DEF ContextsFit
  <1>2. UploadInv => ContextsFit
    BY <1>1
  <1>3. QED
    BY <1>2, UploadInvariant, PTL

(***************************************************************************)
(* The number of parts stays within what the service and add_part accept.  *)
(***************************************************************************)
THEOREM WithinLimit == Spec => []PartsWithinLimit
  <1>1. ASSUME UploadInv PROVE PartsWithinLimit
    BY <1>1, ChosenFacts, PartLimit DEF UploadInv, Chosen, PartsWithinLimit
  <1>2. UploadInv => PartsWithinLimit
    BY <1>1
  <1>3. QED
    BY <1>2, UploadInvariant, PTL

(***************************************************************************)
(* Whenever the upload is completed, the service has the whole file.       *)
(***************************************************************************)
THEOREM WholeFiles == Spec => []CompletesWholeFiles
  <1>1. ASSUME UploadInv, pc = "complete", part_num <= MaxParts
        PROVE  /\ stored = ctx
               /\ Len(ctx) = part_num
               /\ off = size
               /\ parts = 1 .. part_num
    <2>1. session = "open" /\ MaxParts \in Nat /\ part_num \in Nat
      BY <1>1, PartSizeAssumption DEF UploadInv, Working, TypeOK
    <2>2. Len(ctx) = part_num /\ off = size
      BY <1>1, <2>1, AllCut
    <2>3. /\ Len(answer) = part_num /\ DOMAIN answer = 1 .. part_num
          /\ \A k \in 1 .. part_num : answer[k] = "ok"
          /\ parts = AddedParts
      BY <1>1, <2>1 DEF UploadInv, Uploaded, TypeOK
    <2>4. parts = 1 .. part_num
      BY <1>1, <2>1, <2>3 DEF AddedParts
    <2>5. /\ DOMAIN stored = 1 .. part_num
          /\ \A k \in DOMAIN stored : stored[k] = ctx[k]
          /\ stored = [k \in DOMAIN stored |-> stored[k]]
      BY <2>1, <2>2, <2>3, <1>1 DEF UploadInv, Uploaded
    <2>6. ctx = [k \in 1 .. part_num |-> ctx[k]]
      BY <1>1, <2>2 DEF UploadInv, TypeOK
    <2>7. stored = ctx
      BY <2>5, <2>6
    <2>8. QED
      BY <2>2, <2>4, <2>7
  <1>2. UploadInv => CompletesWholeFiles
    BY <1>1 DEF CompletesWholeFiles
  <1>3. QED
    BY <1>2, UploadInvariant, PTL

(***************************************************************************)
(* Every return leaves the upload aborted, or never opened, or its abort   *)
(* was refused or lost.                                                    *)
(***************************************************************************)
THEOREM NothingOpen == Spec => []NothingLeftOpen
  <1>1. UploadInv => NothingLeftOpen
    BY DEF UploadInv, Working, NothingLeftOpen
  <1>2. QED
    BY <1>1, UploadInvariant, PTL

(***************************************************************************)
(* A request to complete or abort exists exactly while the upload is open. *)
(***************************************************************************)
THEOREM OwnsUpload == Spec => []HelperOwnsUpload
  <1>1. UploadInv => HelperOwnsUpload
    BY DEF UploadInv, Working, HelperOwnsUpload
  <1>2. QED
    BY <1>1, UploadInvariant, PTL

===============================================================================
