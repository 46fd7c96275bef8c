------------------------------ MODULE CopyProofs ------------------------------
(***************************************************************************)
(* The properties of parallel_copy for every size, block size and history  *)
(* of the source.                                                          *)
(***************************************************************************)
EXTENDS ParallelCopy, SequenceTheorems, TLAPS

(***************************************************************************)
(* The cut                                                                 *)
(***************************************************************************)
LEMMA TimesMono ==
    ASSUME NEW m \in Nat, NEW n \in Nat, NEW b \in Nat, m <= n
    PROVE  m * b <= n * b
  OBVIOUS

\* CeilDiv(s, p) is the least number of pieces of size p that cover s.
LEMMA CeilIsLeast ==
    ASSUME NEW s \in Nat, NEW p \in Nat \ {0}
    PROVE  /\ CeilDiv(s, p) \in Nat
           /\ s <= CeilDiv(s, p) * p
           /\ \A n \in Nat : s <= n * p => CeilDiv(s, p) <= n
  <1> DEFINE c == CeilDiv(s, p)
  <1>1. c \in Nat /\ s <= c * p /\ c * p < s + p
    <2>1. s + p - 1 \in Nat
      OBVIOUS
    <2>2. \A a \in Nat : a \div p \in Nat /\ (a \div p) * p <= a
                           /\ a < (a \div p) * p + p
      OBVIOUS
    <2>3. QED
      BY <2>1, <2>2 DEF CeilDiv
  <1> HIDE DEF c
  <1>2. ASSUME NEW n \in Nat, s <= n * p, n + 1 <= c PROVE FALSE
    <2>1. (n + 1) * p <= c * p /\ (n + 1) * p = n * p + p
      BY <1>1, <1>2, TimesMono
    <2>2. n * p \in Nat /\ c * p \in Nat
      BY <1>1
    <2>3. QED
      BY <1>1, <1>2, <2>1, <2>2
  <1>3. \A n \in Nat : s <= n * p => c <= n
    BY <1>1, <1>2
  <1>4. QED
    BY <1>1, <1>3 DEF c

LEMMA CeilPositive ==
    ASSUME NEW s \in Nat \ {0}, NEW p \in Nat \ {0}
    PROVE  CeilDiv(s, p) \in Nat \ {0}
  <1>1. 0 * p = 0
    OBVIOUS
  <1>2. CeilDiv(s, p) # 0
    BY <1>1, CeilIsLeast
  <1>3. QED
    BY <1>2, CeilIsLeast

LEMMA IntFits ==
    /\ IntMax \in Nat
    /\ \A x \in Nat : x <= IntMax => ToInt(x) = x
    /\ MaxParts <= IntMax /\ MaxParts \in Nat \ {0}
  <1>1. IntMod \in Nat \ {0} /\ IntMax \in Nat /\ IntMax < IntMod
    BY PartSizeAssumption DEF IntMax
  <1>2. \A x \in Nat : x < IntMod => x % IntMod = x
    BY <1>1
  <1>3. QED
    BY <1>1, <1>2, PartSizeAssumption DEF ToInt, IntMax

\* A part is at least a unit long.
LEMMA PartIsUnit ==
    ASSUME NEW s \in Nat, NEW b \in Int
    PROVE  calc_part_size(s, b) \in Nat \ {0} /\ calc_part_size(s, b) >= Unit
  <1>1. Unit \in Nat \ {0} /\ MaxParts \in Nat \ {0} /\ Block(b) \in Nat \ {0}
    BY PartSizeAssumption DEF Block
  <1>2. ASSUME NEW x \in Nat \ {0}
        PROVE  RoundUp(x) \in Nat \ {0} /\ RoundUp(x) >= Unit
    <2> DEFINE c == CeilDiv(x, Unit)
    <2>1. c \in Nat \ {0}
      BY <1>1, CeilPositive
    <2> HIDE DEF c
    <2>2. 1 * Unit <= c * Unit
      BY <1>1, <2>1, TimesMono
    <2>3. RoundUp(x) = c * Unit /\ c * Unit \in Nat
      BY <1>1, <2>1 DEF RoundUp, c
    <2>4. QED
      BY <1>1, <2>2, <2>3
  <1>3. CASE ToInt(CeilDiv(s, Block(b))) > MaxParts
    <2>1. s # 0
      <3>1. SUFFICES ASSUME s = 0 PROVE FALSE
        OBVIOUS
      <3>2. s <= 0 * Block(b)
        BY <1>1, <3>1
      <3>3. CeilDiv(s, Block(b)) = 0
        BY <1>1, <3>2, CeilIsLeast
      <3>4. ToInt(0) = 0
        BY IntFits
      <3>5. QED
        BY <1>1, <1>3, <3>3, <3>4
    <2>2. CeilDiv(s, MaxParts) \in Nat \ {0}
      BY <1>1, <2>1, CeilPositive
    <2>3. QED
      BY <1>2, <1>3, <2>2 DEF calc_part_size
  <1>4. CASE ~(ToInt(CeilDiv(s, Block(b))) > MaxParts)
    BY <1>1, <1>2, <1>4 DEF calc_part_size
  <1>5. QED
    BY <1>3, <1>4

\* The number of parts fits an int when that of units does.
LEMMA CountIsExact ==
    ASSUME NEW s \in Nat, CeilDiv(s, Unit) <= IntMax,
           NEW w \in Nat \ {0}, w >= Unit
    PROVE  PartCount(s, w) = CeilDiv(s, w)
  <1> DEFINE u == CeilDiv(s, Unit)
  <1>1. Unit \in Nat \ {0}
    BY PartSizeAssumption
  <1>2. u \in Nat /\ s <= u * Unit /\ u <= IntMax
    BY <1>1, CeilIsLeast
  <1> HIDE DEF u
  <1>3. Unit * u <= w * u
    BY <1>1, <1>2, TimesMono
  <1>4. Unit * u = u * Unit /\ w * u = u * w /\ u * Unit \in Nat /\ u * w \in Nat
    BY <1>1, <1>2
  <1>5. s <= u * w
    BY <1>2, <1>3, <1>4
  <1>6. CeilDiv(s, w) <= u /\ CeilDiv(s, w) \in Nat
    BY <1>2, <1>5, CeilIsLeast
  <1>7. CeilDiv(s, w) <= IntMax
    BY <1>2, <1>6, IntFits
  <1>8. QED
    BY <1>6, <1>7, IntFits DEF PartCount

\* What the size that HeadSource got says of the parts.
LEMMA PlanFacts ==
    ASSUME CopyInv, etag # 0
    PROVE  /\ size \in Nat /\ Whole \in Nat \ {0}
           /\ part_num = CeilDiv(size, Whole) /\ part_num \in Nat
           /\ etag \in 1 .. Len(versions) /\ versions[etag] = size
  <1>1. /\ size \in Nat /\ blk \in Int /\ CeilDiv(size, Unit) <= IntMax
        /\ part_num = PartCount(size, Whole) /\ versions[etag] = size
    BY CopyAssumption DEF CopyInv, TypeOK, Planned
  <1>2. Whole \in Nat \ {0} /\ Whole >= Unit
    BY <1>1, PartIsUnit DEF Whole
  <1>3. part_num = CeilDiv(size, Whole)
    BY <1>1, <1>2, CountIsExact
  <1>4. etag \in 1 .. Len(versions)
    BY DEF CopyInv, TypeOK
  <1>5. QED
    BY <1>1, <1>2, <1>3, <1>4, CeilIsLeast

\* Once the loop is over there is a context for each part of the source.
LEMMA AllCut ==
    ASSUME CopyInv, pc \in {"batch", "collect", "complete"}
    PROVE  Len(ctx) = part_num /\ part_num # 0 /\ size <= Len(ctx) * Whole
  <1> DEFINE n == Len(ctx)
             w == Whole
             c == CeilDiv(size, w)
  <1>1. size \in Nat /\ w \in Nat \ {0} /\ part_num = c /\ size >= w
    BY PlanFacts DEF CopyInv, Planned
  <1>2. c \in Nat /\ size <= c * w /\ \A m \in Nat : size <= m * w => c <= m
    BY <1>1, CeilIsLeast
  <1>3. n \in Nat /\ off \in Nat
    BY DEF CopyInv, TypeOK
  <1>4. off >= size /\ off = IF n * w <= size THEN n * w ELSE size
    BY DEF CopyInv, RangesCut
  <1>5. size <= n * w /\ n * w \in Nat
    BY <1>1, <1>3, <1>4
  <1>6. c <= n
    BY <1>2, <1>3, <1>5
  <1>7. n # 0
    BY <1>1, <1>5
  <1>8. n <= c
    <2>1. SUFFICES ASSUME c + 1 <= n PROVE FALSE
      BY <1>2, <1>3
    <2>2. /\ ctx[n].first = (n - 1) * w
          /\ ctx[n].last = IF n * w <= size THEN n * w - 1 ELSE size - 1
          /\ ctx[n].first <= ctx[n].last
      <3>1. n \in 1 .. n
        BY <1>3, <1>7
      <3>2. QED
        BY <3>1 DEF CopyInv, RangesCut
    <2> HIDE DEF c, n, w
    <2>3. c <= n - 1 /\ n - 1 \in Nat
      BY <1>2, <1>3, <2>1
    <2>4. c * w <= (n - 1) * w /\ (n - 1) * w \in Nat /\ c * w \in Nat
      BY <1>1, <1>2, <2>3, TimesMono
    <2>5. QED
      BY <1>1, <1>2, <1>5, <2>2, <2>4
  <1>9. QED
    BY <1>1, <1>2, <1>3, <1>5, <1>6, <1>7, <1>8

(***************************************************************************)
(* The inductive invariant                                                 *)
(***************************************************************************)
LEMMA InitInv == ASSUME Init PROVE CopyInv
  <1> USE DEF Init
  <1>1. /\ \E s \in Sizes : versions = <<s>>
        /\ Faults \in Nat /\ MaxVersions \in Nat \ {0} /\ Sizes \subseteq Nat
    BY CopyAssumption
  <1>2. versions \in Seq(Sizes \cup {Gone}) /\ Len(versions) = 1
    BY <1>1
  <1>3. TypeOK
    BY <1>1, <1>2 DEF TypeOK, Steps, Returns, Sessions
  <1>4. Planned /\ RangesCut /\ PartsStored /\ SuccessMeansCopied
    BY DEF Planned, RangesCut, PartsStored, SuccessMeansCopied
  <1>5. QED
    BY <1>3, <1>4 DEF CopyInv

\* Versions of the past stay.
LEMMA OverwriteInv == ASSUME CopyInv, Overwrite PROVE CopyInv'
  <1> USE DEF CopyInv, Overwrite, metaVars, sliceVars
  <1>1. PICK s \in Sizes \cup {Gone} : versions' = Append(versions, s)
    OBVIOUS
  <1>2. /\ versions \in Seq(Sizes \cup {Gone}) /\ Len(versions) \in Nat
        /\ etag \in 0 .. Len(versions) /\ dst \in 0 .. Len(versions)
        /\ MaxVersions \in Nat /\ Len(versions) < MaxVersions
        /\ DOMAIN versions = 1 .. Len(versions)
    BY CopyAssumption DEF TypeOK
  <1>3. /\ versions' \in Seq(Sizes \cup {Gone}) /\ Len(versions') = Len(versions) + 1
        /\ DOMAIN versions' = 1 .. Len(versions) + 1
        /\ \A k \in 1 .. Len(versions) : versions'[k] = versions[k]
    BY <1>1, <1>2
  <1>4. TypeOK'
    BY SMTT(30), <1>2, <1>3 DEF TypeOK
  <1>5. Planned'
    BY <1>2, <1>3 DEF Planned, Whole
  <1>6. RangesCut' /\ PartsStored' /\ SuccessMeansCopied'
    BY DEF RangesCut, PartsStored, SuccessMeansCopied, Whole
  <1>7. QED
    BY <1>4, <1>5, <1>6

\* A step to one of the ends.
LEMMA EndInv ==
    ASSUME CopyInv, UNCHANGED <<versions, etag, size, blk, part_num>>,
           TypeOK', pc' \in {"abort", "returned"},
           pc' = "abort" => etag # 0 /\ ret' # "ok",
           SuccessMeansCopied'
    PROVE  CopyInv'
  <1>1. Planned'
    BY DEF CopyInv, Planned, Whole
  <1>2. RangesCut' /\ PartsStored'
    BY DEF RangesCut, PartsStored
  <1>3. QED
    BY <1>1, <1>2 DEF CopyInv

LEMMA EndSteps ==
    ASSUME CopyInv,
           HeadFails \/ CopySmall \/ SmallFails \/ OpenFails \/ BatchGivesUp
              \/ CompleteCopy \/ Abort
    PROVE  CopyInv'
  <1> USE DEF metaVars, sliceVars, Fault
  <1>1. /\ versions \in Seq(Sizes \cup {Gone}) /\ Len(versions) \in 1 .. MaxVersions
        /\ Current \in 1 .. Len(versions) /\ MaxVersions \in Nat
        /\ etag \in 0 .. Len(versions) /\ Faults \in Nat /\ faults \in 0 .. Faults
    BY CopyAssumption DEF CopyInv, TypeOK, Current
  <1>2. pc \notin {"head", "returned"} => etag # 0
    BY DEF CopyInv, Planned
  <1>3. CASE HeadFails
    <2>1. TypeOK'
      BY <1>1, <1>3 DEF HeadFails, CopyInv, TypeOK, Steps, Returns
    <2>2. SuccessMeansCopied'
      BY <1>3 DEF HeadFails, SuccessMeansCopied
    <2>3. QED
      BY <1>3, <2>1, <2>2, EndInv DEF HeadFails
  <1>4. CASE CopySmall
    <2>1. TypeOK'
      BY <1>1, <1>4 DEF CopySmall, CopyInv, TypeOK, Steps, Returns
    <2>2. SuccessMeansCopied'
      BY <1>1, <1>4 DEF CopySmall, SuccessMeansCopied, Exists, Current
    <2>3. QED
      BY <1>4, <2>1, <2>2, EndInv DEF CopySmall
  <1>5. CASE SmallFails
    <2>1. TypeOK'
      BY <1>1, <1>5 DEF SmallFails, CopyInv, TypeOK, Steps, Returns
    <2>2. SuccessMeansCopied'
      BY <1>5 DEF SmallFails, SuccessMeansCopied
    <2>3. QED
      BY <1>5, <2>1, <2>2, EndInv DEF SmallFails
  <1>6. CASE OpenFails
    <2>1. TypeOK'
      BY <1>1, <1>6 DEF OpenFails, CopyInv, TypeOK, Steps, Returns
    <2>2. SuccessMeansCopied'
      BY <1>6 DEF OpenFails, SuccessMeansCopied
    <2>3. QED
      BY <1>6, <2>1, <2>2, EndInv DEF OpenFails
  <1>7. CASE BatchGivesUp
    <2>1. TypeOK'
      BY <1>1, <1>7 DEF BatchGivesUp, CopyInv, TypeOK, Steps, Returns
    <2>2. SuccessMeansCopied'
      BY <1>7 DEF BatchGivesUp, SuccessMeansCopied
    <2>3. QED
      BY <1>2, <1>7, <2>1, <2>2, EndInv DEF BatchGivesUp
  <1>8. CASE CompleteCopy
    <2>1. TypeOK'
      BY <1>1, <1>8 DEF CompleteCopy, CopyInv, TypeOK, Steps, Returns
    <2>2. SuccessMeansCopied'
      BY <1>8 DEF CompleteCopy, SuccessMeansCopied
    <2>3. QED
      BY <1>2, <1>8, <2>1, <2>2, EndInv DEF CompleteCopy
  <1>9. CASE Abort
    <2>1. TypeOK'
      BY <1>1, <1>9 DEF Abort, CopyInv, TypeOK, Steps, Sessions
    <2>2. SuccessMeansCopied'
      BY <1>9 DEF Abort, SuccessMeansCopied, CopyInv, Planned
    <2>3. QED
      BY <1>9, <2>1, <2>2, EndInv DEF Abort
  <1>10. QED
    BY <1>3, <1>4, <1>5, <1>6, <1>7, <1>8, <1>9

LEMMA HeadSourceInv == ASSUME CopyInv, HeadSource PROVE CopyInv'
  <1> USE DEF CopyInv, HeadSource
  <1>1. /\ versions \in Seq(Sizes \cup {Gone}) /\ Len(versions) \in 1 .. MaxVersions
        /\ Current \in 1 .. Len(versions) /\ MaxVersions \in Nat
        /\ Sizes \subseteq Nat /\ blk \in Int
        /\ size' = versions[Current] /\ etag' = Current /\ versions' = versions
        /\ blk' = blk
    BY CopyAssumption DEF TypeOK, Current
  <1>2. size' \in Sizes /\ size' \in Nat /\ CeilDiv(size', Unit) <= IntMax
    <2>1. versions[Current] \in Sizes \cup {Gone}
      BY <1>1, ElementOfSeq
    <2>2. QED
      BY <1>1, <2>1, CopyAssumption DEF Exists
  <1>3. part_size' = Whole' /\ part_num' = PartCount(size', Whole')
    BY <1>1 DEF Whole
  <1>4. Whole' \in Nat \ {0} /\ Whole' >= Unit
    BY <1>1, <1>2, PartIsUnit DEF Whole
  <1>5. part_num' = CeilDiv(size', Whole') /\ part_num' \in Nat
    BY <1>2, <1>3, <1>4, CountIsExact, CeilIsLeast
  <1>6. pc' \in {"small", "open"} /\ (pc' = "open" => size' >= Whole')
        /\ off = 0 /\ ctx = <<>> /\ stored = <<>>
    BY <1>2, <1>3, <1>4 DEF Planned
  <1>7. TypeOK'
    BY <1>1, <1>2, <1>3, <1>4, <1>5, <1>6 DEF TypeOK, Steps
  <1>8. Planned'
    BY <1>1, <1>2, <1>3, <1>6 DEF Planned
  <1>9. RangesCut' /\ PartsStored' /\ SuccessMeansCopied'
    BY <1>6 DEF RangesCut, PartsStored, SuccessMeansCopied
  <1>10. QED
    BY <1>7, <1>8, <1>9

\* As many answers to come as parts.
LEMMA NoneYet ==
    ASSUME NEW n \in Nat
    PROVE  LET a == [k \in 1 .. n |-> "none"]
           IN  /\ a \in Seq({"none", "ok", "fail"})
               /\ Len(a) = n
               /\ \A k \in 1 .. n : a[k] = "none"
  OBVIOUS

LEMMA OpenInv == ASSUME CopyInv, Open PROVE CopyInv'
  <1> USE DEF CopyInv, Open, metaVars, sliceVars
  <1>1. /\ part_num \in Nat /\ size \in Nat /\ Whole \in Nat \ {0}
        /\ ctx = <<>> /\ off = 0 /\ stored = <<>> /\ part_size = Whole
        /\ Len(ctx) = 0 /\ DOMAIN stored = {} /\ Whole' = Whole
    BY PlanFacts DEF Planned, Whole
  <1>2. /\ answer' \in Seq({"none", "ok", "fail"}) /\ Len(answer') = part_num
        /\ \A k \in 1 .. part_num : answer'[k] = "none"
    BY <1>1, NoneYet
  <1>3. TypeOK'
    BY <1>2 DEF TypeOK, Steps, Sessions
  <1>4. Planned'
    BY DEF Planned, Whole
  <1>5. RangesCut'
    <2>1. 0 * Whole = 0 /\ 0 <= size
      BY <1>1
    <2>2. QED
      BY <1>1, <2>1 DEF RangesCut
  <1>6. PartsStored' /\ SuccessMeansCopied'
    BY <1>1, <1>2 DEF PartsStored, SuccessMeansCopied
  <1>7. QED
    BY <1>3, <1>4, <1>5, <1>6

\* The range of the next turn, kw standing for the product.
LEMMA NextRange ==
    ASSUME NEW s \in Nat, NEW w \in Nat \ {0}, NEW o \in Nat, o < s,
           NEW kw \in Nat, kw = o + w,
           NEW p \in Nat \ {0}, p = IF kw <= s THEN w ELSE s - o
    PROVE  /\ o + p - 1 = IF kw <= s THEN kw - 1 ELSE s - 1
           /\ o <= o + p - 1
  OBVIOUS

LEMMA SliceInv == ASSUME CopyInv, Slice PROVE CopyInv'
  <1> USE DEF Slice, metaVars, sliceVars
  <1> DEFINE n == Len(ctx)
             w == Whole
             c == [first |-> off, last |-> off + part_size' - 1]
  <1>1. /\ size \in Nat /\ w \in Nat \ {0} /\ off \in Nat /\ n \in Nat
        /\ part_size = w /\ w' = w /\ off < size
    BY PlanFacts DEF CopyInv, TypeOK, Planned, RangesCut, Whole
  <1>2. n * w \in Nat /\ (n + 1) * w = n * w + w /\ (n + 1) - 1 = n
    BY <1>1
  <1>3. off = n * w
    BY <1>1, <1>2 DEF CopyInv, RangesCut
  <1>4. /\ part_size' = IF n * w + w <= size THEN w ELSE size - off
        /\ part_size' \in Nat \ {0}
        /\ off' = IF n * w + w <= size THEN n * w + w ELSE size
        /\ off' \in 0 .. size
    <2> HIDE DEF n, w
    <2>1. QED
      BY <1>1, <1>2, <1>3
  <1>5. /\ c \in [first : Nat, last : Nat] /\ c.first = off
        /\ c.last = off + part_size' - 1
    BY <1>1, <1>4
  <1>6. /\ ctx' \in Seq([first : Nat, last : Nat])
        /\ Len(ctx') = n + 1
        /\ \A k \in 1 .. n : ctx'[k] = ctx[k]
        /\ ctx'[n + 1] = c
    BY <1>5 DEF CopyInv, TypeOK
  <1>7. TypeOK'
    BY <1>1, <1>4, <1>6 DEF CopyInv, TypeOK
  <1>8. Planned'
    BY DEF CopyInv, Planned, Whole
  <1>9. RangesCut'
    <2>1. ASSUME NEW k \in 1 .. n + 1
          PROVE  /\ ctx'[k].first = (k - 1) * w
                 /\ ctx'[k].last = IF k * w <= size THEN k * w - 1 ELSE size - 1
                 /\ ctx'[k].first <= ctx'[k].last
      <3>1. CASE k \in 1 .. n
        <4>1. ctx'[k] = ctx[k] /\ k \in 1 .. Len(ctx)
          BY <1>6, <3>1
        <4>2. /\ ctx[k].first = (k - 1) * w
              /\ ctx[k].last = IF k * w <= size THEN k * w - 1 ELSE size - 1
              /\ ctx[k].first <= ctx[k].last
          BY <4>1 DEF CopyInv, RangesCut
        <4>3. QED
          BY ONLY <4>1, <4>2
      <3>2. CASE k = n + 1
        <4>1. k * w = n * w + w /\ (k - 1) * w = n * w
          BY <1>1, <1>2, <3>2
        <4>2. ctx'[k].first = off /\ ctx'[k].last = off + part_size' - 1
          BY <1>5, <1>6, <3>2
        <4> HIDE DEF n, w
        <4>3. k * w \in Nat /\ (k - 1) * w \in Nat
          BY <1>2, <1>1, <4>1
        <4>4. k * w = off + w /\ part_size' = IF k * w <= size THEN w ELSE size - off
          BY <1>3, <1>4, <4>1
        <4>5. /\ off + part_size' - 1 = IF k * w <= size THEN k * w - 1 ELSE size - 1
              /\ off <= off + part_size' - 1
          BY ONLY <1>1, <1>4, <4>3, <4>4, NextRange
        <4>6. (k - 1) * w = off
          BY <1>3, <4>1
        <4>7. ctx'[k].first <= ctx'[k].last
          BY ONLY <4>2, <4>5
        <4>8. QED
          BY ONLY <4>2, <4>5, <4>6, <4>7
      <3>3. k \in 1 .. n \/ k = n + 1
        <4> HIDE DEF n, w
        <4>1. QED
          BY ONLY <1>1, <2>1
      <3>4. QED
        BY ONLY <3>1, <3>2, <3>3
    <2>2. off' = IF Len(ctx') * w <= size THEN Len(ctx') * w ELSE size
      BY <1>2, <1>4, <1>6
    <2>3. off' < size => part_size' = w
      <3> HIDE DEF n, w
      <3>1. QED
        BY <1>1, <1>2, <1>3, <1>4
    <2>4. QED
      BY <1>1, <1>6, <2>1, <2>2, <2>3 DEF RangesCut
  <1>10. PartsStored'
    BY DEF CopyInv, PartsStored
  <1>11. SuccessMeansCopied'
    BY DEF SuccessMeansCopied
  <1>12. QED
    BY <1>7, <1>8, <1>9, <1>10, <1>11 DEF CopyInv

LEMMA SlicedInv == ASSUME CopyInv, Sliced PROVE CopyInv'
  <1> USE DEF CopyInv, Sliced, metaVars, sliceVars
  <1>1. TypeOK'
    BY DEF TypeOK, Steps
  <1>2. Planned' /\ RangesCut' /\ PartsStored' /\ SuccessMeansCopied'
    BY DEF Planned, RangesCut, PartsStored, SuccessMeansCopied, Whole
  <1>3. QED
    BY <1>1, <1>2

\* The batch's parts are those cut, and there is an answer for each.
LEMMA InBatch ==
    ASSUME CopyInv, pc \in {"batch", "collect", "complete"}, NEW k \in DOMAIN answer
    PROVE  k \in 1 .. Len(ctx) /\ k \in 1 .. Len(answer) /\ k \in 1 .. part_num
  <1>1. Len(ctx) = part_num /\ Len(answer) = part_num
    BY AllCut DEF CopyInv, PartsStored
  <1>2. answer \in Seq({"none", "ok", "fail"})
    BY DEF CopyInv, TypeOK
  <1>3. DOMAIN answer = 1 .. Len(answer)
    BY <1>2
  <1>4. QED
    BY <1>1, <1>3

\* A part that is stored is stored of the version asked about.
LEMMA StoreFacts ==
    ASSUME CopyInv, pc = "batch", NEW k \in DOMAIN answer, Matches,
           Store(k) \/ UNCHANGED stored
    PROVE  /\ DOMAIN stored \subseteq DOMAIN stored'
           /\ Store(k) => k \in DOMAIN stored'
           /\ \A n \in DOMAIN stored' : /\ n \in 1 .. Len(ctx)
                                        /\ stored'[n] = [ver |-> etag, range |-> ctx[n]]
                                        /\ stored'[n].ver \in DOMAIN versions
  <1>1. /\ \A n \in DOMAIN stored : /\ n \in 1 .. Len(ctx)
                                    /\ stored[n] = [ver |-> etag, range |-> ctx[n]]
                                    /\ stored[n].ver \in DOMAIN versions
        /\ etag = Current
    BY DEF CopyInv, PartsStored, TypeOK, Matches
  <1>2. k \in 1 .. Len(ctx)
    BY InBatch
  <1>3. etag \in DOMAIN versions
    <2>1. etag # 0 /\ versions \in Seq(Sizes \cup {Gone}) /\ etag \in 0 .. Len(versions)
      BY DEF CopyInv, Planned, TypeOK
    <2>2. QED
      BY <2>1
  <1>4. CASE Store(k)
    <2>1. /\ DOMAIN stored' = DOMAIN stored \cup {k}
          /\ \A n \in DOMAIN stored' :
                stored'[n] = IF n = k THEN [ver |-> Current, range |-> ctx[k]]
                             ELSE stored[n]
      BY <1>4 DEF Store
    <2>2. QED
      BY <1>1, <1>2, <1>3, <2>1
  <1>5. CASE UNCHANGED stored /\ ~Store(k)
    BY <1>1, <1>5
  <1>6. QED
    BY <1>4, <1>5

\* One answer more, and the parts that are stored.
LEMMA AnswerInv ==
    ASSUME CopyInv, pc = "batch", NEW k \in DOMAIN answer, NEW a \in {"ok", "fail"},
           answer' = [answer EXCEPT ![k] = a],
           UNCHANGED <<pc, ret, versions, etag, size, blk, part_size, part_num, off,
                       ctx, session, dst>>,
           faults' \in 0 .. Faults,
           DOMAIN stored \subseteq DOMAIN stored',
           a = "ok" => k \in DOMAIN stored',
           \A n \in DOMAIN stored' : /\ n \in 1 .. Len(ctx)
                                     /\ stored'[n] = [ver |-> etag, range |-> ctx[n]]
                                     /\ stored'[n].ver \in DOMAIN versions
    PROVE  CopyInv'
  <1>1. k \in 1 .. Len(answer) /\ answer \in Seq({"none", "ok", "fail"})
    BY InBatch DEF CopyInv, TypeOK
  <1>2. /\ answer' \in Seq({"none", "ok", "fail"}) /\ Len(answer') = Len(answer)
        /\ answer'[k] = a
        /\ \A j \in 1 .. Len(answer) : j # k => answer'[j] = answer[j]
    BY <1>1, ExceptSeq
  <1>3. TypeOK'
    BY <1>2 DEF CopyInv, TypeOK
  <1>4. Planned' /\ RangesCut' /\ SuccessMeansCopied'
    BY DEF CopyInv, Planned, RangesCut, SuccessMeansCopied, Whole
  <1>5. PartsStored'
    BY <1>2 DEF CopyInv, PartsStored
  <1>6. QED
    BY <1>3, <1>4, <1>5 DEF CopyInv

LEMMA PartCopiedInv ==
    ASSUME CopyInv, NEW k \in DOMAIN answer, PartCopied(k)
    PROVE  CopyInv'
  <1> USE DEF PartCopied, metaVars, sliceVars
  <1>1. faults' \in 0 .. Faults
    BY DEF CopyInv, TypeOK
  <1>2. QED
    BY <1>1, StoreFacts, AnswerInv

LEMMA PartFailsInv ==
    ASSUME CopyInv, NEW k \in DOMAIN answer, PartFails(k)
    PROVE  CopyInv'
  <1> USE DEF PartFails, metaVars, sliceVars
  <1>1. faults' \in 0 .. Faults
    BY SMTT(30), CopyAssumption DEF CopyInv, TypeOK, Fault
  <1>2. CASE Matches
    BY <1>1, <1>2, StoreFacts, AnswerInv
  <1>3. CASE ~Matches
    <2>1. /\ stored' = stored /\ pc = "batch"
          /\ answer' = [answer EXCEPT ![k] = "fail"]
          /\ UNCHANGED <<pc, ret, versions, etag, size, blk, part_size, part_num, off,
                         ctx, session, dst>>
      BY <1>3
    <2>2. \A n \in DOMAIN stored : /\ n \in 1 .. Len(ctx)
                                   /\ stored[n] = [ver |-> etag, range |-> ctx[n]]
                                   /\ stored[n].ver \in DOMAIN versions
      BY <2>1 DEF CopyInv, PartsStored, TypeOK
    <2>3. QED
      BY <1>1, <2>1, <2>2, AnswerInv
  <1>4. QED
    BY <1>2, <1>3

LEMMA BatchReturnsInv == ASSUME CopyInv, BatchReturns PROVE CopyInv'
  <1> USE DEF CopyInv, BatchReturns, metaVars, sliceVars
  <1>1. TypeOK'
    BY DEF TypeOK, Steps
  <1>2. \A k \in 1 .. Len(answer) : answer[k] # "none"
    BY DEF TypeOK
  <1>3. Planned' /\ RangesCut' /\ PartsStored' /\ SuccessMeansCopied'
    BY <1>2 DEF Planned, RangesCut, PartsStored, SuccessMeansCopied, Whole
  <1>4. QED
    BY <1>1, <1>3

LEMMA CollectInv == ASSUME CopyInv, Collect PROVE CopyInv'
  <1> USE DEF CopyInv, Collect, metaVars, sliceVars
  <1>1. /\ answer \in Seq({"none", "ok", "fail"})
        /\ \A k \in 1 .. Len(answer) : answer[k] # "none"
    BY DEF TypeOK, PartsStored
  <1>2. /\ DOMAIN answer = 1 .. Len(answer)
        /\ \A k \in 1 .. Len(answer) : answer[k] \in {"none", "ok", "fail"}
    BY <1>1
  <1>3. TypeOK'
    BY DEF TypeOK, Steps, Returns
  <1>4. Planned' /\ RangesCut' /\ SuccessMeansCopied'
    BY DEF Planned, RangesCut, SuccessMeansCopied, Whole
  <1>5. PartsStored'
    BY <1>1, <1>2 DEF PartsStored
  <1>6. QED
    BY <1>3, <1>4, <1>5

LEMMA StutterInv == ASSUME CopyInv, UNCHANGED vars PROVE CopyInv'
  BY SMTT(30) DEF CopyInv, TypeOK, Planned, RangesCut, PartsStored,
     SuccessMeansCopied, Whole, vars, metaVars, sliceVars

LEMMA NextInv == ASSUME CopyInv, [Next]_vars PROVE CopyInv'
  BY OverwriteInv, EndSteps, HeadSourceInv, OpenInv, SliceInv, SlicedInv,
     PartCopiedInv, PartFailsInv, BatchReturnsInv, CollectInv, StutterInv
     DEF Next, Terminated

(***************************************************************************)
(* Every reachable state satisfies the inductive invariant, whoever writes *)
(* the source meanwhile.                                                   *)
(***************************************************************************)
THEOREM CopyInvariant == Spec => []CopyInv
  <1>1. Init => CopyInv
    BY InitInv
  <1>2. CopyInv /\ [Next]_vars => CopyInv'
    BY NextInv
  <1>3. QED
    BY <1>1, <1>2, PTL DEF Spec

(***************************************************************************)
(* Type correctness for every set of sizes and block sizes.                *)
(***************************************************************************)
THEOREM CopyTypes == Spec => []TypeOK
  <1>1. CopyInv => TypeOK
    BY DEF CopyInv
  <1>2. QED
    BY <1>1, CopyInvariant, PTL

(***************************************************************************)
(* A copy that is completed is made of one version, every byte of it, for  *)
(* sources of any size that are written any number of times.               *)
(***************************************************************************)
THEOREM OneVersion == Spec => []CompletesOneVersion
  <1>1. ASSUME CopyInv, pc = "complete"
        PROVE  /\ DOMAIN stored = 1 .. part_num
               /\ \A k \in 1 .. part_num :
                     /\ stored[k].ver = etag
                     /\ stored[k].range.first =
                           IF k = 1 THEN 0 ELSE stored[k - 1].range.last + 1
                     /\ stored[k].range.first <= stored[k].range.last
               /\ stored[part_num].range.last + 1 = versions[etag]
    <2> DEFINE n == part_num
               w == Whole
    <2>1. /\ Len(ctx) = n /\ n \in Nat \ {0} /\ size <= n * w
          /\ size \in Nat /\ w \in Nat \ {0} /\ versions[etag] = size
      BY <1>1, AllCut, PlanFacts DEF CopyInv, Planned
    <2>2. /\ Len(answer) = n
          /\ \A k \in DOMAIN stored :
                k \in 1 .. n /\ stored[k] = [ver |-> etag, range |-> ctx[k]]
          /\ \A k \in 1 .. n : k \in DOMAIN stored
      BY <1>1, <2>1 DEF CopyInv, PartsStored
    <2>3. \A k \in 1 .. n :
             /\ ctx[k].first = (k - 1) * w
             /\ ctx[k].last = IF k * w <= size THEN k * w - 1 ELSE size - 1
             /\ ctx[k].first <= ctx[k].last
      BY <1>1, <2>1 DEF CopyInv, RangesCut
    <2>4. \A k \in 1 .. n : stored[k].ver = etag /\ stored[k].range = ctx[k]
      BY <2>2
    <2> HIDE DEF n, w
    <2>5. ASSUME NEW k \in 1 .. n
          PROVE  ctx[k].first = IF k = 1 THEN 0 ELSE ctx[k - 1].last + 1
      <3>1. CASE k = 1
        <4>1. (k - 1) * w = 0
          BY <2>1, <3>1
        <4>2. QED
          BY <2>3, <3>1, <4>1
      <3>2. CASE k # 1
        <4>1. k - 1 \in 1 .. n /\ k - 1 \in Nat /\ (k - 1) * w \in Nat
              /\ k * w \in Int
          BY <2>1, <3>2
        <4>2. ctx[k].first = (k - 1) * w /\ ctx[k].first <= ctx[k].last
              /\ ctx[k].last = IF k * w <= size THEN k * w - 1 ELSE size - 1
          BY <2>3
        <4>3. k * w = (k - 1) * w + w
          BY <2>1, <4>1
        <4>4. (k - 1) * w <= size
          BY <2>1, <4>1, <4>2, <4>3
        <4>5. ctx[k - 1].last = (k - 1) * w - 1
          BY <2>3, <4>1, <4>4
        <4>6. QED
          BY <3>2, <4>1, <4>2, <4>5
      <3>3. QED
        BY <3>1, <3>2
    <2>6. ctx[n].last + 1 = size
      <3>1. n \in 1 .. n /\ n * w \in Nat
        BY <2>1
      <3>2. QED
        BY <2>1, <2>3, <3>1
    <2>7. DOMAIN stored = 1 .. n
      BY <2>2
    <2>8. \A k \in 1 .. n : stored[k].range.first =
                               IF k = 1 THEN 0 ELSE stored[k - 1].range.last + 1
      <3>1. \A k \in 1 .. n : k # 1 => k - 1 \in 1 .. n
        BY <2>1
      <3>2. QED
        BY <2>4, <2>5, <3>1
    <2>9. n \in 1 .. n
      BY <2>1
    <2>10. QED
      BY <2>1, <2>3, <2>4, <2>6, <2>7, <2>8, <2>9 DEF n
  <1>2. CopyInv => CompletesOneVersion
    BY <1>1 DEF CompletesOneVersion
  <1>3. QED
    BY <1>2, CopyInvariant, PTL

(***************************************************************************)
(* A call that returns 0 has made a copy of a version that exists.         *)
(***************************************************************************)
THEOREM SuccessIsACopy == Spec => []SuccessMeansCopied
  <1>1. CopyInv => SuccessMeansCopied
    BY DEF CopyInv
  <1>2. QED
    BY <1>1, CopyInvariant, PTL

===============================================================================
