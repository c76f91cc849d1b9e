------------------------ MODULE ElevationCodecProofs ------------------------
(***************************************************************************)
(* Proofs about ElevationCodec, for images of every size and every set of  *)
(* heights.                                                                *)
(***************************************************************************)
EXTENDS ElevationCodec, SequenceElements, TLAPS

-----------------------------------------------------------------------------
(* Sequences                                                               *)

\* A function over 1 .. n is a sequence of length n.
LEMMA FunctionIsSeq ==
  ASSUME NEW S, NEW n \in Nat, NEW f \in [1 .. n -> S]
  PROVE  f \in Seq(S) /\ Len(f) = n
PROOF
  <1>1. f \in Seq(S)
    OBVIOUS
  <1>2. Len(f) \in Nat /\ DOMAIN f = 1 .. Len(f)
    BY <1>1, LenProperties
  <1>3. 1 .. n = 1 .. Len(f)
    BY <1>2
  <1> QED BY <1>1, <1>2, <1>3

\* One value n times; none if n is negative.
LEMMA Repetition ==
  ASSUME NEW n \in Int, NEW v \in Int
  PROVE  /\ [k \in 1 .. n |-> v] \in Seq(Int)
         /\ Len([k \in 1 .. n |-> v]) = IF n > 0 THEN n ELSE 0
PROOF
  <1> DEFINE m == IF n > 0 THEN n ELSE 0
             f == [k \in 1 .. n |-> v]
  <1>1. m \in Nat /\ 1 .. n = 1 .. m
    OBVIOUS
  <1>2. f \in [1 .. m -> Int]
    BY <1>1
  <1> HIDE DEF f
  <1>3. f \in Seq(Int) /\ Len(f) = m
    BY <1>1, <1>2, FunctionIsSeq
  <1> QED BY <1>3 DEF f

\* Two sequences of numbers, one after the other.
LEMMA Concatenation ==
  ASSUME NEW q \in Seq(Int), NEW t \in Seq(Int)
  PROVE  q \o t \in Seq(Int) /\ Len(q \o t) = Len(q) + Len(t)
PROOF BY ConcatProperties, Zenon

\* What is left when the first numbers are dropped.
LEMMA Dropping ==
  ASSUME NEW q \in Seq(Int), NEW n \in Nat, n <= Len(q)
  PROVE  Drop(q, n) \in Seq(Int)
PROOF
  <1>1. \A i \in n + 1 .. Len(q) : q[i] \in Int
    BY ElementOfSeq, LenProperties
  <1> QED BY <1>1, SubSeqProperties, LenProperties DEF Drop

\* One value of a bulk less to read.
LEMMA CountDown ==
  ASSUME NEW b \in [left: Int, reference: Int]
  PROVE  /\ [b EXCEPT !.left = @ - 1] \in [left: Int, reference: Int]
         /\ [b EXCEPT !.left = @ - 1].left = b.left - 1
PROOF
  <1>1. b = [left |-> b.left, reference |-> b.reference] /\ b.left \in Int /\ b.reference \in Int
    OBVIOUS
  <1>2. [b EXCEPT !.left = @ - 1] = [left |-> b.left - 1, reference |-> b.reference]
    BY <1>1
  <1> QED BY <1>1, <1>2

-----------------------------------------------------------------------------
(* The decoder on codes that need not come from the coder                  *)

DecoderInv ==
  /\ \/ y = Height - 1 /\ stage \in {"Read", "Corrupt", "Overrun", "Decoded"}
     \/ y = Height /\ stage = "Idle"
  /\ rest \in Seq(Int) /\ image \in Seq(Int)
  /\ bulk \in [left: Int, reference: Int]
  /\ Len(image) <= Width
  /\ RowBound

LEMMA DecoderStep ==
  ASSUME DecoderInv, [Next]_vars
  PROVE  DecoderInv'
PROOF
  <1> USE CodecAssumption DEF DecoderInv, RowBound
  <1>0. Len(rest) \in Nat /\ Len(image) \in Nat
    BY LenProperties
  <1>1. CASE ReadRun
    <2> DEFINE run == [k \in 1 .. rest[2] |-> rest[3]]
    <2>1. /\ image' = image \o run /\ rest' = Drop(rest, 3)
          /\ bulk.left = 0 /\ Len(rest) >= 3 /\ ~(Len(image) + rest[2] > Width)
          /\ y' = y /\ stage' = stage /\ bulk' = bulk
      BY <1>1 DEF ReadRun, Reading, TooLong
    <2>2. rest[2] \in Int /\ rest[3] \in Int
      BY <1>0, <2>1, ElementOfSeq
    <2>3. run \in Seq(Int) /\ Len(run) = IF rest[2] > 0 THEN rest[2] ELSE 0
      BY <2>2, Repetition
    <2> HIDE DEF run
    <2>4. image' \in Seq(Int) /\ Len(image') = Len(image) + Len(run)
      <3>1. image \o run \in Seq(Int) /\ Len(image \o run) = Len(image) + Len(run)
        BY <2>3, Concatenation
      <3> QED BY <2>1, <3>1, Zenon
    <2>5. rest' \in Seq(Int)
      BY <1>0, <2>1, Dropping
    <2>6. Len(image') <= Width
      <3> DEFINE l == Len(image)
                 m == rest[2]
                 n == Len(run)
      <3>1. /\ l \in Nat /\ m \in Int /\ n = IF m > 0 THEN m ELSE 0
            /\ l <= Width /\ ~(l + m > Width) /\ Len(image') = l + n
        BY <1>0, <2>1, <2>2, <2>3, <2>4
      <3> HIDE DEF l, m, n, DecoderInv
      <3> QED BY <3>1
    <2>7. Len(image') + bulk'.left <= Width
      BY <2>1, <2>4, <2>6, LenProperties
    <2> QED BY <2>1, <2>4, <2>5, <2>6, <2>7
  <1>2. CASE ReadBulk
    <2>1. /\ bulk' = [left |-> rest[2], reference |-> 0] /\ rest' = Drop(rest, 2)
          /\ Len(rest) >= 2 /\ ~(Len(image) + rest[2] > Width)
          /\ y' = y /\ stage' = stage /\ image' = image
      BY <1>2 DEF ReadBulk, Reading, TooLong
    <2>2. rest[2] \in Int
      BY <1>0, <2>1, ElementOfSeq
    <2>3. bulk' \in [left: Int, reference: Int] /\ bulk'.left = rest[2]
      BY <2>1, <2>2
    <2>4. rest' \in Seq(Int)
      BY <1>0, <2>1, Dropping
    <2>5. Len(image') + bulk'.left <= Width
      BY <1>0, <2>1, <2>2, <2>3
    <2> QED BY <2>1, <2>3, <2>4, <2>5
  <1>3. CASE ReadUnknown
    <2>1. rest' \in Seq(Int)
      BY <1>0, <1>3, Dropping DEF ReadUnknown, Reading
    <2> QED BY <1>3, <2>1 DEF ReadUnknown, Reading
  <1>4. CASE ReadValue
    <2>3. ASSUME image' \in Seq(Int), Len(image') = Len(image) + 1, rest' \in Seq(Int),
                 bulk' \in [left: Int, reference: Int], bulk'.left = bulk.left - 1
          PROVE  DecoderInv'
      <3>1. bulk.left \in Int /\ bulk.left > 0 /\ y' = y /\ stage' = stage
        BY <1>4 DEF ReadValue
      <3>2. Len(image') <= Width /\ Len(image') + bulk'.left <= Width
        BY <1>0, <2>3, <3>1
      <3> QED BY <2>3, <3>1, <3>2
    <2>1. CASE HasReference /\ Len(rest) >= 3
      <3>1. rest[2] \in Int /\ rest[3] \in Int
        BY <1>0, <2>1, ElementOfSeq
      <3>2. /\ bulk' = [left |-> bulk.left - 1, reference |-> rest[2]]
            /\ image' = Append(image, rest[2] + rest[3])
            /\ rest' = Drop(rest, 3)
        BY <1>4, <2>1 DEF ReadValue
      <3>3. image' \in Seq(Int) /\ Len(image') = Len(image) + 1
        BY <3>1, <3>2, AppendProperties
      <3>4. rest' \in Seq(Int)
        BY <1>0, <2>1, <3>2, Dropping
      <3>5. bulk' \in [left: Int, reference: Int] /\ bulk'.left = bulk.left - 1
        BY <3>1, <3>2
      <3> QED BY <2>3, <3>3, <3>4, <3>5
    <2>2. CASE ~HasReference
      <3>1. Len(rest) >= 1
        BY <1>4, <2>2 DEF ReadValue
      <3>2. rest[1] \in Int
        BY <1>0, <3>1, ElementOfSeq
      <3>3. /\ bulk' = [bulk EXCEPT !.left = @ - 1]
            /\ image' = Append(image, bulk.reference + rest[1])
            /\ rest' = Drop(rest, 1)
        BY <1>4, <2>2 DEF ReadValue
      <3>4. bulk'.left = bulk.left - 1 /\ bulk' \in [left: Int, reference: Int]
        BY <3>3, CountDown
      <3>5. image' \in Seq(Int) /\ Len(image') = Len(image) + 1
        BY <3>2, <3>3, AppendProperties
      <3>6. rest' \in Seq(Int)
        BY <1>0, <3>1, <3>3, Dropping
      <3> QED BY <2>3, <3>4, <3>5, <3>6
    <2> QED BY <1>4, <2>1, <2>2 DEF ReadValue
  <1>5. CASE Corrupt \/ Overrun \/ EndRow
    BY <1>5 DEF Corrupt, Overrun, EndRow, decoder, Reading
  <1>6. CASE NextRow
    <2>1. <<>> \in Seq(Int) /\ Len(<<>>) = 0
      BY EmptySeq
    <2> QED BY <1>6, <2>1 DEF NextRow, NoBulk
  <1>7. CASE UNCHANGED vars
    BY <1>7 DEF vars
  <1>8. ~(\/ BeginRow \/ ScanSegment \/ EndScan \/ KeepSegment \/ MergeSegment \/ EndMerge
          \/ WriteRun \/ WriteBulk \/ WriteSubSegment \/ EndBulk \/ EndWrite)
    BY DEF BeginRow, ScanSegment, EndScan, KeepSegment, MergeSegment, EndMerge, Writing,
       WriteRun, WriteBulk, WriteSubSegment, EndBulk, EndWrite
  <1> QED BY <1>1, <1>2, <1>3, <1>4, <1>5, <1>6, <1>7, <1>8 DEF Next

\* Whatever codes the decoder is given, it writes no pixel behind the row.
THEOREM NeverBehindTheRow ==
  ASSUME NEW codes \in SUBSET Seq(Int)
  PROVE  DamagedInit(codes) /\ [][Next]_vars => []RowBound
PROOF
  <1>1. DamagedInit(codes) => DecoderInv
    <2>1. <<>> \in Seq(Int) /\ Len(<<>>) = 0
      BY EmptySeq
    <2> QED BY CodecAssumption, <2>1 DEF DamagedInit, DecoderInv, RowBound, NoBulk
  <1>2. DecoderInv => RowBound
    BY DEF DecoderInv
  <1> QED BY <1>1, <1>2, DecoderStep, PTL
-----------------------------------------------------------------------------
(* The segments of a row                                                   *)

\* The images the proofs about the coder are about: a row is longer than the
\* runs that are merged, and no longer than a segment can be.
Wide == SmallRun < Width /\ Width <= MaxNumElementsPerRowSegment

End(g) == g.from + g.numElements - 1

\* the first two values, or the last two, are equal
Front(g, r) == g.numElements >= 2 /\ r[g.from] = r[g.from + 1]
Back(g, r) == g.numElements >= 2 /\ r[End(g)] = r[End(g) - 1]

\* a segment that describes the row r
Sound(g, r) ==
  /\ g.numElements >= 1
  /\ g.flag = ElevationFlag_RLE => \A i \in g.from .. End(g) : r[i] = g.startValue
  /\ g.flag = ElevationFlag_RelativeBulk => g.numElements >= 2
  /\ g.flag = ElevationFlag_RelativeBulk /\ (Front(g, r) \/ Back(g, r)) => g.numElements >= 3

\* the segments q cover the columns 1 .. n of the row r, one after the other, and
\* where two of them meet there are two equal values on one side
Tiling(q, r, n) ==
  /\ q \in Seq(RowSegment)
  /\ \A k \in 1 .. Len(q) : Sound(q[k], r) /\ q[k].from >= k /\ End(q[k]) <= n
  /\ \A k \in 2 .. Len(q) : q[k].from = End(q[k - 1]) + 1
  /\ Len(q) > 0 => q[1].from = 1 /\ End(q[Len(q)]) = n
  /\ Len(q) = 0 => n = 0
  /\ \A k \in 2 .. Len(q) : Back(q[k - 1], r) \/ Front(q[k], r)

\* no run that is worth merging is left behind a bulk after the i-th segment
MergedAfter(q, i) ==
  \A k \in 2 .. Len(q) :
    k > i /\ q[k - 1].flag = ElevationFlag_RelativeBulk => Stays(q[k])

\* A segment has the members it has.
LEMMA SegmentType ==
  ASSUME NEW g \in RowSegment
  PROVE  /\ g.flag \in {ElevationFlag_RLE, ElevationFlag_RelativeBulk}
         /\ g.numElements \in 0 .. MaxNumElementsPerRowSegment
         /\ g.startValue \in Values /\ g.from \in 1 .. Width
PROOF BY DEF RowSegment, Columns

\* The next segment.
LEMMA TilingGrows ==
  ASSUME NEW q, NEW r, NEW n \in Nat, Tiling(q, r, n),
         NEW g \in RowSegment, Sound(g, r), g.from = n + 1,
         Len(q) > 0 => Back(q[Len(q)], r) \/ Front(g, r)
  PROVE  Tiling(Append(q, g), r, End(g))
PROOF
  <1> DEFINE a == Append(q, g)
  <1>1. q \in Seq(RowSegment) /\ Len(q) \in Nat
    BY LenProperties DEF Tiling
  <1>2. /\ a \in Seq(RowSegment) /\ Len(a) = Len(q) + 1
        /\ \A k \in 1 .. Len(q) : a[k] = q[k]
        /\ a[Len(q) + 1] = g
    BY <1>1, AppendProperties
  <1>3. g.from \in Int /\ g.numElements \in Int /\ g.numElements >= 1
    BY CodecAssumption, SegmentType DEF Sound
  <1>4. \A k \in 1 .. Len(q) : q[k].from \in Int /\ q[k].numElements \in Int
    BY <1>1, CodecAssumption, ElementOfSeq, SegmentType
  <1>5. n >= Len(q)
    BY <1>1, <1>4 DEF Tiling, Sound, End
  <1> HIDE DEF a
  <1>6. \A k \in 1 .. Len(a) : Sound(a[k], r) /\ a[k].from >= k /\ End(a[k]) <= End(g)
    <2> SUFFICES ASSUME NEW k \in 1 .. Len(a)
                 PROVE  Sound(a[k], r) /\ a[k].from >= k /\ End(a[k]) <= End(g)
      OBVIOUS
    <2>1. CASE k = Len(q) + 1
      BY <1>1, <1>2, <1>3, <1>5, <2>1 DEF End
    <2>2. CASE k \in 1 .. Len(q)
      <3>1. Sound(q[k], r) /\ q[k].from >= k /\ End(q[k]) <= n
        BY <2>2 DEF Tiling
      <3>2. End(q[k]) \in Int /\ n <= End(g)
        BY <1>3, <1>4, <2>2 DEF End
      <3> QED BY <1>2, <1>3, <2>2, <3>1, <3>2 DEF End
    <2> QED BY <1>1, <1>2, <2>1, <2>2
  <1>7. \A k \in 2 .. Len(a) : a[k].from = End(a[k - 1]) + 1
    <2> SUFFICES ASSUME NEW k \in 2 .. Len(a)
                 PROVE  a[k].from = End(a[k - 1]) + 1
      OBVIOUS
    <2>1. CASE k = Len(q) + 1
      BY <1>1, <1>2, <2>1 DEF Tiling
    <2>2. CASE k \in 2 .. Len(q)
      BY <1>1, <1>2, <2>2 DEF Tiling
    <2> QED BY <1>1, <1>2, <2>1, <2>2
  <1>8. Len(a) > 0 /\ a[1].from = 1 /\ a[Len(a)] = g
    <2>1. CASE Len(q) = 0
      BY <1>1, <1>2, <2>1 DEF Tiling
    <2>2. CASE Len(q) > 0
      BY <1>1, <1>2, <2>2 DEF Tiling
    <2> QED BY <1>1, <2>1, <2>2
  <1>9. \A k \in 2 .. Len(a) : Back(a[k - 1], r) \/ Front(a[k], r)
    <2> SUFFICES ASSUME NEW k \in 2 .. Len(a)
                 PROVE  Back(a[k - 1], r) \/ Front(a[k], r)
      OBVIOUS
    <2>1. CASE k = Len(q) + 1
      BY <1>1, <1>2, <2>1
    <2>2. CASE k \in 2 .. Len(q)
      <3>1. a[k] = q[k] /\ a[k - 1] = q[k - 1]
        BY <1>1, <1>2, <2>2
      <3> QED BY <2>2, <3>1 DEF Tiling
    <2> QED BY <1>1, <1>2, <2>1, <2>2
  <1>10. Tiling(a, r, End(g))
    BY <1>2, <1>6, <1>7, <1>8, <1>9 DEF Tiling
  <1> QED BY <1>10 DEF a

\* Two neighbours become one bulk.
LEMMA TilingMerged ==
  ASSUME NEW q, NEW r, NEW n \in Nat, Tiling(q, r, n),
         NEW i \in 1 .. Len(q) - 1,
         ElevationFlag_RelativeBulk \in {q[i].flag, q[i + 1].flag},
         NEW j \in Seq(RowSegment), Len(j) = Len(q) - 1,
         \A k \in 1 .. i - 1 : j[k] = q[k],
         \A k \in i + 1 .. Len(j) : j[k] = q[k + 1],
         j[i].flag = ElevationFlag_RelativeBulk,
         j[i].from = q[i].from,
         j[i].numElements = q[i].numElements + q[i + 1].numElements
  PROVE  Tiling(j, r, n)
PROOF
  <1>1. q \in Seq(RowSegment) /\ Len(q) \in Nat /\ Len(q) >= 2
    BY LenProperties DEF Tiling
  <1>2. \A k \in 1 .. Len(q) : /\ q[k].from \in Int /\ q[k].numElements \in Int
                              /\ q[k].numElements >= 1
    <2> SUFFICES ASSUME NEW k \in 1 .. Len(q)
                 PROVE  /\ q[k].from \in Int /\ q[k].numElements \in Int
                        /\ q[k].numElements >= 1
      OBVIOUS
    <2>1. q[k] \in RowSegment
      BY <1>1, ElementOfSeq
    <2>2. Sound(q[k], r)
      BY DEF Tiling
    <2> QED BY <2>1, <2>2, CodecAssumption, SegmentType DEF Sound
  <1>3. q[i + 1].from = End(q[i]) + 1
    <2>1. i + 1 \in 2 .. Len(q) /\ i + 1 - 1 = i
      BY <1>1
    <2> QED BY <2>1 DEF Tiling
  <1>4. End(j[i]) = End(q[i + 1])
    <2>1. /\ q[i].from \in Int /\ q[i].numElements \in Int
          /\ q[i + 1].from \in Int /\ q[i + 1].numElements \in Int
      BY <1>1, <1>2
    <2>2. End(j[i]) = q[i].from + (q[i].numElements + q[i + 1].numElements) - 1
      BY DEF End
    <2>3. q[i + 1].from = q[i].from + q[i].numElements - 1 + 1
      BY <1>3 DEF End
    <2>4. End(q[i + 1]) = q[i + 1].from + q[i + 1].numElements - 1
      BY DEF End
    <2> DEFINE f1 == q[i].from
               n1 == q[i].numElements
               f2 == q[i + 1].from
               n2 == q[i + 1].numElements
    <2> HIDE DEF f1, n1, f2, n2
    <2>5. /\ f1 \in Int /\ n1 \in Int /\ f2 \in Int /\ n2 \in Int
          /\ End(j[i]) = f1 + (n1 + n2) - 1
          /\ f2 = f1 + n1 - 1 + 1
          /\ End(q[i + 1]) = f2 + n2 - 1
      BY <2>1, <2>2, <2>3, <2>4 DEF f1, n1, f2, n2
    <2> QED BY <2>5
  <1>5. Sound(j[i], r)
    <2>1. i \in 1 .. Len(q) /\ i + 1 \in 1 .. Len(q)
      BY <1>1
    <2>2. Sound(q[i], r) /\ Sound(q[i + 1], r)
      BY <2>1 DEF Tiling
    <2>3. j[i].numElements >= 3
      BY <1>2, <2>1, <2>2 DEF Sound
    <2> QED BY <1>2, <2>1, <2>3 DEF Sound, ElevationFlag_RelativeBulk, ElevationFlag_RLE
  <1>13. ASSUME NEW k \in 1 .. Len(j), k < i
         PROVE  k \in 1 .. Len(q) /\ j[k] = q[k]
    <2>1. k \in 1 .. i - 1 /\ k \in 1 .. Len(q)
      BY <1>1, <1>13
    <2> QED BY <2>1
  <1>14. ASSUME NEW k \in 1 .. Len(j), k > i
         PROVE  k + 1 \in 2 .. Len(q) /\ k + 1 - 1 = k /\ j[k] = q[k + 1]
    <2>1. k \in i + 1 .. Len(j) /\ k + 1 \in 2 .. Len(q) /\ k + 1 - 1 = k
      BY <1>1, <1>14
    <2> QED BY <2>1
  <1>6. \A k \in 1 .. Len(j) : Sound(j[k], r) /\ j[k].from >= k /\ End(j[k]) <= n
    <2> SUFFICES ASSUME NEW k \in 1 .. Len(j)
                 PROVE  Sound(j[k], r) /\ j[k].from >= k /\ End(j[k]) <= n
      OBVIOUS
    <2>1. CASE k < i
      BY <1>13, <2>1 DEF Tiling
    <2>2. CASE k = i
      <3>1. i \in 1 .. Len(q) /\ i + 1 \in 1 .. Len(q)
        BY <1>1
      <3>2. q[i].from >= i /\ End(q[i + 1]) <= n
        BY <3>1 DEF Tiling
      <3> QED BY <1>4, <1>5, <2>2, <3>2
    <2>3. CASE k > i
      <3>1. j[k] = q[k + 1] /\ k + 1 \in 1 .. Len(q)
        BY <1>1, <2>3
      <3>2. Sound(q[k + 1], r) /\ q[k + 1].from >= k + 1 /\ End(q[k + 1]) <= n
        BY <3>1 DEF Tiling
      <3> QED BY <1>2, <3>1, <3>2
    <2> QED BY <1>1, <2>1, <2>2, <2>3
  <1>7. \A k \in 2 .. Len(j) : j[k].from = End(j[k - 1]) + 1
    <2> SUFFICES ASSUME NEW k \in 2 .. Len(j)
                 PROVE  j[k].from = End(j[k - 1]) + 1
      OBVIOUS
    <2>1. CASE k < i
      <3>1. k \in 1 .. Len(j) /\ k - 1 \in 1 .. Len(j) /\ k - 1 < i
        BY <1>1, <2>1
      <3>2. k \in 2 .. Len(q) /\ j[k] = q[k] /\ j[k - 1] = q[k - 1]
        BY <1>13, <2>1, <3>1
      <3> QED BY <3>2 DEF Tiling
    <2>2. CASE k = i
      <3>1. j[k - 1] = q[i - 1] /\ j[k].from = q[i].from /\ q[i].from = End(q[i - 1]) + 1
        BY <1>1, <2>2 DEF Tiling
      <3> QED BY <3>1
    <2>3. CASE k = i + 1
      <3>1. j[k] = q[k + 1] /\ q[k + 1].from = End(q[k]) + 1
        BY <1>1, <2>3 DEF Tiling
      <3> QED BY <1>1, <1>4, <2>3, <3>1
    <2>4. CASE k > i + 1
      <3>1. k \in 1 .. Len(j) /\ k > i /\ k - 1 \in 1 .. Len(j) /\ k - 1 > i /\ k - 1 + 1 = k
        BY <1>1, <2>4
      <3>2. j[k] = q[k + 1] /\ j[k - 1] = q[k] /\ k + 1 \in 2 .. Len(q) /\ k + 1 - 1 = k
        BY <1>14, <3>1
      <3>3. q[k + 1].from = End(q[k]) + 1
        BY <3>2 DEF Tiling
      <3> QED BY <3>2, <3>3
    <2> QED BY <1>1, <2>1, <2>2, <2>3, <2>4
  <1>8. j[1].from = 1
    BY <1>1 DEF Tiling
  <1>9. End(j[Len(j)]) = n
    <2>1. CASE i = Len(j)
      BY <1>1, <1>4, <2>1 DEF Tiling
    <2>2. CASE i < Len(j)
      BY SMTT(20), <1>1, <2>2 DEF Tiling
    <2> QED BY <1>1, <2>1, <2>2
  <1>10. Front(q[i], r) => Front(j[i], r)
    <2>1. i \in 1 .. Len(q) /\ i + 1 \in 1 .. Len(q)
      BY <1>1
    <2> QED BY <1>2, <2>1 DEF Front
  <1>11. Back(q[i + 1], r) => Back(j[i], r)
    <2>1. i \in 1 .. Len(q) /\ i + 1 \in 1 .. Len(q)
      BY <1>1
    <2> QED BY <1>2, <1>4, <2>1 DEF Back
  <1>12. \A k \in 2 .. Len(j) : Back(j[k - 1], r) \/ Front(j[k], r)
    <2> SUFFICES ASSUME NEW k \in 2 .. Len(j)
                 PROVE  Back(j[k - 1], r) \/ Front(j[k], r)
      OBVIOUS
    <2>1. CASE k < i
      <3>1. k \in 1 .. Len(j) /\ k - 1 \in 1 .. Len(j) /\ k - 1 < i
        BY <1>1, <2>1
      <3>2. k \in 2 .. Len(q) /\ j[k] = q[k] /\ j[k - 1] = q[k - 1]
        BY <1>13, <2>1, <3>1
      <3> QED BY <3>2 DEF Tiling
    <2>2. CASE k = i
      <3>1. j[k - 1] = q[k - 1] /\ k \in 2 .. Len(q)
        BY <1>1, <2>2
      <3> QED BY <1>10, <2>2, <3>1 DEF Tiling
    <2>3. CASE k = i + 1
      <3>1. j[k] = q[k + 1] /\ k - 1 = i /\ k + 1 \in 2 .. Len(q) /\ k + 1 - 1 = k
        BY <1>1, <2>3
      <3>2. Back(q[k], r) \/ Front(q[k + 1], r)
        BY <3>1 DEF Tiling
      <3> QED BY <1>11, <2>3, <3>1, <3>2
    <2>4. CASE k > i + 1
      <3>1. k \in 1 .. Len(j) /\ k > i /\ k - 1 \in 1 .. Len(j) /\ k - 1 > i /\ k - 1 + 1 = k
        BY <1>1, <2>4
      <3>2. j[k] = q[k + 1] /\ j[k - 1] = q[k] /\ k + 1 \in 2 .. Len(q) /\ k + 1 - 1 = k
        BY <1>14, <3>1
      <3>3. Back(q[k], r) \/ Front(q[k + 1], r)
        BY <3>2 DEF Tiling
      <3> QED BY <3>2, <3>3
    <2> QED BY <1>1, <2>1, <2>2, <2>3, <2>4
  <1> QED BY <1>1, <1>6, <1>7, <1>8, <1>9, <1>12 DEF Tiling

\* Columns of which neighbours are equal all hold the value of the first.
LEMMA OneValue ==
  ASSUME NEW i \in Nat, NEW j \in Nat, SameValue(i, j)
  PROVE  \A k \in i .. j : row[k] = row[i]
PROOF
  <1> DEFINE T == {k \in i .. j : row[k] # row[i]}
  <1>1. SUFFICES ASSUME T # {} PROVE FALSE
    OBVIOUS
  <1>2. T \subseteq Nat
    OBVIOUS
  <1>3. PICK k \in T : \A l \in T : k <= l
    BY <1>1, <1>2, HasFirst
  <1>4. k \in i + 1 .. j /\ k - 1 \in i .. j /\ row[k] # row[i]
    OBVIOUS
  <1>5. k - 1 \notin T
    BY <1>3, <1>4
  <1>6. row[k] = row[k - 1]
    BY <1>4 DEF SameValue
  <1> QED BY <1>4, <1>5, <1>6

\* A sequence without its i-th element.
LEMMA WithoutElement ==
  ASSUME NEW S, NEW q \in Seq(S), NEW i \in 1 .. Len(q)
  PROVE  /\ Without(q, i) \in Seq(S)
         /\ Len(Without(q, i)) = Len(q) - 1
         /\ \A k \in 1 .. i - 1 : Without(q, i)[k] = q[k]
         /\ \A k \in i .. Len(q) - 1 : Without(q, i)[k] = q[k + 1]
PROOF
  <1>1. Len(q) \in Nat /\ q \in [1 .. Len(q) -> S]
    BY LenProperties
  <1>2. Without(q, i) \in [1 .. Len(q) - 1 -> S]
    BY <1>1 DEF Without
  <1>3. Without(q, i) \in Seq(S) /\ Len(Without(q, i)) = Len(q) - 1
    <2>1. Len(q) - 1 \in Nat
      BY <1>1
    <2> QED BY <1>2, <2>1, FunctionIsSeq, Zenon
  <1>4. \A k \in 1 .. Len(q) - 1 : Without(q, i)[k] = IF k < i THEN q[k] ELSE q[k + 1]
    BY <1>1 DEF Without
  <1> QED BY SMTT(20), <1>1, <1>3, <1>4

-----------------------------------------------------------------------------
(* The coder                                                               *)

Coding == {"Scan", "Merge", "Write", "WriteBulk"}

\* where the pointer elevation stands in the output
Place ==
  /\ stage = "Write" =>
       /\ s \in 1 .. Len(segments) + 1
       /\ elevation = IF s <= Len(segments) THEN segments[s].from ELSE Width + 1
  /\ stage = "WriteBulk" =>
       /\ s \in 1 .. Len(segments)
       /\ end = End(segments[s])
       /\ elevation \in segments[s].from .. end + 1

\* the segment that is scanned next meets the last one likewise
Meeting ==
  Len(segments) > 0 /\ elevation <= Width =>
    \/ Back(segments[Len(segments)], row)
    \/ elevation < Width /\ row[elevation] = row[elevation + 1]

CodecInv ==
  /\ stage \in Coding \union {"Idle", "Read", "Decoded", "Corrupt", "Overrun"}
  /\ stage = "Idle" => segments = <<>> /\ elevation = 1
  /\ stage \in Coding => row \in [Columns -> Values]
  /\ stage = "Scan" => /\ elevation \in 1 .. Width + 1
                       /\ Tiling(segments, row, elevation - 1)
                       /\ Meeting
  /\ stage \in Coding \ {"Scan"} => Tiling(segments, row, Width)
  /\ stage = "Merge" => s \in 0 .. Len(segments) /\ MergedAfter(segments, s)
  /\ stage \in {"Write", "WriteBulk"} => MergedAfter(segments, 0)
  /\ Place

LEMMA BeginRowKeeps ==
  ASSUME CodecInv, BeginRow
  PROVE  CodecInv'
PROOF
  <1>1. Tiling(<<>>, row', 0)
    BY EmptySeq DEF Tiling
  <1>2. /\ stage' = "Scan" /\ elevation' = 1 /\ segments' = <<>>
        /\ row' \in [Columns -> Values]
    BY DEF BeginRow, CodecInv
  <1>3. Tiling(segments, row, elevation - 1)' /\ Meeting'
    BY <1>1, <1>2, EmptySeq DEF Meeting
  <1> QED BY <1>2, <1>3, CodecAssumption DEF CodecInv, Coding, Place

LEMMA ScanSegmentKeeps ==
  ASSUME CodecInv, Wide, ScanSegment
  PROVE  CodecInv'
PROOF
  <1>1. /\ stage = "Scan" /\ elevation \in 1 .. Width
        /\ stage' = stage /\ row' = row
        /\ row \in [Columns -> Values]
        /\ Tiling(segments, row, elevation - 1) /\ Meeting
    BY CodecAssumption DEF ScanSegment, CodecInv, Coding
  <1>2. Limit(elevation) = Width /\ Limit(elevation) \in elevation .. Width
        /\ Limit(elevation) - elevation + 1 <= MaxNumElementsPerRowSegment
    BY <1>1, CodecAssumption DEF Limit, Wide
  <1> DEFINE Next1(j) == [flag |-> IF SameValue(elevation, j) THEN ElevationFlag_RLE
                                                              ELSE ElevationFlag_RelativeBulk,
                          numElements |-> j - elevation + 1,
                          startValue |-> row[elevation], from |-> elevation]
  <1>3. PICK j \in elevation .. Limit(elevation) :
          /\ segments' = Append(segments, Next1(j))
          /\ elevation' = j + 1
          /\ EndsRun(elevation, j) \/ EndsBulk(elevation, j)
    BY DEF ScanSegment
  <1> DEFINE g == Next1(j)
  <1>4. j \in elevation .. Width /\ j - elevation + 1 \in 1 .. MaxNumElementsPerRowSegment
    BY <1>1, <1>2, CodecAssumption
  <1>5. /\ g \in RowSegment
        /\ g.flag = IF SameValue(elevation, j) THEN ElevationFlag_RLE
                                               ELSE ElevationFlag_RelativeBulk
        /\ g.numElements = j - elevation + 1
        /\ g.startValue = row[elevation] /\ g.from = elevation
    BY <1>1, <1>4, CodecAssumption DEF RowSegment, Columns
  <1>6. segments' = Append(segments, g)
    BY <1>3
  <1> HIDE DEF g
  <1>7. End(g) = j
    BY <1>1, <1>4, <1>5 DEF End
  <1>8. /\ ~SameValue(elevation, j) => /\ j > elevation /\ row[elevation + 1] # row[elevation]
                                      /\ row[j] # row[j - 1]
        /\ j < Width =>
             \/ j > elevation /\ row[j] = row[j - 1]
             \/ j + 1 < Width /\ row[j + 1] = row[j + 2]
        /\ elevation < Width /\ row[elevation] = row[elevation + 1] =>
             j > elevation
    <2>1. CASE EndsRun(elevation, j)
      BY <1>1, <1>2, <1>4, <2>1 DEF EndsRun, SameValue
    <2>2. CASE EndsBulk(elevation, j)
      <3>1. /\ \A k \in elevation + 1 .. j : row[k] # row[k - 1]
            /\ elevation < Width => row[elevation + 1] # row[elevation]
            /\ j < Width => j + 1 < Width /\ row[j + 2] = row[j + 1]
        BY <1>2, <2>2 DEF EndsBulk, Changing
      <3>2. ~SameValue(elevation, j) => j > elevation
        BY <1>1, <1>4 DEF SameValue
      <3>3. j > elevation => j \in elevation + 1 .. j /\ elevation < Width
        BY <1>1, <1>4, CodecAssumption
      <3> QED BY <3>1, <3>2, <3>3
    <2> QED BY <1>3, <2>1, <2>2
  <1>9. Sound(g, row)
    <2>1. CASE SameValue(elevation, j)
      <3>1. \A i \in elevation .. j : row[i] = row[elevation]
        BY <1>1, <1>4, <2>1, OneValue
      <3> QED BY <1>4, <1>5, <1>7, <2>1, <3>1
           DEF Sound, ElevationFlag_RLE, ElevationFlag_RelativeBulk
    <2>2. CASE ~SameValue(elevation, j)
      <3>1. g.flag = ElevationFlag_RelativeBulk /\ g.numElements >= 2
        BY <1>1, <1>4, <1>5, <1>8, <2>2
      <3>2. ~Front(g, row) /\ ~Back(g, row)
        BY <1>5, <1>7, <1>8, <2>2 DEF Front, Back
      <3> QED BY <1>4, <1>5, <3>1, <3>2 DEF Sound, ElevationFlag_RLE, ElevationFlag_RelativeBulk
    <2> QED BY <2>1, <2>2
  <1>10. Len(segments) > 0 => Back(segments[Len(segments)], row) \/ Front(g, row)
    <2> SUFFICES ASSUME Len(segments) > 0, ~Back(segments[Len(segments)], row)
                 PROVE  Front(g, row)
      OBVIOUS
    <2>1. elevation < Width /\ row[elevation] = row[elevation + 1]
      BY <1>1 DEF Meeting
    <2>2. j - elevation + 1 >= 2
      BY <1>1, <1>4, <1>8, <2>1
    <2> QED BY <1>5, <2>1, <2>2 DEF Front
  <1>11. Tiling(segments', row, j)
    <2>1. elevation - 1 \in Nat /\ g.from = elevation - 1 + 1
      BY <1>1, <1>5
    <2> QED BY <1>1, <1>5, <1>6, <1>7, <1>9, <1>10, <2>1, TilingGrows
  <1>12. elevation' = j + 1 /\ elevation' \in 1 .. Width + 1 /\ elevation' - 1 = j
    BY <1>1, <1>3, <1>4, CodecAssumption
  <1>13. Meeting'
    <2>1. segments \in Seq(RowSegment)
      BY <1>1 DEF Tiling
    <2>2. segments'[Len(segments')] = g
      BY <1>5, <1>6, <2>1, AppendProperties
    <2> SUFFICES ASSUME j + 1 <= Width
                 PROVE  Back(g, row) \/ (j + 1 < Width /\ row[j + 1] = row[j + 1 + 1])
      BY <1>1, <1>12, <2>2 DEF Meeting
    <2>3. j < Width /\ j + 1 + 1 = j + 2
      BY <1>1, <1>4, CodecAssumption
    <2>4. j > elevation => g.numElements >= 2
      BY <1>1, <1>4, <1>5
    <2> QED BY <1>7, <1>8, <2>3, <2>4 DEF Back
  <1>14. Tiling(segments, row, elevation - 1)'
    BY <1>1, <1>11, <1>12
  <1> QED BY <1>1, <1>12, <1>13, <1>14 DEF CodecInv, Coding, Place

LEMMA EndScanKeeps ==
  ASSUME CodecInv, EndScan
  PROVE  CodecInv'
PROOF
  <1>1. /\ stage' = "Merge" /\ elevation = Width + 1 /\ s' = Len(segments)
        /\ segments' = segments /\ row' = row /\ row \in [Columns -> Values]
        /\ Tiling(segments, row, elevation - 1)
    BY CodecAssumption DEF EndScan, CodecInv, Coding
  <1>2. Tiling(segments, row, Width)' /\ Len(segments) \in Nat
    <2>1. elevation - 1 = Width
      BY <1>1, CodecAssumption
    <2> QED BY <1>1, <2>1, LenProperties DEF Tiling
  <1>3. MergedAfter(segments, s)'
    BY <1>1, <1>2 DEF MergedAfter
  <1> QED BY <1>1, <1>2, <1>3 DEF CodecInv, Coding, Place

LEMMA KeepSegmentKeeps ==
  ASSUME CodecInv, KeepSegment
  PROVE  CodecInv'
PROOF
  <1>1. /\ stage = "Merge" /\ s > 0 /\ Stays(segments[s]) /\ s' = s - 1
        /\ stage' = stage /\ segments' = segments /\ row' = row
        /\ s \in 0 .. Len(segments) /\ MergedAfter(segments, s)
        /\ row \in [Columns -> Values] /\ Tiling(segments, row, Width)
    BY DEF KeepSegment, CodecInv, Coding
  <1>2. Len(segments) \in Nat
    BY <1>1, LenProperties DEF Tiling
  <1>3. MergedAfter(segments, s - 1)
    BY <1>1, <1>2 DEF MergedAfter
  <1> QED BY <1>1, <1>2, <1>3 DEF CodecInv, Coding, Place

\* In a wide row the last segment is never erased by mistake: when there is only
\* one, it is the whole row, and too long to be merged.
LEMMA NotAlone ==
  ASSUME Wide, NEW r, Tiling(segments, r, Width), s \in 1 .. Len(segments), ~Stays(segments[s])
  PROVE  Len(segments) >= 2 /\ (BelowLast => s < Len(segments))
PROOF
  <1>1. segments \in Seq(RowSegment) /\ Len(segments) \in Nat
    BY LenProperties DEF Tiling
  <1>2. segments[s].numElements \in Int /\ segments[s].numElements <= SmallRun
    BY <1>1, ElementOfSeq, SegmentType, CodecAssumption DEF Stays, SmallRun
  <1>3. Len(segments) # 1
    <2> SUFFICES ASSUME Len(segments) = 1 PROVE FALSE
      OBVIOUS
    <2>1. s = 1 /\ segments[s].from = 1 /\ End(segments[s]) = Width
      BY DEF Tiling
    <2> QED BY <1>2, <2>1, CodecAssumption DEF End, Wide, SmallRun
  <1>4. Len(segments) >= 2
    <2>1. s \in Int /\ 1 <= s /\ s <= Len(segments)
      BY <1>1
    <2> DEFINE n == Len(segments)
    <2>2. n \in Nat /\ n # 1 /\ 1 <= s /\ s <= n
      BY <1>1, <1>3, <2>1
    <2> HIDE DEF n
    <2>3. n >= 2
      BY <2>1, <2>2
    <2> QED BY <2>3 DEF n
  <1> QED BY <1>1, <1>4 DEF BelowLast

\* What merging the s-th segment into the next one does: nothing, or one bulk
\* instead of two segments.
LEMMA JoinNextTiles ==
  ASSUME Wide, NEW r, Tiling(segments, r, Width), s \in 1 .. Len(segments), ~Stays(segments[s])
  PROVE  /\ Tiling(JoinNext, r, Width)
         /\ \/ JoinNext = segments
            \/ /\ s < Len(segments) /\ Len(JoinNext) = Len(segments) - 1
               /\ \A k \in 1 .. s - 1 : JoinNext[k] = segments[k]
               /\ \A k \in s + 1 .. Len(JoinNext) : JoinNext[k] = segments[k + 1]
               /\ JoinNext[s].flag = ElevationFlag_RelativeBulk
               /\ segments[s + 1].flag = ElevationFlag_RelativeBulk
PROOF
  <1>1. segments \in Seq(RowSegment) /\ Len(segments) \in Nat
    BY LenProperties DEF Tiling
  <1>2. CASE ~(BelowLast /\ FlagAfter = ElevationFlag_RelativeBulk)
    BY <1>2 DEF JoinNext
  <1>3. CASE BelowLast /\ FlagAfter = ElevationFlag_RelativeBulk
    <2>1. s < Len(segments) /\ s + 1 \in 1 .. Len(segments)
      BY <1>1, <1>3, NotAlone
    <2>2. segments[s + 1].flag = ElevationFlag_RelativeBulk
      BY <1>3, <2>1 DEF FlagAfter
    <2> DEFINE a == segments[s]
               b == segments[s + 1]
               sum == b.numElements + a.numElements
               joined == [b EXCEPT !.numElements = sum, !.from = a.from]
               q == [segments EXCEPT ![s + 1] = joined]
    <2>3. a \in RowSegment /\ b \in RowSegment
      BY <1>1, <2>1, ElementOfSeq
    <2>4. sum \in 0 .. MaxNumElementsPerRowSegment /\ Wrap(sum) = sum
      <3>1. /\ a.numElements \in Nat /\ b.numElements \in Nat
            /\ a.from \in Nat /\ a.from >= 1 /\ b.from \in Nat
        BY <2>3, SegmentType, CodecAssumption
      <3>2. b.from = End(a) + 1 /\ End(b) <= Width
        <4>1. s + 1 \in 2 .. Len(segments) /\ s + 1 - 1 = s
          BY <2>1
        <4> QED BY <2>1, <4>1 DEF Tiling
      <3>3. sum \in Nat /\ sum <= Width
        <4> DEFINE f1 == a.from
                   n1 == a.numElements
                   f2 == b.from
                   n2 == b.numElements
        <4>1. /\ f1 \in Nat /\ n1 \in Nat /\ f2 \in Nat /\ n2 \in Nat /\ f1 >= 1
              /\ f2 = f1 + n1 - 1 + 1 /\ f2 + n2 - 1 <= Width /\ sum = n2 + n1
          BY <3>1, <3>2 DEF End
        <4> HIDE DEF f1, n1, f2, n2, sum
        <4> QED BY <4>1, CodecAssumption
      <3> HIDE DEF sum
      <3>4. sum \in 0 .. MaxNumElementsPerRowSegment
        BY <3>3, CodecAssumption DEF Wide
      <3> QED BY <3>4, CodecAssumption DEF Wrap
    <2>5. /\ joined \in RowSegment
          /\ joined.flag = ElevationFlag_RelativeBulk /\ joined.from = a.from
          /\ joined.numElements = sum
      BY <2>2, <2>3, <2>4 DEF RowSegment
    <2>6. JoinNext = Without(q, s)
      <3>1. q = [segments EXCEPT
                   ![s + 1].numElements = Wrap(@ + segments[s].numElements),
                   ![s + 1].from = segments[s].from]
        BY <1>1, <2>1, <2>4
      <3> QED BY <1>3, <2>1, <3>1 DEF JoinNext
    <2> HIDE DEF joined
    <2>7. /\ q \in Seq(RowSegment) /\ Len(q) = Len(segments)
          /\ \A k \in 1 .. Len(segments) : q[k] = IF k = s + 1 THEN joined ELSE segments[k]
      BY <1>1, <2>1, <2>5, ExceptSeq
    <2> HIDE DEF q
    <2>8. /\ JoinNext \in Seq(RowSegment) /\ Len(JoinNext) = Len(segments) - 1
          /\ \A k \in 1 .. s - 1 : JoinNext[k] = q[k]
          /\ \A k \in s .. Len(segments) - 1 : JoinNext[k] = q[k + 1]
      <3>1. s \in 1 .. Len(q)
        BY <1>1, <2>1, <2>7
      <3>2. /\ Without(q, s) \in Seq(RowSegment) /\ Len(Without(q, s)) = Len(q) - 1
            /\ \A k \in 1 .. s - 1 : Without(q, s)[k] = q[k]
            /\ \A k \in s .. Len(q) - 1 : Without(q, s)[k] = q[k + 1]
        BY <2>7, <3>1, WithoutElement
      <3> QED BY <2>6, <2>7, <3>2
    <2>9. /\ \A k \in 1 .. s - 1 : JoinNext[k] = segments[k]
          /\ \A k \in s + 1 .. Len(JoinNext) : JoinNext[k] = segments[k + 1]
          /\ JoinNext[s] = joined
      <3>0. s \in Nat /\ s >= 1
        OBVIOUS
      <3>1. \A k \in 1 .. s - 1 : JoinNext[k] = segments[k]
        <4> SUFFICES ASSUME NEW k \in 1 .. s - 1 PROVE JoinNext[k] = segments[k]
          OBVIOUS
        <4>1. k \in 1 .. Len(segments) /\ k # s + 1
          BY <1>1, <2>1, <3>0
        <4> QED BY <2>7, <2>8, <4>1
      <3>2. \A k \in s + 1 .. Len(JoinNext) : JoinNext[k] = segments[k + 1]
        <4> SUFFICES ASSUME NEW k \in s + 1 .. Len(segments) - 1
                     PROVE  JoinNext[k] = segments[k + 1]
          BY <2>8
        <4>1. k \in s .. Len(segments) - 1 /\ k + 1 \in 1 .. Len(segments) /\ k + 1 # s + 1
          BY <1>1, <2>1, <3>0
        <4> QED BY <2>7, <2>8, <4>1
      <3>3. JoinNext[s] = joined
        <4>1. s \in s .. Len(segments) - 1
          BY <1>1, <2>1, <3>0
        <4> QED BY <2>1, <2>7, <2>8, <4>1
      <3> QED BY <3>1, <3>2, <3>3
    <2>10. joined.numElements = segments[s].numElements + segments[s + 1].numElements
      <3>1. a.numElements \in Int /\ b.numElements \in Int
        BY <2>3, SegmentType, CodecAssumption
      <3> QED BY <2>5, <3>1
    <2>11. Tiling(JoinNext, r, Width)
      <3>1. s \in 1 .. Len(segments) - 1
        BY <1>1, <2>1
      <3> QED BY <2>2, <2>5, <2>8, <2>9, <2>10, <3>1, CodecAssumption, TilingMerged
    <2> QED BY <2>1, <2>2, <2>5, <2>8, <2>9, <2>11
  <1> QED BY <1>2, <1>3

\* The neighbours of the segments behind the i-th, in a sequence j that differs
\* from q before the i-th segment only, by one segment less.
LEMMA MergedShift ==
  ASSUME NEW q \in Seq(RowSegment), NEW i \in 1 .. Len(q), MergedAfter(q, i),
         NEW j, Len(j) = Len(q) - 1,
         \A k \in i + 1 .. Len(j) : j[k] = q[k + 1],
         j[i].flag = ElevationFlag_RelativeBulk => q[i + 1].flag = ElevationFlag_RelativeBulk
  PROVE  MergedAfter(j, i)
PROOF
  <1>1. Len(q) \in Nat
    BY LenProperties
  <1> SUFFICES ASSUME NEW k \in 2 .. Len(j), k > i,
                      j[k - 1].flag = ElevationFlag_RelativeBulk
               PROVE  Stays(j[k])
    BY DEF MergedAfter
  <1>2. k + 1 \in 2 .. Len(q) /\ k + 1 > i /\ k + 1 - 1 = k /\ j[k] = q[k + 1]
    BY <1>1
  <1>3. q[k].flag = ElevationFlag_RelativeBulk
    <2>1. CASE k = i + 1
      <3>1. k - 1 = i
        BY <2>1
      <3> QED BY <2>1, <3>1
    <2>2. CASE k > i + 1
      <3>1. k - 1 \in i + 1 .. Len(j) /\ k - 1 + 1 = k
        BY <1>1, <2>2
      <3>2. j[k - 1] = q[k]
        BY <3>1
      <3> QED BY <3>2
    <2> QED BY <2>1, <2>2
  <1>4. Stays(q[k + 1])
    <2> DEFINE n == k + 1
    <2>1. n \in 2 .. Len(q) /\ n > i /\ q[n - 1].flag = ElevationFlag_RelativeBulk
      BY <1>2, <1>3
    <2> HIDE DEF n
    <2>2. Stays(q[n])
      BY <2>1 DEF MergedAfter
    <2> QED BY <2>2 DEF n
  <1> QED BY <1>2, <1>4

\* Merging a segment keeps the tiling, and its index stays among the segments.
LEMMA MergeSegmentKeeps ==
  ASSUME CodecInv, Wide, MergeSegment
  PROVE  CodecInv'
PROOF
  <1>1. /\ stage = "Merge" /\ s \in 1 .. Len(segments) /\ ~Stays(segments[s])
        /\ stage' = stage /\ row' = row /\ row \in [Columns -> Values]
        /\ MergedAfter(segments, s) /\ Tiling(segments, row, Width)
    BY DEF MergeSegment, CodecInv, Coding
  <1>2. segments \in Seq(RowSegment) /\ Len(segments) \in Nat
    BY <1>1, LenProperties DEF Tiling
  <1> DEFINE joined == JoinNext
             same == joined = segments
             one == /\ s < Len(segments) /\ Len(joined) = Len(segments) - 1
                    /\ \A k \in 1 .. s - 1 : joined[k] = segments[k]
                    /\ \A k \in s + 1 .. Len(joined) : joined[k] = segments[k + 1]
                    /\ joined[s].flag = ElevationFlag_RelativeBulk
                    /\ segments[s + 1].flag = ElevationFlag_RelativeBulk
  <1>3. Tiling(joined, row, Width) /\ (same \/ one)
    BY <1>1, JoinNextTiles
  <1>4. \/ /\ s > 1 /\ joined[s - 1].flag = ElevationFlag_RelativeBulk
           /\ segments' = Without([joined EXCEPT
                             ![s - 1].numElements = Wrap(@ + joined[s].numElements)], s)
           /\ s' = IF s <= Len(joined) - 1 THEN s ELSE s - 1
        \/ /\ ~(s > 1 /\ joined[s - 1].flag = ElevationFlag_RelativeBulk)
           /\ segments' = joined /\ s' = s - 1
    BY DEF MergeSegment
  <1> HIDE DEF joined
  <1>5. /\ joined \in Seq(RowSegment) /\ Len(joined) \in Nat
        /\ s \in 1 .. Len(joined) /\ Len(joined) <= Len(segments)
    <2>1. joined \in Seq(RowSegment) /\ Len(joined) \in Nat
      BY <1>3, LenProperties DEF Tiling
    <2> QED BY <1>1, <1>2, <1>3, <2>1
  <1>6. MergedAfter(joined, s)
    <2>1. CASE same
      BY <1>1, <2>1
    <2>2. CASE one
      BY <1>1, <1>2, <2>2, MergedShift
    <2> QED BY <1>3, <2>1, <2>2
  <1>7. CASE /\ ~(s > 1 /\ joined[s - 1].flag = ElevationFlag_RelativeBulk)
             /\ segments' = joined /\ s' = s - 1
    <2>1. MergedAfter(joined, s - 1)
      <3> SUFFICES ASSUME NEW k \in 2 .. Len(joined), k > s - 1,
                          joined[k - 1].flag = ElevationFlag_RelativeBulk
                   PROVE  Stays(joined[k])
        BY DEF MergedAfter
      <3>1. k # s
        BY <1>7
      <3>2. k > s
        BY <1>5, <3>1
      <3> QED BY <1>6, <3>2 DEF MergedAfter
    <2>2. s' \in 0 .. Len(segments') /\ MergedAfter(segments, s)' /\ Tiling(segments, row, Width)'
      BY <1>1, <1>3, <1>5, <1>7, <2>1
    <2> QED BY <1>1, <2>2 DEF CodecInv, Coding, Place
  <1>8. CASE /\ s > 1 /\ joined[s - 1].flag = ElevationFlag_RelativeBulk
             /\ segments' = Without([joined EXCEPT
                               ![s - 1].numElements = Wrap(@ + joined[s].numElements)], s)
             /\ s' = IF s <= Len(joined) - 1 THEN s ELSE s - 1
    <2> DEFINE a == joined[s - 1]
               b == joined[s]
               sum == a.numElements + b.numElements
               g == [a EXCEPT !.numElements = sum]
               q == [joined EXCEPT ![s - 1] = g]
               w == Without(q, s)
    <2>1. s - 1 \in 1 .. Len(joined) - 1 /\ s - 1 \in 1 .. Len(joined) /\ s \in 2 .. Len(joined)
      BY <1>5, <1>8
    <2>2. a \in RowSegment /\ b \in RowSegment
      BY <1>5, <2>1, ElementOfSeq
    <2>3. sum \in 0 .. MaxNumElementsPerRowSegment /\ Wrap(sum) = sum
      <3>1. /\ a.numElements \in Nat /\ b.numElements \in Nat
            /\ a.from \in Nat /\ a.from >= 1 /\ b.from \in Nat
        BY <2>2, SegmentType, CodecAssumption
      <3>2. b.from = End(a) + 1 /\ End(b) <= Width
        BY <1>3, <2>1 DEF Tiling
      <3>3. sum \in Nat /\ sum <= Width
        <4> DEFINE f1 == a.from
                   n1 == a.numElements
                   f2 == b.from
                   n2 == b.numElements
        <4>1. /\ f1 \in Nat /\ n1 \in Nat /\ f2 \in Nat /\ n2 \in Nat /\ f1 >= 1
              /\ f2 = f1 + n1 - 1 + 1 /\ f2 + n2 - 1 <= Width /\ sum = n1 + n2
          BY <3>1, <3>2 DEF End
        <4> HIDE DEF f1, n1, f2, n2, sum
        <4> QED BY <4>1, CodecAssumption
      <3> HIDE DEF sum
      <3>4. sum \in 0 .. MaxNumElementsPerRowSegment
        BY <3>3, CodecAssumption DEF Wide
      <3> QED BY <3>4, CodecAssumption DEF Wrap
    <2>4. /\ g \in RowSegment
          /\ g.flag = ElevationFlag_RelativeBulk /\ g.from = a.from
          /\ g.numElements = a.numElements + b.numElements
      BY <1>8, <2>2, <2>3 DEF RowSegment
    <2>5. segments' = w
      <3>1. q = [joined EXCEPT ![s - 1].numElements = Wrap(@ + joined[s].numElements)]
        BY <1>5, <2>1, <2>3
      <3> QED BY <1>8, <3>1
    <2> HIDE DEF g
    <2>6. /\ q \in Seq(RowSegment) /\ Len(q) = Len(joined)
          /\ \A k \in 1 .. Len(joined) : q[k] = IF k = s - 1 THEN g ELSE joined[k]
      BY <1>5, <2>1, <2>4, ExceptSeq
    <2> HIDE DEF q
    <2>7. /\ w \in Seq(RowSegment) /\ Len(w) = Len(joined) - 1
          /\ \A k \in 1 .. s - 1 : w[k] = q[k]
          /\ \A k \in s .. Len(joined) - 1 : w[k] = q[k + 1]
      <3>1. s \in 1 .. Len(q)
        BY <1>5, <2>6
      <3>2. /\ w \in Seq(RowSegment) /\ Len(w) = Len(q) - 1
            /\ \A k \in 1 .. s - 1 : w[k] = q[k]
            /\ \A k \in s .. Len(q) - 1 : w[k] = q[k + 1]
        BY <2>6, <3>1, WithoutElement
      <3> QED BY <2>6, <3>2
    <2> HIDE DEF w
    <2>8. \A k \in 1 .. s - 1 - 1 : w[k] = joined[k]
      <3> SUFFICES ASSUME NEW k \in 1 .. s - 1 - 1 PROVE w[k] = joined[k]
        OBVIOUS
      <3>1. k \in 1 .. s - 1 /\ k \in 1 .. Len(joined) /\ k # s - 1
        BY <1>5, <2>1
      <3> QED BY <2>6, <2>7, <3>1
    <2>9. \A k \in s - 1 + 1 .. Len(w) : w[k] = joined[k + 1]
      <3> SUFFICES ASSUME NEW k \in s .. Len(joined) - 1 PROVE w[k] = joined[k + 1]
        BY <1>5, <2>7
      <3>1. k + 1 \in 1 .. Len(joined) /\ k + 1 # s - 1
        BY <1>5, <2>1
      <3> QED BY <2>6, <2>7, <3>1
    <2>10. w[s - 1] = g
      <3>1. s - 1 \in 1 .. s - 1
        BY <2>1
      <3> QED BY <2>1, <2>6, <2>7, <3>1
    <2>11. Tiling(w, row, Width)
      <3>1. joined[s - 1 + 1] = b
        BY <2>1
      <3>2. ElevationFlag_RelativeBulk \in {joined[s - 1].flag, joined[s - 1 + 1].flag}
        BY <1>8
      <3>3. Width \in Nat /\ w \in Seq(RowSegment) /\ Len(w) = Len(joined) - 1
            /\ Tiling(joined, row, Width)
        BY <1>3, <2>7, CodecAssumption
      <3>4. /\ w[s - 1].flag = ElevationFlag_RelativeBulk
            /\ w[s - 1].from = joined[s - 1].from
            /\ w[s - 1].numElements = joined[s - 1].numElements + joined[s - 1 + 1].numElements
        BY <2>4, <2>10, <3>1
      <3> QED BY <2>1, <2>8, <2>9, <3>2, <3>3, <3>4, TilingMerged
    <2>12. MergedAfter(w, s)
      <3> SUFFICES ASSUME NEW k \in 2 .. Len(w), k > s,
                          w[k - 1].flag = ElevationFlag_RelativeBulk
                   PROVE  Stays(w[k])
        BY DEF MergedAfter
      <3>1. /\ k + 1 \in 2 .. Len(joined) /\ k + 1 > s /\ k + 1 - 1 = k
            /\ k \in s - 1 + 1 .. Len(w) /\ k - 1 \in s - 1 + 1 .. Len(w) /\ k - 1 + 1 = k
        BY <1>5, <2>1, <2>7
      <3>2. w[k] = joined[k + 1] /\ w[k - 1] = joined[k]
        BY <2>9, <3>1
      <3> QED BY <1>6, <3>1, <3>2 DEF MergedAfter
    <2>13. s' \in 0 .. Len(w) /\ MergedAfter(w, s')
      <3>1. CASE s <= Len(joined) - 1
        BY <1>5, <1>8, <2>7, <2>12, <3>1
      <3>2. CASE s > Len(joined) - 1
        <4>1. s' = s - 1 /\ s = Len(joined) /\ Len(w) = s - 1
          BY <1>5, <1>8, <2>7, <3>2
        <4>2. MergedAfter(w, s - 1)
          BY <2>1, <4>1 DEF MergedAfter
        <4> QED BY <2>1, <4>1, <4>2
      <3> QED BY <1>5, <3>1, <3>2
    <2>14. /\ s' \in 0 .. Len(segments') /\ MergedAfter(segments, s)'
           /\ Tiling(segments, row, Width)'
      BY <1>1, <2>5, <2>11, <2>13
    <2> QED BY <1>1, <2>14 DEF CodecInv, Coding, Place
  <1> QED BY <1>4, <1>7, <1>8

LEMMA EndMergeKeeps ==
  ASSUME CodecInv, EndMerge
  PROVE  CodecInv'
PROOF
  <1>1. /\ stage' = "Write" /\ elevation' = 1 /\ s' = 1
        /\ segments' = segments /\ row' = row /\ row \in [Columns -> Values]
        /\ MergedAfter(segments, 0) /\ Tiling(segments, row, Width)
    BY DEF EndMerge, CodecInv, Coding
  <1>2. Len(segments) \in Nat /\ Len(segments) > 0 /\ segments[1].from = 1
    BY <1>1, LenProperties, CodecAssumption DEF Tiling
  <1> QED BY <1>1, <1>2 DEF CodecInv, Coding, Place

\* What a step of the output leaves alone, and what the invariant says of it.
LEMMA WritingState ==
  ASSUME CodecInv, stage \in {"Write", "WriteBulk"}
  PROVE  /\ row \in [Columns -> Values] /\ Tiling(segments, row, Width)
         /\ MergedAfter(segments, 0)
         /\ segments \in Seq(RowSegment) /\ Len(segments) \in Nat /\ s \in Nat
         /\ \A k \in 1 .. Len(segments) :
              /\ segments[k].from \in Nat /\ segments[k].numElements \in Nat
              /\ segments[k].numElements >= 1
              /\ End(segments[k]) \in Nat /\ segments[k].from <= End(segments[k])
              /\ End(segments[k]) + 1 =
                   IF k + 1 <= Len(segments) THEN segments[k + 1].from ELSE Width + 1
PROOF
  <1>1. row \in [Columns -> Values] /\ Tiling(segments, row, Width) /\ MergedAfter(segments, 0)
    BY DEF CodecInv, Coding
  <1>2. segments \in Seq(RowSegment) /\ Len(segments) \in Nat
    BY <1>1, LenProperties DEF Tiling
  <1>3. s \in Nat
    BY <1>2 DEF CodecInv, Place
  <1>4. ASSUME NEW k \in 1 .. Len(segments)
        PROVE  /\ segments[k].from \in Nat /\ segments[k].numElements \in Nat
               /\ segments[k].numElements >= 1
               /\ End(segments[k]) \in Nat /\ segments[k].from <= End(segments[k])
    <2>1. segments[k] \in RowSegment
      BY <1>2, ElementOfSeq
    <2>2. segments[k].from \in Nat /\ segments[k].from >= 1 /\ segments[k].numElements \in Nat
      BY <2>1, SegmentType, CodecAssumption
    <2>3. segments[k].numElements >= 1
      BY <1>1 DEF Tiling, Sound
    <2> QED BY <2>2, <2>3 DEF End
  <1>5. ASSUME NEW k \in 1 .. Len(segments)
        PROVE  End(segments[k]) + 1 =
                 IF k + 1 <= Len(segments) THEN segments[k + 1].from ELSE Width + 1
    <2>1. CASE k + 1 <= Len(segments)
      <3>1. k + 1 \in 2 .. Len(segments) /\ k + 1 - 1 = k
        BY <1>2, <2>1
      <3>2. segments[k + 1].from = End(segments[k]) + 1
        BY <1>1, <3>1 DEF Tiling
      <3> QED BY <2>1, <3>2
    <2>2. CASE k = Len(segments)
      BY <1>1, <1>2, <2>2 DEF Tiling
    <2> QED BY <1>2, <2>1, <2>2
  <1> QED BY <1>1, <1>2, <1>3, <1>4, <1>5

LEMMA WriteKeeps ==
  ASSUME CodecInv, WriteRun \/ WriteBulk \/ WriteSubSegment \/ EndBulk
  PROVE  CodecInv'
PROOF
  <1>1. /\ stage \in {"Write", "WriteBulk"} /\ stage' \in {"Write", "WriteBulk"}
        /\ segments' = segments /\ row' = row
    BY DEF WriteRun, WriteBulk, WriteSubSegment, EndBulk, Writing
  <1>2. /\ row \in [Columns -> Values] /\ Tiling(segments, row, Width)
        /\ MergedAfter(segments, 0) /\ Len(segments) \in Nat /\ s \in Nat
    BY <1>1, WritingState
  <1>3. CASE WriteRun
    <2>1. /\ stage' = "Write" /\ s \in 1 .. Len(segments) /\ s' = s + 1
          /\ elevation = segments[s].from
          /\ elevation' = elevation + segments[s].numElements
      BY <1>2, <1>3 DEF WriteRun, Writing, CodecInv, Place
    <2>2. /\ segments[s].from \in Nat /\ segments[s].numElements \in Nat
          /\ End(segments[s]) + 1 =
               IF s + 1 <= Len(segments) THEN segments[s + 1].from ELSE Width + 1
      BY <1>1, <2>1, WritingState
    <2>3. End(segments[s]) + 1 = elevation'
      BY <2>1, <2>2 DEF End
    <2>4. s' \in 1 .. Len(segments) + 1
      BY <1>2, <2>1
    <2> QED BY <1>1, <1>2, <2>1, <2>2, <2>3, <2>4 DEF CodecInv, Coding, Place
  <1>4. CASE WriteBulk
    <2>1. /\ stage' = "WriteBulk" /\ s \in 1 .. Len(segments) /\ s' = s
          /\ elevation = segments[s].from /\ elevation' = elevation
          /\ end' = elevation + segments[s].numElements - 1
      BY <1>2, <1>4 DEF WriteBulk, Writing, CodecInv, Place
    <2>2. /\ segments[s].from \in Nat /\ End(segments[s]) \in Nat
          /\ segments[s].from <= End(segments[s])
      BY <1>1, <2>1, WritingState
    <2>3. end' = End(segments[s]) /\ elevation' \in segments[s].from .. end' + 1
      BY <2>1, <2>2 DEF End
    <2> QED BY <1>1, <1>2, <2>1, <2>3 DEF CodecInv, Coding, Place
  <1>5. CASE WriteSubSegment
    <2>1. /\ stage = "WriteBulk" /\ stage' = stage /\ s' = s /\ end' = end
          /\ s \in 1 .. Len(segments) /\ end = End(segments[s])
          /\ elevation \in segments[s].from .. end + 1
      BY <1>5 DEF WriteSubSegment, CodecInv, Place
    <2>2. PICK j \in elevation .. end : elevation' = j + 1
      BY <1>5 DEF WriteSubSegment
    <2>3. segments[s].from \in Nat /\ end \in Nat
      BY <1>1, <2>1, WritingState
    <2>4. elevation' \in segments[s].from .. end + 1
      BY <2>1, <2>2, <2>3
    <2> QED BY <1>1, <1>2, <2>1, <2>4 DEF CodecInv, Coding, Place
  <1>6. CASE EndBulk
    <2>1. /\ stage' = "Write" /\ s' = s + 1 /\ elevation' = elevation
          /\ s \in 1 .. Len(segments) /\ end = End(segments[s])
          /\ elevation \in segments[s].from .. end + 1 /\ elevation > end
      BY <1>6 DEF EndBulk, CodecInv, Place
    <2>2. /\ segments[s].from \in Nat /\ end \in Nat
          /\ end + 1 = IF s + 1 <= Len(segments) THEN segments[s + 1].from ELSE Width + 1
      BY <1>1, <2>1, WritingState
    <2>3. elevation' = end + 1 /\ s' \in 1 .. Len(segments) + 1
      BY <1>2, <2>1, <2>2
    <2> QED BY <1>1, <1>2, <2>1, <2>2, <2>3 DEF CodecInv, Coding, Place
  <1> QED BY <1>3, <1>4, <1>5, <1>6

\* The decoder is not spoken of by the invariant, and the next row starts afresh.
LEMMA OthersKeep ==
  ASSUME CodecInv,
         \/ EndWrite \/ ReadRun \/ ReadBulk \/ ReadUnknown \/ ReadValue
         \/ Corrupt \/ Overrun \/ EndRow \/ NextRow
  PROVE  CodecInv'
PROOF
  <1>1. CASE NextRow
    BY <1>1 DEF NextRow, CodecInv, Coding, Place
  <1>2. CASE ~NextRow
    <2>1. stage' \in {"Read", "Decoded", "Corrupt", "Overrun"}
      BY <1>2 DEF EndWrite, ReadRun, ReadBulk, ReadUnknown, ReadValue, Corrupt, Overrun,
         EndRow, Reading
    <2> QED BY <2>1 DEF CodecInv, Coding, Place
  <1> QED BY <1>1, <1>2

LEMMA CodecStep ==
  ASSUME Wide, CodecInv, [Next]_vars
  PROVE  CodecInv'
PROOF
  <1>1. CASE UNCHANGED vars
    BY <1>1 DEF vars, CodecInv, Place, Meeting, Tiling, MergedAfter, Sound, Front, Back, Stays, End
  <1> QED BY <1>1, BeginRowKeeps, ScanSegmentKeeps, EndScanKeeps, KeepSegmentKeeps,
       MergeSegmentKeeps, EndMergeKeeps, WriteKeeps, OthersKeep DEF Next

\* The invariant of the coder, for images of every size but narrow ones.
THEOREM CodecInvariance ==
  ASSUME Wide
  PROVE  Spec => []CodecInv
PROOF
  <1>1. Init => CodecInv
    BY DEF Init, CodecInv, Coding, Place
  <1> QED BY <1>1, CodecStep, PTL DEF Spec

\* In a row wider than the runs that are merged, the segments tile what was
\* scanned of it, through the scan, the merge and the output.
THEOREM SegmentsAlwaysTile ==
  ASSUME Wide
  PROVE  Spec => []SegmentsTile
PROOF
  <1>1. CodecInv => SegmentsTile
    <2> SUFFICES ASSUME CodecInv, stage \in Coding
                 PROVE  SegmentsTile
      BY DEF SegmentsTile, Coding
    <2> DEFINE n == IF stage = "Scan" THEN elevation - 1 ELSE Width
    <2>1. Tiling(segments, row, n)
      BY DEF CodecInv, Coding
    <2>2. segments \in Seq(RowSegment) /\ Len(segments) \in Nat
      BY <2>1, LenProperties DEF Tiling
    <2>3. \A k : Last(k) = End(segments[k])
      BY DEF Last, End
    <2>4. segments # <<>> => Len(segments) > 0
      BY <2>2, EmptySeq
    <2>5. segments # <<>> => segments[1].from = 1 /\ Last(Len(segments)) = n
      BY <2>1, <2>3, <2>4 DEF Tiling
    <2>6. stage # "Scan" => segments # <<>>
      BY <2>1, EmptySeq, CodecAssumption DEF Tiling
    <2>7. ASSUME NEW k \in 1 .. Len(segments)
          PROVE  /\ k > 1 => segments[k].from = Last(k - 1) + 1
                 /\ segments[k].flag = ElevationFlag_RLE =>
                      \A i \in segments[k].from .. Last(k) : row[i] = segments[k].startValue
      BY <2>1, <2>2, <2>3 DEF Tiling, Sound
    <2> QED BY <2>5, <2>6, <2>7 DEF SegmentsTile
  <1> QED BY <1>1, CodecInvariance, PTL

\* No short run is left behind a bulk when a row is written.
THEOREM NoShortRunLeft ==
  ASSUME Wide
  PROVE  Spec => []NoRunAfterBulk
PROOF
  <1>1. CodecInv => NoRunAfterBulk
    BY DEF CodecInv, MergedAfter, NoRunAfterBulk
  <1> QED BY <1>1, CodecInvariance, PTL
-----------------------------------------------------------------------------
(* What the code of a row means                                            *)

\* Where the decoder stands: the column it writes next, the values of the bulk that
\* are left, and the reference they have.
State(column, left, reference) == [column |-> column, left |-> left, reference |-> reference]

\* P gives the state of the decoder at some positions of the code c of the row r;
\* at p it reads a run, the head of a bulk, a value with a new reference, or a value,
\* and each is right.
Follows(P, c, r, p) ==
  LET a == P[p]
  IN  /\ a.column \in 1 .. Width /\ a.left \in Nat /\ a.column + a.left <= Width + 1
      /\ p <= Len(c)
      /\ \/ /\ a.left = 0 /\ c[p] = ElevationFlag_RLE /\ p + 2 <= Len(c)
            /\ c[p + 1] \in Nat \ {0} /\ a.column + c[p + 1] <= Width + 1
            /\ \A i \in a.column .. a.column + c[p + 1] - 1 : r[i] = c[p + 2]
            /\ p + 3 \in DOMAIN P
            /\ P[p + 3] = State(a.column + c[p + 1], 0, a.reference)
         \/ /\ a.left = 0 /\ c[p] = ElevationFlag_RelativeBulk /\ p + 1 <= Len(c)
            /\ c[p + 1] \in Nat \ {0} /\ a.column + c[p + 1] <= Width + 1
            /\ p + 2 \in DOMAIN P
            /\ P[p + 2] = State(a.column, c[p + 1], 0)
         \/ /\ a.left > 0 /\ c[p] = ElevationFlag_RelativeBulk /\ p + 2 <= Len(c)
            /\ r[a.column] = c[p + 1] + c[p + 2]
            /\ p + 3 \in DOMAIN P
            /\ P[p + 3] = State(a.column + 1, a.left - 1, c[p + 1])
         \/ /\ a.left > 0 /\ c[p] # ElevationFlag_RelativeBulk
            /\ r[a.column] = a.reference + c[p]
            /\ p + 1 \in DOMAIN P
            /\ P[p + 1] = State(a.column + 1, a.left - 1, a.reference)

\* P reads c from its first position to its end, where column and left are reached.
Reads(P, c, r, column, left) ==
  /\ DOMAIN P \subseteq 1 .. Len(c) + 1
  /\ {1, Len(c) + 1} \subseteq DOMAIN P
  /\ P[1] = State(1, 0, 0)
  /\ P[Len(c) + 1].column = column /\ P[Len(c) + 1].left = left
  /\ \A p \in DOMAIN P \ {Len(c) + 1} : Follows(P, c, r, p)

Readable(c, r, column, left) == \E P : Reads(P, c, r, column, left)

\* Numbers written behind others.
LEMMA CodeGrows ==
  ASSUME NEW c \in Seq(Int), NEW d \in Seq(Int)
  PROVE  /\ c \o d \in Seq(Int) /\ Len(c \o d) = Len(c) + Len(d)
         /\ Len(c) \in Nat /\ Len(d) \in Nat
         /\ \A i \in 1 .. Len(c) : (c \o d)[i] = c[i]
         /\ \A i \in 1 .. Len(d) : (c \o d)[Len(c) + i] = d[i]
PROOF
  <1>1. Len(c) \in Nat /\ Len(d) \in Nat
    BY LenProperties
  <1> DEFINE e == c \o d
  <1>2. /\ e \in Seq(Int) /\ Len(e) = Len(c) + Len(d)
        /\ \A i \in 1 .. Len(c) + Len(d) : e[i] = IF i <= Len(c) THEN c[i] ELSE d[i - Len(c)]
    BY ConcatProperties, Zenon
  <1> HIDE DEF e
  <1>3. \A i \in 1 .. Len(c) : e[i] = c[i]
    BY <1>1, <1>2
  <1>4. ASSUME NEW i \in 1 .. Len(d) PROVE e[Len(c) + i] = d[i]
    <2>1. Len(c) + i \in 1 .. Len(c) + Len(d) /\ ~(Len(c) + i <= Len(c)) /\ Len(c) + i - Len(c) = i
      BY <1>1
    <2> QED BY <1>2, <2>1
  <1> QED BY <1>1, <1>2, <1>3, <1>4 DEF e

\* What is read before the end of a code is read the same when more is written.
LEMMA FollowsStill ==
  ASSUME NEW c \in Seq(Int), NEW d \in Seq(Int), NEW r, NEW P, NEW Q, NEW p \in Nat \ {0},
         DOMAIN P \subseteq 1 .. Len(c) + 1,
         DOMAIN P \subseteq DOMAIN Q, \A q \in DOMAIN P : Q[q] = P[q],
         p \in DOMAIN P, Follows(P, c, r, p)
  PROVE  Follows(Q, c \o d, r, p)
PROOF
  <1> DEFINE e == c \o d
  <1>1. /\ Len(c) \in Nat /\ Len(e) \in Nat /\ Len(e) >= Len(c)
        /\ \A i \in 1 .. Len(c) : e[i] = c[i]
    BY CodeGrows
  <1> HIDE DEF e
  <1>2. Q[p] = P[p] /\ p <= Len(c) /\ p <= Len(e)
    BY <1>1 DEF Follows
  <1>3. e[p] = c[p] /\ (p + 1 <= Len(c) => e[p + 1] = c[p + 1])
        /\ (p + 2 <= Len(c) => e[p + 2] = c[p + 2])
    BY SMTT(20), <1>1, <1>2
  <1>4. p + 2 <= Len(c) => p + 1 <= Len(c)
    BY <1>1
  <1>5. \A i \in {p + 1, p + 2} : i <= Len(c) => i <= Len(e)
    BY <1>1
  <1> SUFFICES Follows(Q, e, r, p)
    BY DEF e
  <1> QED BY <1>2, <1>3, <1>4, <1>5 DEF Follows

\* Q goes on where P ends, and reads the code e from its position l + 1.
Onward(Q, P, e, r, l) ==
  /\ DOMAIN P \subseteq DOMAIN Q /\ \A q \in DOMAIN P : Q[q] = P[q]
  /\ DOMAIN Q \subseteq DOMAIN P \union (l + 2 .. Len(e) + 1)
  /\ Len(e) > l /\ Len(e) + 1 \in DOMAIN Q
  /\ \A p \in DOMAIN Q : p \in l + 1 .. Len(e) => Follows(Q, e, r, p)

\* A code that can be read, and more of it that can be read from there.
LEMMA ReadableGrows ==
  ASSUME NEW c \in Seq(Int), NEW d \in Seq(Int), NEW r, NEW column, NEW left,
         NEW P, Reads(P, c, r, column, left),
         NEW Q, Onward(Q, P, c \o d, r, Len(c))
  PROVE  Readable(c \o d, r, Q[Len(c \o d) + 1].column, Q[Len(c \o d) + 1].left)
PROOF
  <1> DEFINE e == c \o d
  <1>1. Len(c) \in Nat /\ Len(e) \in Nat
    BY CodeGrows
  <1>2. /\ DOMAIN P \subseteq 1 .. Len(c) + 1 /\ {1, Len(c) + 1} \subseteq DOMAIN P
        /\ P[1] = State(1, 0, 0)
        /\ \A p \in DOMAIN P \ {Len(c) + 1} : Follows(P, c, r, p)
    BY DEF Reads
  <1>3. ASSUME NEW p \in DOMAIN P \ {Len(c) + 1} PROVE Follows(Q, e, r, p)
    <2>1. p \in Nat \ {0} /\ Follows(P, c, r, p)
      BY <1>1, <1>2
    <2> QED BY <1>2, <2>1, FollowsStill DEF Onward
  <1> HIDE DEF e
  <1>8. Onward(Q, P, e, r, Len(c))
    BY DEF e
  <1>4. ASSUME NEW p \in DOMAIN Q \ {Len(e) + 1} PROVE Follows(Q, e, r, p)
    <2>1. CASE p \in DOMAIN P \ {Len(c) + 1}
      BY <1>3, <2>1
    <2>2. CASE p \notin DOMAIN P \ {Len(c) + 1}
      <3>1. p \in Len(c) + 1 .. Len(e)
        <4>1. p \in DOMAIN P \union (Len(c) + 2 .. Len(e) + 1) /\ Len(e) > Len(c)
          BY <1>8 DEF Onward
        <4>2. CASE p \in DOMAIN P
          BY <1>1, <2>2, <4>1, <4>2
        <4>3. CASE p \in Len(c) + 2 .. Len(e) + 1
          BY <1>1, <4>1, <4>3
        <4> QED BY <4>1, <4>2, <4>3
      <3> QED BY <1>8, <3>1 DEF Onward
    <2> QED BY <2>1, <2>2
  <1>5. DOMAIN Q \subseteq 1 .. Len(e) + 1
    BY <1>1, <1>2, <1>8 DEF Onward
  <1>6. {1, Len(e) + 1} \subseteq DOMAIN Q /\ Q[1] = State(1, 0, 0)
    BY <1>2, <1>8 DEF Onward
  <1>7. Reads(Q, e, r, Q[Len(e) + 1].column, Q[Len(e) + 1].left)
    BY <1>4, <1>5, <1>6 DEF Reads
  <1> QED BY <1>7 DEF Readable, e

-----------------------------------------------------------------------------
(* The code of the row                                                     *)

\* Nothing is read from the empty code.
LEMMA NothingWritten ==
  ASSUME NEW r
  PROVE  Readable(<<>>, r, 1, 0)
PROOF
  <1> DEFINE P == [p \in {1} |-> State(1, 0, 0)]
  <1>1. Len(<<>>) = 0
    OBVIOUS
  <1>2. P[1] = State(1, 0, 0) /\ DOMAIN P = {1}
    OBVIOUS
  <1> HIDE DEF P
  <1>3. Reads(P, <<>>, r, 1, 0)
    BY <1>1, <1>2 DEF Reads, State
  <1> QED BY <1>3 DEF Readable

\* A run of one value.
LEMMA RunWritten ==
  ASSUME NEW c \in Seq(Int), NEW r, NEW column \in 1 .. Width, NEW n \in Nat \ {0}, NEW v \in Int,
         Readable(c, r, column, 0), column + n <= Width + 1,
         \A i \in column .. column + n - 1 : r[i] = v
  PROVE  Readable(c \o <<ElevationFlag_RLE, n, v>>, r, column + n, 0)
PROOF
  <1>1. PICK P : Reads(P, c, r, column, 0)
    BY DEF Readable
  <1> DEFINE d == <<ElevationFlag_RLE, n, v>>
             e == c \o d
             l == Len(c)
             a == P[l + 1]
  <1>0. d \in Seq(Int)
    BY DEF ElevationFlag_RLE
  <1>2. Len(d) = 3 /\ d[1] = ElevationFlag_RLE /\ d[2] = n /\ d[3] = v
    BY DEF ElevationFlag_RLE
  <1> HIDE DEF d
  <1>3. /\ l \in Nat /\ Len(e) = l + Len(d)
        /\ \A i \in 1 .. Len(d) : e[l + i] = d[i]
    BY <1>0, CodeGrows, Zenon
  <1>4. a.column = column /\ a.left = 0 /\ DOMAIN P \subseteq 1 .. l + 1 /\ l + 1 \in DOMAIN P
    BY <1>1 DEF Reads
  <1> HIDE DEF e, l, a
  <1>5. e[l + 1] = ElevationFlag_RLE /\ e[l + 2] = n /\ e[l + 3] = v
    BY <1>2, <1>3
  <1>14. l \in Nat /\ Len(e) = l + 3 /\ Len(e) \in Nat /\ Len(e) > l
    BY <1>2, <1>3
  <1>16. Len(e) + 1 \notin DOMAIN P
    BY <1>4, <1>14
  <1> DEFINE Q == [p \in DOMAIN P \union {Len(e) + 1} |->
                     IF p \in DOMAIN P THEN P[p] ELSE State(column + n, 0, a.reference)]
  <1>6. /\ DOMAIN Q = DOMAIN P \union {Len(e) + 1} /\ \A q \in DOMAIN P : Q[q] = P[q]
        /\ Q[Len(e) + 1] = State(column + n, 0, a.reference)
    BY <1>16
  <1> HIDE DEF Q
  <1>7. Q[l + 1] = a
    BY <1>4, <1>6 DEF a
  <1>8. Follows(Q, e, r, l + 1)
    <2>1. l + 1 + 1 = l + 2 /\ l + 1 + 2 = l + 3 /\ l + 1 + 3 = Len(e) + 1 /\ l + 1 <= Len(e)
      BY <1>14
    <2>2. e[l + 1] = ElevationFlag_RLE /\ e[l + 1 + 1] = n /\ e[l + 1 + 2] = v
      BY <1>5, <2>1
    <2>3. l + 1 + 3 \in DOMAIN Q /\ Q[l + 1 + 3] = State(column + n, 0, a.reference)
      BY <1>6, <2>1
    <2>4. l + 1 + 2 <= Len(e) /\ column + 0 <= Width + 1
      BY <1>14, CodecAssumption
    <2> DEFINE p == l + 1
               b == Q[p]
    <2> HIDE DEF p
    <2>5. b.column = column /\ b.left = 0 /\ b.reference = a.reference
      BY <1>4, <1>7 DEF p
    <2>6. /\ p <= Len(e) /\ p + 2 <= Len(e)
          /\ e[p] = ElevationFlag_RLE /\ e[p + 1] = n /\ e[p + 2] = v
          /\ p + 3 \in DOMAIN Q /\ Q[p + 3] = State(column + n, 0, a.reference)
      BY <2>1, <2>2, <2>3, <2>4 DEF p
    <2> HIDE DEF b
    <2>7. /\ b.column \in 1 .. Width /\ b.left \in Nat /\ b.column + b.left <= Width + 1
          /\ e[p + 1] \in Nat \ {0} /\ b.column + e[p + 1] <= Width + 1
          /\ Q[p + 3] = State(b.column + e[p + 1], 0, b.reference)
      BY <2>4, <2>5, <2>6
    <2>8. \A i \in b.column .. b.column + e[p + 1] - 1 : r[i] = e[p + 2]
      BY <2>5, <2>6
    <2>9. Follows(Q, e, r, p)
      BY <2>5, <2>6, <2>7, <2>8 DEF Follows, b
    <2> QED BY <2>9 DEF p
  <1>9. Q[Len(e) + 1].column = column + n /\ Q[Len(e) + 1].left = 0
    BY <1>6 DEF State
  <1>10. \A p \in DOMAIN Q : p \in l + 1 .. Len(e) => Follows(Q, e, r, p)
    BY <1>4, <1>6, <1>8, <1>14
  <1>11. DOMAIN Q \subseteq DOMAIN P \union (l + 2 .. Len(e) + 1)
    BY <1>6, <1>14
  <1>12. Onward(Q, P, e, r, l)
    BY <1>6, <1>10, <1>11, <1>14 DEF Onward
  <1>13. Readable(e, r, column + n, 0)
    <2>1. Readable(e, r, Q[Len(e) + 1].column, Q[Len(e) + 1].left)
      BY <1>0, <1>1, <1>12, ReadableGrows DEF e, l
    <2> QED BY <1>9, <2>1
  <1> QED BY <1>13 DEF e, d

\* The head of a bulk.
LEMMA HeadWritten ==
  ASSUME NEW c \in Seq(Int), NEW r, NEW column \in 1 .. Width, NEW n \in Nat \ {0},
         Readable(c, r, column, 0), column + n <= Width + 1
  PROVE  Readable(c \o <<ElevationFlag_RelativeBulk, n>>, r, column, n)
PROOF
  <1>1. PICK P : Reads(P, c, r, column, 0)
    BY DEF Readable
  <1> DEFINE d == <<ElevationFlag_RelativeBulk, n>>
             e == c \o d
             l == Len(c)
             a == P[l + 1]
  <1>0. d \in Seq(Int)
    BY DEF ElevationFlag_RelativeBulk
  <1>2. Len(d) = 2 /\ d[1] = ElevationFlag_RelativeBulk /\ d[2] = n
    BY DEF ElevationFlag_RelativeBulk
  <1> HIDE DEF d
  <1>3. /\ l \in Nat /\ Len(e) = l + Len(d)
        /\ \A i \in 1 .. Len(d) : e[l + i] = d[i]
    BY <1>0, CodeGrows, Zenon
  <1>4. a.column = column /\ a.left = 0 /\ DOMAIN P \subseteq 1 .. l + 1 /\ l + 1 \in DOMAIN P
    BY <1>1 DEF Reads
  <1> HIDE DEF e, l, a
  <1>5. e[l + 1] = ElevationFlag_RelativeBulk /\ e[l + 2] = n
    BY <1>2, <1>3
  <1>14. l \in Nat /\ Len(e) = l + 2 /\ Len(e) \in Nat /\ Len(e) > l
    BY <1>2, <1>3
  <1>16. Len(e) + 1 \notin DOMAIN P
    BY <1>4, <1>14
  <1> DEFINE Q == [p \in DOMAIN P \union {Len(e) + 1} |->
                     IF p \in DOMAIN P THEN P[p] ELSE State(column, n, 0)]
  <1>6. /\ DOMAIN Q = DOMAIN P \union {Len(e) + 1} /\ \A q \in DOMAIN P : Q[q] = P[q]
        /\ Q[Len(e) + 1] = State(column, n, 0)
    BY <1>16
  <1> HIDE DEF Q
  <1>7. Q[l + 1] = a
    BY <1>4, <1>6 DEF a
  <1>8. Follows(Q, e, r, l + 1)
    <2>1. l + 1 + 1 = l + 2 /\ l + 1 + 2 = Len(e) + 1 /\ l + 1 <= Len(e)
      BY <1>14
    <2>2. e[l + 1] = ElevationFlag_RelativeBulk /\ e[l + 1 + 1] = n
      BY <1>5, <2>1
    <2>3. l + 1 + 2 \in DOMAIN Q /\ Q[l + 1 + 2] = State(column, n, 0)
      BY <1>6, <2>1
    <2>4. l + 1 + 1 <= Len(e) /\ column + 0 <= Width + 1
      BY <1>14, CodecAssumption
    <2> QED BY SMTT(20), <1>4, <1>7, <2>1, <2>2, <2>3, <2>4 DEF Follows
  <1>9. Q[Len(e) + 1].column = column /\ Q[Len(e) + 1].left = n
    BY <1>6 DEF State
  <1>10. \A p \in DOMAIN Q : p \in l + 1 .. Len(e) => Follows(Q, e, r, p)
    BY <1>4, <1>6, <1>8, <1>14
  <1>11. DOMAIN Q \subseteq DOMAIN P \union (l + 2 .. Len(e) + 1)
    BY <1>6, <1>14
  <1>12. Onward(Q, P, e, r, l)
    BY <1>6, <1>10, <1>11, <1>14 DEF Onward
  <1>13. Readable(e, r, column, n)
    <2>1. Readable(e, r, Q[Len(e) + 1].column, Q[Len(e) + 1].left)
      BY <1>0, <1>1, <1>12, ReadableGrows DEF e, l
    <2> QED BY <1>9, <2>1
  <1> QED BY <1>13 DEF e, d

\* The place of a value among those written.
LEMMA Offset ==
  ASSUME NEW l \in Nat, NEW n \in Nat, NEW p \in Int, p >= l + 4, p <= l + 2 + n
  PROVE  p - (l + 3) \in 1 .. n - 1 /\ p = l + 3 + (p - (l + 3))
PROOF OBVIOUS

\* A reference and the values relative to it, none of which looks like the flag of
\* another reference.
LEMMA ValuesWritten ==
  ASSUME NEW c \in Seq(Int), NEW r, NEW column \in 1 .. Width, NEW left \in Nat \ {0},
         Readable(c, r, column, left), column + left <= Width + 1,
         NEW m \in Int, NEW n \in 1 .. left, NEW f \in [1 .. n -> Int],
         \A k \in 1 .. n : f[k] # ElevationFlag_RelativeBulk /\ r[column + k - 1] = m + f[k]
  PROVE  Readable(c \o (<<ElevationFlag_RelativeBulk, m>> \o f), r, column + n, left - n)
PROOF
  <1>1. PICK P : Reads(P, c, r, column, left)
    BY DEF Readable
  <1> DEFINE h == <<ElevationFlag_RelativeBulk, m>>
             d == h \o f
             e == c \o d
             l == Len(c)
             a == P[l + 1]
             at(k) == State(column + k, left - k, m)
  <1>2. h \in Seq(Int) /\ Len(h) = 2 /\ h[1] = ElevationFlag_RelativeBulk /\ h[2] = m
    BY DEF ElevationFlag_RelativeBulk
  <1>3. f \in Seq(Int) /\ Len(f) = n
    BY FunctionIsSeq
  <1> HIDE DEF h
  <1>4. /\ d \in Seq(Int) /\ Len(d) = n + 2 /\ d[1] = ElevationFlag_RelativeBulk /\ d[2] = m
        /\ \A k \in 1 .. n : d[2 + k] = f[k]
    <2>1. 1 \in 1 .. Len(h) /\ 2 \in 1 .. Len(h)
      BY <1>2
    <2>2. /\ d \in Seq(Int) /\ Len(d) = Len(h) + Len(f)
          /\ \A i \in 1 .. Len(h) : d[i] = h[i]
          /\ \A i \in 1 .. Len(f) : d[Len(h) + i] = f[i]
      BY <1>2, <1>3, CodeGrows
    <2> HIDE DEF d
    <2> QED BY <1>2, <1>3, <2>1, <2>2
  <1> HIDE DEF d
  <1>5. /\ l \in Nat /\ Len(e) = l + Len(d)
        /\ \A i \in 1 .. Len(d) : e[l + i] = d[i]
    <2>1. d \in Seq(Int)
      BY <1>4
    <2> QED BY <2>1, CodeGrows, Zenon
  <1>6. a.column = column /\ a.left = left /\ DOMAIN P \subseteq 1 .. l + 1 /\ l + 1 \in DOMAIN P
    BY <1>1 DEF Reads
  <1> HIDE DEF e, l, a
  <1>7. e[l + 1] = ElevationFlag_RelativeBulk /\ e[l + 2] = m
    BY <1>4, <1>5
  <1>19. l \in Nat /\ Len(e) = l + n + 2 /\ n \in Nat /\ n >= 1 /\ n <= left
    BY <1>4, <1>5
  <1>8. ASSUME NEW k \in 1 .. n PROVE e[l + 2 + k] = f[k]
    <2>1. 2 + k \in 1 .. Len(d) /\ l + (2 + k) = l + 2 + k
      BY <1>4, <1>5
    <2> QED BY <1>4, <1>5, <2>1
  <1> DEFINE D == l + 4 .. l + 3 + n
             Q == [p \in DOMAIN P \union D |-> IF p \in DOMAIN P THEN P[p] ELSE at(p - (l + 3))]
  <1>9. DOMAIN Q = DOMAIN P \union D /\ \A q \in DOMAIN P : Q[q] = P[q]
    OBVIOUS
  <1>10. ASSUME NEW k \in 1 .. n
         PROVE  l + 3 + k \in DOMAIN Q /\ Q[l + 3 + k] = at(k)
    <2>1. l + 3 + k \in D /\ l + 3 + k - (l + 3) = k
      BY <1>19
    <2>2. l + 3 + k \notin DOMAIN P
      BY <1>6, <1>19
    <2> DEFINE x == l + 3 + k
    <2> HIDE DEF x, D, at
    <2>3. x \in DOMAIN Q /\ Q[x] = at(x - (l + 3))
      <3>1. x \in D /\ x \notin DOMAIN P
        BY <2>1, <2>2 DEF x
      <3> QED BY <3>1
    <2>4. x - (l + 3) = k
      BY <1>19 DEF x
    <2> QED BY <2>3, <2>4 DEF x
  <1> HIDE DEF Q
  <1>11. Q[l + 1] = a
    BY <1>6, <1>9 DEF a
  <1>12. Follows(Q, e, r, l + 1)
    <2>1. l + 1 + 1 = l + 2 /\ l + 1 + 2 = l + 2 + 1 /\ l + 1 + 3 = l + 3 + 1 /\ 1 \in 1 .. n
          /\ column + 1 - 1 = column
      BY <1>19
    <2>2. e[l + 1] = ElevationFlag_RelativeBulk /\ e[l + 1 + 1] = m
      BY <1>7, <2>1
    <2>3. r[column] = m + e[l + 1 + 2]
      BY <1>8, <2>1
    <2>4. l + 1 + 3 \in DOMAIN Q /\ Q[l + 1 + 3] = State(column + 1, left - 1, m)
      BY <1>10, <2>1
    <2>5. l + 1 <= Len(e) /\ l + 1 + 2 <= Len(e)
      BY <1>19, CodecAssumption
    <2> DEFINE p == l + 1
               b == Q[p]
    <2> HIDE DEF p
    <2>6. /\ b.column = column /\ b.left = left
          /\ p <= Len(e) /\ p + 2 <= Len(e)
          /\ e[p] = ElevationFlag_RelativeBulk /\ e[p + 1] = m
          /\ r[column] = e[p + 1] + e[p + 2]
          /\ p + 3 \in DOMAIN Q /\ Q[p + 3] = State(column + 1, left - 1, m)
      BY <1>6, <1>11, <2>2, <2>3, <2>4, <2>5 DEF p
    <2>7. left \in Nat /\ left > 0
      OBVIOUS
    <2>8. Follows(Q, e, r, p)
      BY <2>6, <2>7 DEF Follows
    <2> QED BY <2>8 DEF p
  <1>13. ASSUME NEW k \in 1 .. n - 1 PROVE Follows(Q, e, r, l + 3 + k)
    <2>1. /\ k \in 1 .. n /\ k + 1 \in 1 .. n /\ l + 3 + k = l + 2 + (k + 1)
          /\ l + 3 + k + 1 = l + 3 + (k + 1) /\ column + (k + 1) - 1 = column + k
          /\ column + (k + 1) = column + k + 1 /\ left - (k + 1) = left - k - 1
      BY <1>19
    <2>2. Q[l + 3 + k] = State(column + k, left - k, m)
      BY <1>10, <2>1
    <2>3. e[l + 3 + k] = f[k + 1] /\ f[k + 1] # ElevationFlag_RelativeBulk
          /\ r[column + k] = m + f[k + 1]
      BY <1>8, <2>1
    <2>4. l + 3 + k + 1 \in DOMAIN Q
          /\ Q[l + 3 + k + 1] = State(column + k + 1, left - k - 1, m)
      BY <1>10, <2>1
    <2>5. l + 3 + k <= Len(e) /\ column + k \in 1 .. Width /\ left - k \in Nat /\ left - k > 0
          /\ column + k + (left - k) <= Width + 1
      BY <1>19, CodecAssumption
    <2> QED BY <2>2, <2>3, <2>4, <2>5 DEF Follows, State
  <1>14. \A p \in DOMAIN Q : p \in l + 1 .. Len(e) => Follows(Q, e, r, p)
    <2> TAKE p \in DOMAIN Q
    <2> HAVE p \in l + 1 .. Len(e)
    <2>1. CASE p = l + 1
      BY <1>12, <2>1
    <2>2. CASE p # l + 1
      <3>1. p \in D /\ p \in Int
        BY <1>6, <1>9, <1>19, <2>2
      <3>4. p >= l + 4 /\ p <= Len(e)
        BY <3>1
      <3>2. p >= l + 4 /\ p <= l + 2 + n
        BY <1>19, <3>4
      <3>3. p - (l + 3) \in 1 .. n - 1 /\ p = l + 3 + (p - (l + 3))
        BY <1>19, <3>1, <3>2, Offset
      <3> QED BY <1>13, <3>3
    <2> QED BY <2>1, <2>2
  <1>15. Len(e) + 1 \in DOMAIN Q /\ Q[Len(e) + 1].column = column + n
         /\ Q[Len(e) + 1].left = left - n
    <2>1. n \in 1 .. n /\ Len(e) + 1 = l + 3 + n
      BY <1>19, CodecAssumption
    <2>2. l + 3 + n \in DOMAIN Q /\ Q[l + 3 + n] = State(column + n, left - n, m)
      BY <1>10, <2>1
    <2>3. Len(e) + 1 \in DOMAIN Q /\ Q[Len(e) + 1] = State(column + n, left - n, m)
      BY <2>1, <2>2
    <2> QED BY <2>3 DEF State
  <1>16. DOMAIN Q \subseteq DOMAIN P \union (l + 2 .. Len(e) + 1) /\ Len(e) > l
    BY SMTT(20), <1>9, <1>19
  <1>17. Onward(Q, P, e, r, l)
    BY <1>9, <1>14, <1>15, <1>16 DEF Onward
  <1>18. Readable(e, r, column + n, left - n)
    <2>1. Readable(e, r, Q[Len(e) + 1].column, Q[Len(e) + 1].left)
      BY <1>1, <1>4, <1>17, ReadableGrows DEF e, l
    <2> QED BY <1>15, <2>1
  <1> QED BY <1>18 DEF e, d, h


\* What the code of the row is worth while it is written.
WrittenInv ==
  /\ code \in Seq(Int)
  /\ stage \in {"Idle", "Scan", "Merge"} => code = <<>>
  /\ stage = "Write" => Readable(code, row, elevation, 0)
  /\ stage = "WriteBulk" => Readable(code, row, elevation, end - elevation + 1)

LEMMA NotWritten ==
  ASSUME WrittenInv,
         \/ BeginRow \/ ScanSegment \/ EndScan \/ KeepSegment \/ MergeSegment \/ EndMerge
         \/ NextRow \/ UNCHANGED vars
  PROVE  WrittenInv'
PROOF
  <1>1. CASE BeginRow \/ ScanSegment \/ EndScan \/ KeepSegment \/ MergeSegment
    <2>1. stage \in {"Idle", "Scan", "Merge"} /\ stage' \in {"Scan", "Merge"} /\ code' = code
      BY <1>1 DEF BeginRow, ScanSegment, EndScan, KeepSegment, MergeSegment
    <2> QED BY <2>1 DEF WrittenInv
  <1>2. CASE EndMerge
    <2>1. code' = <<>> /\ stage' = "Write" /\ elevation' = 1
      BY <1>2 DEF EndMerge, WrittenInv
    <2>2. Readable(<<>>, row', 1, 0) /\ <<>> \in Seq(Int)
      BY NothingWritten, EmptySeq
    <2>3. Readable(code', row', elevation', 0)
      BY <2>1, <2>2
    <2> QED BY <2>1, <2>2, <2>3 DEF WrittenInv
  <1>3. CASE NextRow
    <2>1. code' = <<>> /\ stage' = "Idle" /\ <<>> \in Seq(Int)
      BY <1>3, EmptySeq DEF NextRow
    <2> QED BY <2>1 DEF WrittenInv
  <1>4. CASE UNCHANGED vars
    BY <1>4 DEF vars, WrittenInv
  <1> QED BY <1>1, <1>2, <1>3, <1>4

LEMMA RunIsWritten ==
  ASSUME CodecInv, WrittenInv, WriteRun
  PROVE  WrittenInv'
PROOF
  <1>1. /\ stage = "Write" /\ stage' = "Write" /\ row' = row
        /\ code' = code \o <<ElevationFlag_RLE, segments[s].numElements, segments[s].startValue>>
        /\ elevation' = elevation + segments[s].numElements
        /\ s <= Len(segments) /\ segments[s].flag = ElevationFlag_RLE
    BY DEF WriteRun, Writing
  <1>2. s \in 1 .. Len(segments) /\ elevation = segments[s].from
    BY <1>1, WritingState DEF CodecInv, Place
  <1>3. /\ segments[s].from \in Nat /\ segments[s].numElements \in Nat
        /\ segments[s].numElements >= 1 /\ segments \in Seq(RowSegment)
        /\ Tiling(segments, row, Width)
    BY <1>1, <1>2, WritingState
  <1>4. segments[s].startValue \in Int /\ segments[s].from \in 1 .. Width
    BY <1>2, <1>3, ElementOfSeq, SegmentType, CodecAssumption
  <1> DEFINE n == segments[s].numElements
             v == segments[s].startValue
  <1>5. /\ segments[s].from + n - 1 <= Width
        /\ \A i \in segments[s].from .. segments[s].from + n - 1 : row[i] = v
    BY <1>1, <1>2, <1>3 DEF Tiling, Sound, End
  <1>6. n \in Nat \ {0} /\ v \in Int /\ elevation \in 1 .. Width
    BY <1>2, <1>3, <1>4
  <1>7. elevation + n <= Width + 1
    BY SMTT(20), <1>2, <1>5, <1>6, CodecAssumption
  <1>8. \A i \in elevation .. elevation + n - 1 : row[i] = v
    BY <1>2, <1>5
  <1> HIDE DEF n, v
  <1>9. Readable(code \o <<ElevationFlag_RLE, n, v>>, row, elevation + n, 0)
    BY <1>1, <1>6, <1>7, <1>8, RunWritten DEF WrittenInv
  <1>10. code \o <<ElevationFlag_RLE, n, v>> \in Seq(Int)
    <2>1. <<ElevationFlag_RLE, n, v>> \in Seq(Int)
      BY <1>6 DEF ElevationFlag_RLE
    <2> QED BY <2>1, Concatenation DEF WrittenInv
  <1> QED BY <1>1, <1>9, <1>10 DEF WrittenInv, n, v

LEMMA HeadIsWritten ==
  ASSUME CodecInv, WrittenInv, WriteBulk
  PROVE  WrittenInv'
PROOF
  <1>1. /\ stage = "Write" /\ stage' = "WriteBulk" /\ row' = row /\ elevation' = elevation
        /\ code' = code \o <<ElevationFlag_RelativeBulk, segments[s].numElements>>
        /\ end' = elevation + segments[s].numElements - 1
        /\ s <= Len(segments)
    BY DEF WriteBulk, Writing
  <1>2. s \in 1 .. Len(segments) /\ elevation = segments[s].from
    BY <1>1, WritingState DEF CodecInv, Place
  <1>3. /\ segments[s].from \in Nat /\ segments[s].numElements \in Nat
        /\ segments[s].numElements >= 1 /\ segments \in Seq(RowSegment)
        /\ Tiling(segments, row, Width)
    BY <1>1, <1>2, WritingState
  <1>4. segments[s].from \in 1 .. Width
    BY <1>2, <1>3, ElementOfSeq, SegmentType, CodecAssumption
  <1> DEFINE n == segments[s].numElements
  <1>5. segments[s].from + n - 1 <= Width
    BY <1>2, <1>3 DEF Tiling, End
  <1>6. n \in Nat \ {0} /\ elevation \in 1 .. Width
    BY <1>2, <1>3, <1>4
  <1>8. end' = elevation + n - 1 /\ elevation + n - 1 <= Width
    BY <1>1, <1>2, <1>5
  <1> HIDE DEF n
  <1>7. elevation + n <= Width + 1
    BY <1>6, <1>8, CodecAssumption
  <1>9. Readable(code \o <<ElevationFlag_RelativeBulk, n>>, row, elevation, n)
    BY <1>1, <1>6, <1>7, HeadWritten DEF WrittenInv
  <1>10. code \o <<ElevationFlag_RelativeBulk, n>> \in Seq(Int)
    <2>1. <<ElevationFlag_RelativeBulk, n>> \in Seq(Int)
      BY <1>6 DEF ElevationFlag_RelativeBulk
    <2> QED BY <2>1, Concatenation DEF WrittenInv
  <1>11. end' - elevation' + 1 = n
    BY <1>1, <1>6, <1>8
  <1> QED BY <1>1, <1>9, <1>10, <1>11 DEF WrittenInv, n

\* Where three codes are put together does not matter.
LEMMA ThreeCoded ==
  ASSUME NEW a \in Seq(Int), NEW b \in Seq(Int), NEW c \in Seq(Int)
  PROVE  (a \o b) \o c = a \o (b \o c)
PROOF BY ConcatOfThree

LEMMA ValuesAreWritten ==
  ASSUME CodecInv, WrittenInv, WriteSubSegment
  PROVE  WrittenInv'
PROOF
  <1>1. /\ stage = "WriteBulk" /\ stage' = stage /\ row' = row /\ end' = end
        /\ elevation <= end
    BY DEF WriteSubSegment
  <1>2. PICK j \in elevation .. end : \E m \in elevation .. j :
          /\ Near(elevation, j) /\ elevation' = j + 1
          /\ \A k \in elevation .. j : row[m] <= row[k]
          /\ code' = code \o <<ElevationFlag_RelativeBulk, row[m]>>
                          \o [k \in 1 .. j - elevation + 1 |-> row[elevation + k - 1] - row[m]]
    BY DEF WriteSubSegment
  <1>3. PICK m \in elevation .. j :
          /\ Near(elevation, j) /\ elevation' = j + 1
          /\ \A k \in elevation .. j : row[m] <= row[k]
          /\ code' = code \o <<ElevationFlag_RelativeBulk, row[m]>>
                          \o [k \in 1 .. j - elevation + 1 |-> row[elevation + k - 1] - row[m]]
    BY <1>2
  <1>4. /\ s \in 1 .. Len(segments) /\ end = End(segments[s])
        /\ elevation \in segments[s].from .. end + 1
    BY <1>1 DEF CodecInv, Place
  <1>5. /\ segments[s].from \in Nat /\ end \in Nat /\ row \in [Columns -> Values]
        /\ Tiling(segments, row, Width) /\ segments \in Seq(RowSegment)
    BY <1>1, <1>4, WritingState
  <1>6. end <= Width /\ segments[s].from >= 1
    <2>1. segments[s].from >= 1
      BY <1>4, <1>5, ElementOfSeq, SegmentType, CodecAssumption
    <2> QED BY <1>4, <1>5, <2>1 DEF Tiling
  <1>7. elevation \in 1 .. Width /\ j \in elevation .. Width /\ m \in elevation .. j
        /\ j \in 1 .. Width /\ m \in 1 .. Width
    BY <1>1, <1>4, <1>5, <1>6, CodecAssumption
  <1>8. \A k \in 1 .. Width : row[k] \in Int
    BY <1>5, CodecAssumption DEF Columns
  <1> DEFINE n == j - elevation + 1
             left == end - elevation + 1
             f == [k \in 1 .. n |-> row[elevation + k - 1] - row[m]]
             v == row[m]
             h == <<ElevationFlag_RelativeBulk, v>>
  <1>9. /\ left \in Nat \ {0} /\ n \in 1 .. left /\ elevation + left <= Width + 1
        /\ elevation + n = j + 1 /\ left - n = end - (j + 1) + 1
    BY <1>5, <1>6, <1>7, CodecAssumption
  <1>10. ASSUME NEW k \in 1 .. n
         PROVE  elevation + k - 1 \in elevation .. j /\ elevation + k - 1 \in 1 .. Width
    BY <1>7, CodecAssumption
  <1>11. v \in Int
    BY <1>7, <1>8
  <1>12. f \in [1 .. n -> Int]
    <2>1. \A k \in 1 .. n : row[elevation + k - 1] - row[m] \in Int
      BY <1>7, <1>8, <1>10
    <2> QED BY <2>1
  <1>13. ASSUME NEW k \in 1 .. n
         PROVE  f[k] # ElevationFlag_RelativeBulk /\ row[elevation + k - 1] = v + f[k]
    <2> DEFINE i == elevation + k - 1
    <2>1. f[k] = row[i] - v /\ row[i] \in Int
      BY <1>8, <1>10
    <2>2. row[i] - v < ElevationFlag_RelativeBulk
      BY <1>3, <1>10 DEF Near
    <2> HIDE DEF f, v, i
    <2>3. f[k] # ElevationFlag_RelativeBulk /\ row[i] = v + f[k]
      BY <1>11, <2>1, <2>2 DEF ElevationFlag_RelativeBulk
    <2> QED BY <2>3 DEF i
  <1>14. h \in Seq(Int) /\ f \in Seq(Int)
    <2>1. h \in Seq(Int)
      BY <1>11 DEF ElevationFlag_RelativeBulk
    <2> HIDE DEF f
    <2>2. f \in Seq(Int)
      BY <1>9, <1>12, FunctionIsSeq
    <2> QED BY <2>1, <2>2
  <1>15. code' = code \o h \o f
    BY <1>3
  <1> HIDE DEF f, n, left, v, h
  <1>16. code' = code \o (h \o f) /\ code' \in Seq(Int)
    <2>1. code \in Seq(Int)
      BY DEF WrittenInv
    <2>2. code \o h \o f = code \o (h \o f)
      BY <1>14, <2>1, ThreeCoded, Zenon
    <2>3. code \o h \o f \in Seq(Int)
      BY <1>14, <2>1, Concatenation
    <2> QED BY <1>15, <2>2, <2>3
  <1>17. Readable(code, row, elevation, left)
    BY <1>1 DEF WrittenInv, left
  <1>18. Readable(code \o (<<ElevationFlag_RelativeBulk, v>> \o f), row, elevation + n, left - n)
    <2>1. code \in Seq(Int)
      BY DEF WrittenInv
    <2> QED BY <1>7, <1>9, <1>11, <1>12, <1>13, <1>17, <2>1, ValuesWritten
  <1>19. Readable(code', row', elevation', end' - elevation' + 1)
    <2>1. elevation' = elevation + n /\ end' - elevation' + 1 = left - n
      BY <1>1, <1>3, <1>9
    <2> QED BY <1>1, <1>16, <1>18, <2>1 DEF h
  <1> QED BY <1>1, <1>16, <1>19 DEF WrittenInv

LEMMA BulkIsWritten ==
  ASSUME CodecInv, WrittenInv, EndBulk
  PROVE  WrittenInv'
PROOF
  <1>1. /\ stage = "WriteBulk" /\ stage' = "Write" /\ elevation > end
        /\ row' = row /\ elevation' = elevation /\ code' = code
    BY DEF EndBulk
  <1>2. s \in 1 .. Len(segments) /\ end = End(segments[s])
        /\ elevation \in segments[s].from .. end + 1
    BY <1>1 DEF CodecInv, Place
  <1>3. segments[s].from \in Nat /\ end \in Nat
    BY <1>1, <1>2, WritingState
  <1>4. end - elevation + 1 = 0
    BY <1>1, <1>2, <1>3
  <1> QED BY <1>1, <1>4 DEF WrittenInv

\* The decoder does not touch the code.
LEMMA StaysWritten ==
  ASSUME WrittenInv,
         \/ EndWrite \/ ReadRun \/ ReadBulk \/ ReadUnknown \/ ReadValue
         \/ Corrupt \/ Overrun \/ EndRow
  PROVE  WrittenInv'
PROOF
  <1>1. code' = code /\ stage' \in {"Read", "Decoded", "Corrupt", "Overrun"}
    BY DEF EndWrite, ReadRun, ReadBulk, ReadUnknown, ReadValue, Corrupt, Overrun,
       EndRow, Reading
  <1> QED BY <1>1 DEF WrittenInv

-----------------------------------------------------------------------------
(* The decoder on what the coder wrote                                     *)

\* The decoder stands at the position p of the code, and what it has written is the row.
Decoding(P, p) ==
  /\ row \in [Columns -> Values]
  /\ Reads(P, code, row, Width + 1, 0) /\ p \in DOMAIN P
  /\ rest \in Seq(Int) /\ Len(rest) = Len(code) - p + 1
  /\ \A i \in 1 .. Len(rest) : rest[i] = code[p + i - 1]
  /\ image \in Seq(Int) /\ Len(image) = P[p].column - 1
  /\ \A i \in 1 .. Len(image) : image[i] = row[i]
  /\ bulk = [left |-> P[p].left, reference |-> P[p].reference]

DecodedInv ==
  /\ stage = "Read" => \E P : \E p \in DOMAIN P : Decoding(P, p)
  /\ stage = "Decoded" => image = [i \in Columns |-> row[i]] /\ rest = <<>>
  /\ stage = "Idle" => row = <<>>
  /\ stage \notin {"Corrupt", "Overrun"}

\* What is before the decoder.
LEMMA AtHand ==
  ASSUME NEW P, NEW p, Decoding(P, p), code \in Seq(Int)
  PROVE  /\ p \in Nat \ {0} /\ Len(image) \in Nat /\ Len(rest) \in Nat
         /\ \/ rest = <<>> /\ Len(image) = Width /\ bulk.left = 0
            \/ /\ Len(image) < Width
               /\ \/ /\ bulk.left = 0 /\ Len(rest) >= 3 /\ rest[1] = ElevationFlag_RLE
                     /\ rest[2] \in Nat \ {0} /\ Len(image) + rest[2] <= Width
                     /\ \A i \in 1 .. rest[2] : row[Len(image) + i] = rest[3]
                     /\ p + 3 \in DOMAIN P
                     /\ P[p + 3] = State(Len(image) + rest[2] + 1, 0, bulk.reference)
                  \/ /\ bulk.left = 0 /\ Len(rest) >= 2 /\ rest[1] = ElevationFlag_RelativeBulk
                     /\ rest[2] \in Nat \ {0} /\ Len(image) + rest[2] <= Width
                     /\ p + 2 \in DOMAIN P
                     /\ P[p + 2] = State(Len(image) + 1, rest[2], 0)
                  \/ /\ bulk.left \in Nat /\ bulk.left > 0 /\ Len(rest) >= 3
                     /\ rest[1] = ElevationFlag_RelativeBulk
                     /\ row[Len(image) + 1] = rest[2] + rest[3]
                     /\ p + 3 \in DOMAIN P
                     /\ P[p + 3] = State(Len(image) + 2, bulk.left - 1, rest[2])
                  \/ /\ bulk.left \in Nat /\ bulk.left > 0 /\ Len(rest) >= 1
                     /\ rest[1] # ElevationFlag_RelativeBulk
                     /\ row[Len(image) + 1] = bulk.reference + rest[1]
                     /\ p + 1 \in DOMAIN P
                     /\ P[p + 1] = State(Len(image) + 2, bulk.left - 1, bulk.reference)
PROOF
  <1> DEFINE a == P[p]
             g == Len(code)
             l == Len(image)
             t == Len(rest)
  <1>1. /\ g \in Nat /\ l \in Nat /\ t \in Nat /\ p \in 1 .. g + 1
        /\ t = g - p + 1 /\ l = a.column - 1 /\ bulk.left = a.left /\ bulk.reference = a.reference
    BY LenProperties DEF Decoding, Reads
  <1>2. CASE p = g + 1
    <2>1. a.column = Width + 1 /\ a.left = 0
      BY <1>2 DEF Decoding, Reads
    <2>2. t = 0
      BY <1>1, <1>2
    <2>3. rest = <<>>
      BY <2>2, EmptySeq DEF Decoding
    <2>4. l = Width
      BY <1>1, <2>1, CodecAssumption
    <2> QED BY <1>1, <2>1, <2>3, <2>4
  <1>3. CASE p # g + 1
    <2>1. Follows(P, code, row, p)
      BY <1>3 DEF Decoding, Reads
    <2>2. \A i \in 1 .. t : rest[i] = code[p + i - 1]
      BY DEF Decoding
    <2>3. a.column \in 1 .. Width /\ a.left \in Nat /\ a.column + a.left <= Width + 1 /\ p <= g
      BY <2>1 DEF Follows
    <2> HIDE DEF a, g, l, t
    <2>4. a.column = l + 1 /\ l < Width /\ t >= 1 /\ l + a.left <= Width /\ p \in Nat \ {0}
          /\ (p + 1 <= g => t >= 2) /\ (p + 2 <= g => t >= 3)
      BY SMTT(20), <1>1, <1>3, <2>3, CodecAssumption
    <2>5. p + 1 - 1 = p /\ p + 2 - 1 = p + 1 /\ p + 3 - 1 = p + 2
      BY <2>4
    <2>6. rest[1] = code[p] /\ (t >= 2 => rest[2] = code[p + 1]) /\ (t >= 3 => rest[3] = code[p + 2])
      <3>1. 1 \in 1 .. t /\ (t >= 2 => 2 \in 1 .. t) /\ (t >= 3 => 3 \in 1 .. t)
        BY <1>1, <2>4
      <3> QED BY <2>2, <2>5, <3>1
    <2>7. CASE /\ a.left = 0 /\ code[p] = ElevationFlag_RLE /\ p + 2 <= g
               /\ code[p + 1] \in Nat \ {0} /\ a.column + code[p + 1] <= Width + 1
               /\ \A i \in a.column .. a.column + code[p + 1] - 1 : row[i] = code[p + 2]
               /\ p + 3 \in DOMAIN P
               /\ P[p + 3] = State(a.column + code[p + 1], 0, a.reference)
      <3> DEFINE n == code[p + 1]
                 v == code[p + 2]
      <3>1. rest[1] = ElevationFlag_RLE /\ rest[2] = n /\ rest[3] = v /\ t >= 3
        BY <1>1, <2>4, <2>6, <2>7
      <3>2. n \in Nat \ {0} /\ l + 1 + n <= Width + 1
        BY <2>4, <2>7
      <3>3. \A i \in l + 1 .. l + 1 + n - 1 : row[i] = v
        BY <2>4, <2>7
      <3>4. P[p + 3] = State(l + 1 + n, 0, a.reference)
        BY <2>4, <2>7
      <3> HIDE DEF n, v
      <3>5. l + n <= Width /\ l + 1 + n = l + n + 1
        BY <1>1, <3>2, CodecAssumption
      <3>6. ASSUME NEW i \in 1 .. n PROVE row[l + i] = v
        <4>1. l + i \in l + 1 .. l + 1 + n - 1
          BY <1>1, <3>2
        <4> QED BY <3>3, <4>1
      <3> QED BY <1>1, <2>4, <2>7, <3>1, <3>2, <3>4, <3>5, <3>6 DEF l, t, a
    <2>8. CASE /\ a.left = 0 /\ code[p] = ElevationFlag_RelativeBulk /\ p + 1 <= g
               /\ code[p + 1] \in Nat \ {0} /\ a.column + code[p + 1] <= Width + 1
               /\ p + 2 \in DOMAIN P
               /\ P[p + 2] = State(a.column, code[p + 1], 0)
      <3> DEFINE n == code[p + 1]
      <3>1. rest[1] = ElevationFlag_RelativeBulk /\ rest[2] = n /\ t >= 2
        BY <1>1, <2>4, <2>6, <2>8
      <3>2. n \in Nat \ {0} /\ l + 1 + n <= Width + 1 /\ P[p + 2] = State(l + 1, n, 0)
        BY <2>4, <2>8
      <3> HIDE DEF n
      <3>3. l + n <= Width
        BY <1>1, <3>2, CodecAssumption
      <3> QED BY <1>1, <2>4, <2>8, <3>1, <3>2, <3>3 DEF l, t, a
    <2>9. CASE /\ a.left > 0 /\ code[p] = ElevationFlag_RelativeBulk /\ p + 2 <= g
               /\ row[a.column] = code[p + 1] + code[p + 2]
               /\ p + 3 \in DOMAIN P
               /\ P[p + 3] = State(a.column + 1, a.left - 1, code[p + 1])
      <3>1. rest[1] = ElevationFlag_RelativeBulk /\ t >= 3 /\ rest[2] = code[p + 1]
            /\ rest[3] = code[p + 2]
        BY <1>1, <2>4, <2>6, <2>9
      <3>2. a.column + 1 = l + 2
        BY <1>1, <2>4
      <3>3. row[l + 1] = rest[2] + rest[3] /\ P[p + 3] = State(l + 2, a.left - 1, rest[2])
        BY <2>4, <2>9, <3>1, <3>2
      <3> QED BY <1>1, <2>3, <2>4, <2>9, <3>1, <3>3 DEF l, t, a
    <2>10. CASE /\ a.left > 0 /\ code[p] # ElevationFlag_RelativeBulk
                /\ row[a.column] = a.reference + code[p]
                /\ p + 1 \in DOMAIN P
                /\ P[p + 1] = State(a.column + 1, a.left - 1, a.reference)
      <3>1. rest[1] # ElevationFlag_RelativeBulk /\ t >= 1 /\ rest[1] = code[p]
        BY <2>4, <2>6, <2>10
      <3>2. a.column + 1 = l + 2
        BY <1>1, <2>4
      <3>3. row[l + 1] = a.reference + rest[1] /\ P[p + 1] = State(l + 2, a.left - 1, a.reference)
        BY <2>4, <2>10, <3>1, <3>2
      <3> QED BY <1>1, <2>3, <2>4, <2>10, <3>1, <3>3 DEF l, t, a
    <2> QED BY <2>1, <2>7, <2>8, <2>9, <2>10 DEF Follows, a, g
  <1> QED BY <1>2, <1>3

\* What is left when the first numbers are dropped, and where it stands.
LEMMA DroppedAt ==
  ASSUME NEW q \in Seq(Int), NEW n \in Nat, n <= Len(q)
  PROVE  /\ Drop(q, n) \in Seq(Int) /\ Len(Drop(q, n)) = Len(q) - n
         /\ \A i \in 1 .. Len(q) - n : Drop(q, n)[i] = q[n + i]
PROOF BY RestOfSeq DEF Drop

LEMMA ShiftedIndex ==
  ASSUME NEW n \in Nat, NEW t \in Nat, NEW p \in Nat, n <= t, NEW i \in 1 .. t - n
  PROVE  n + i \in 1 .. t /\ p + (n + i) - 1 = p + n + i - 1
PROOF OBVIOUS

\* Some numbers were read, and they said what to write.
LEMMA DecodesOn ==
  ASSUME NEW P, NEW p, Decoding(P, p), code \in Seq(Int), p \in Nat \ {0},
         NEW n \in Nat, n <= Len(rest), p + n \in DOMAIN P,
         rest' = Drop(rest, n), code' = code, row' = row,
         NEW d \in Seq(Int), image' = image \o d,
         Len(image) + Len(d) = P[p + n].column - 1,
         \A i \in 1 .. Len(d) : d[i] = row[Len(image) + i],
         bulk' = [left |-> P[p + n].left, reference |-> P[p + n].reference]
  PROVE  \E q \in DOMAIN P : Decoding(P, q)'
PROOF
  <1>1. rest \in Seq(Int) /\ Len(rest) \in Nat /\ Len(rest) = Len(code) - p + 1
        /\ Len(code) \in Nat /\ (\A i \in 1 .. Len(rest) : rest[i] = code[p + i - 1])
    BY LenProperties DEF Decoding
  <1>2. rest' \in Seq(Int) /\ Len(rest') = Len(rest) - n
        /\ \A i \in 1 .. Len(rest) - n : rest'[i] = rest[n + i]
    <2>1. /\ Drop(rest, n) \in Seq(Int) /\ Len(Drop(rest, n)) = Len(rest) - n
          /\ \A i \in 1 .. Len(rest) - n : Drop(rest, n)[i] = rest[n + i]
      <3>1. rest \in Seq(Int)
        BY <1>1
      <3> QED BY <3>1, DroppedAt, Zenon
    <2> DEFINE e == Drop(rest, n)
    <2> HIDE DEF e
    <2> QED BY <2>1 DEF e
  <1> DEFINE t == Len(rest)
             g == Len(code)
  <1> HIDE DEF t, g
  <1>3. t \in Nat /\ g \in Nat /\ t = g - p + 1 /\ Len(rest') = t - n
        /\ n <= t
    BY <1>1, <1>2 DEF t, g
  <1>4. Len(rest') = g - (p + n) + 1
    BY <1>3
  <1>5. ASSUME NEW i \in 1 .. Len(rest') PROVE rest'[i] = code[p + n + i - 1]
    <2>0. i \in 1 .. t - n
      BY <1>3
    <2>1. n + i \in 1 .. t /\ i \in 1 .. t - n /\ p + (n + i) - 1 = p + n + i - 1
      BY <1>3, <2>0, ShiftedIndex
    <2>2. rest'[i] = rest[n + i] /\ rest[n + i] = code[p + (n + i) - 1]
      BY <1>1, <1>2, <2>1 DEF t
    <2> QED BY <2>1, <2>2
  <1>6. /\ image' \in Seq(Int) /\ Len(image') = Len(image) + Len(d)
        /\ Len(image) \in Nat /\ Len(d) \in Nat
        /\ \A i \in 1 .. Len(image) : image'[i] = image[i]
        /\ \A i \in 1 .. Len(d) : image'[Len(image) + i] = d[i]
    <2>1. image \in Seq(Int)
      BY DEF Decoding
    <2> QED BY <2>1, CodeGrows
  <1>7. ASSUME NEW i \in 1 .. Len(image') PROVE image'[i] = row[i]
    <2> DEFINE l == Len(image)
               k == i - l
    <2> HIDE DEF l
    <2>1. l \in Nat /\ Len(d) \in Nat /\ i \in 1 .. l + Len(d)
      BY <1>6 DEF l
    <2>2. CASE i \in 1 .. l
      BY <1>6, <2>2 DEF Decoding, l
    <2>3. CASE i \notin 1 .. l
      <3>1. k \in 1 .. Len(d) /\ l + k = i
        BY <2>1, <2>3
      <3> HIDE DEF k
      <3>2. image'[l + k] = d[k] /\ d[k] = row[l + k]
        BY <1>6, <3>1 DEF l
      <3> QED BY <3>1, <3>2
    <2> QED BY <2>2, <2>3
  <1>8. row' \in [Columns -> Values] /\ Reads(P, code', row', Width + 1, 0)
    BY DEF Decoding
  <1>9. Decoding(P, p + n)'
    BY <1>2, <1>4, <1>5, <1>6, <1>7, <1>8 DEF Decoding, g
  <1> QED BY <1>9


LEMMA DecodingBegins ==
  ASSUME CodecInv, WrittenInv, EndWrite
  PROVE  DecodedInv'
PROOF
  <1>1. /\ stage = "Write" /\ s > Len(segments) /\ stage' = "Read"
        /\ rest' = code /\ image' = <<>> /\ bulk' = NoBulk /\ row' = row /\ code' = code
    BY DEF EndWrite
  <1>2. elevation = Width + 1 /\ row \in [Columns -> Values]
    <2>1. s \in 1 .. Len(segments) + 1 /\ Len(segments) \in Nat
      BY <1>1, WritingState DEF CodecInv, Place
    <2>2. elevation = IF s <= Len(segments) THEN segments[s].from ELSE Width + 1
      BY <1>1 DEF CodecInv, Place
    <2> QED BY <1>1, <2>1, <2>2, WritingState
  <1>3. code \in Seq(Int) /\ Readable(code, row, Width + 1, 0)
    BY <1>1, <1>2 DEF WrittenInv
  <1>4. PICK P : Reads(P, code, row, Width + 1, 0)
    BY <1>3 DEF Readable
  <1>5. 1 \in DOMAIN P /\ P[1] = State(1, 0, 0) /\ Len(code) \in Nat
    BY <1>3, <1>4, LenProperties DEF Reads
  <1>6. /\ image' \in Seq(Int) /\ Len(image') = P[1].column - 1
        /\ \A i \in 1 .. Len(image') : image'[i] = row[i]
    BY <1>1, <1>5, EmptySeq DEF State
  <1>7. /\ rest' \in Seq(Int) /\ Len(rest') = Len(code) - 1 + 1
        /\ \A i \in 1 .. Len(rest') : rest'[i] = code[1 + i - 1]
    BY <1>1, <1>3, <1>5
  <1>8. bulk' = [left |-> P[1].left, reference |-> P[1].reference]
    BY <1>1, <1>5 DEF NoBulk, State
  <1>9. Decoding(P, 1)'
    BY <1>1, <1>2, <1>4, <1>5, <1>6, <1>7, <1>8 DEF Decoding
  <1>10. \E q \in DOMAIN P : Decoding(P, q)'
    BY <1>5, <1>9
  <1> QED BY <1>1, <1>10 DEF DecodedInv

LEMMA RunIsDecoded ==
  ASSUME WrittenInv, DecodedInv, ReadRun
  PROVE  DecodedInv'
PROOF
  <1>1. /\ stage = "Read" /\ stage' = stage /\ bulk.left = 0 /\ Len(image) < Width
        /\ rest[1] = ElevationFlag_RLE
        /\ image' = image \o [k \in 1 .. rest[2] |-> rest[3]] /\ rest' = Drop(rest, 3)
        /\ row' = row /\ code' = code /\ bulk' = bulk
    BY DEF ReadRun, Reading
  <1>2. code \in Seq(Int)
    BY DEF WrittenInv
  <1>3. PICK P, p : p \in DOMAIN P /\ Decoding(P, p)
    BY <1>1 DEF DecodedInv
  <1>4. /\ p \in Nat \ {0} /\ Len(image) \in Nat /\ Len(rest) \in Nat /\ Len(rest) >= 3
        /\ rest[2] \in Nat \ {0}
        /\ \A i \in 1 .. rest[2] : row[Len(image) + i] = rest[3]
        /\ p + 3 \in DOMAIN P
        /\ P[p + 3] = State(Len(image) + rest[2] + 1, 0, bulk.reference)
    <2>1. ElevationFlag_RLE # ElevationFlag_RelativeBulk
      BY DEF ElevationFlag_RLE, ElevationFlag_RelativeBulk
    <2> QED BY <1>1, <1>2, <1>3, <2>1, AtHand
  <1> DEFINE n == rest[2]
             d == [k \in 1 .. n |-> rest[3]]
  <1>5. rest[3] \in Int
    <2>1. rest \in Seq(Int) /\ 3 \in 1 .. Len(rest)
      BY <1>3, <1>4 DEF Decoding
    <2> QED BY <2>1, ElementOfSeq
  <1>6. d \in Seq(Int) /\ Len(d) = n
    BY <1>4, <1>5, Repetition
  <1>7. \A i \in 1 .. Len(d) : d[i] = row[Len(image) + i]
    <2>1. \A i \in 1 .. n : d[i] = rest[3]
      OBVIOUS
    <2> QED BY <1>4, <1>6, <2>1
  <1>8. bulk' = [left |-> P[p + 3].left, reference |-> P[p + 3].reference]
    <2>1. bulk = [left |-> bulk.left, reference |-> bulk.reference]
      BY <1>3 DEF Decoding
    <2>2. P[p + 3].left = 0 /\ P[p + 3].reference = bulk.reference
      BY <1>4 DEF State
    <2> QED BY <1>1, <2>1, <2>2
  <1>9. image' = image \o d
    BY <1>1
  <1> HIDE DEF d
  <1>10. Len(image) + Len(d) = P[p + 3].column - 1
    BY <1>4, <1>6 DEF State
  <1>11. \E q \in DOMAIN P : Decoding(P, q)'
    <2>1. p \in Nat \ {0} /\ 3 \in Nat /\ 3 <= Len(rest) /\ p + 3 \in DOMAIN P /\ d \in Seq(Int)
      BY <1>4, <1>6
    <2>2. rest' = Drop(rest, 3) /\ code' = code /\ row' = row
      BY <1>1
    <2> QED BY <1>2, <1>3, <1>7, <1>8, <1>9, <1>10, <2>1, <2>2, DecodesOn
  <1> QED BY <1>1, <1>11 DEF DecodedInv

LEMMA HeadIsDecoded ==
  ASSUME WrittenInv, DecodedInv, ReadBulk
  PROVE  DecodedInv'
PROOF
  <1>1. /\ stage = "Read" /\ stage' = stage /\ bulk.left = 0 /\ Len(image) < Width
        /\ rest[1] = ElevationFlag_RelativeBulk
        /\ image' = image /\ rest' = Drop(rest, 2)
        /\ row' = row /\ code' = code /\ bulk' = [left |-> rest[2], reference |-> 0]
    BY DEF ReadBulk, Reading
  <1>2. code \in Seq(Int)
    BY DEF WrittenInv
  <1>3. PICK P, p : p \in DOMAIN P /\ Decoding(P, p)
    BY <1>1 DEF DecodedInv
  <1>4. /\ p \in Nat \ {0} /\ Len(image) \in Nat /\ Len(rest) \in Nat /\ Len(rest) >= 2
        /\ p + 2 \in DOMAIN P /\ P[p + 2] = State(Len(image) + 1, rest[2], 0)
    <2>1. ElevationFlag_RLE # ElevationFlag_RelativeBulk
      BY DEF ElevationFlag_RLE, ElevationFlag_RelativeBulk
    <2> QED BY <1>1, <1>2, <1>3, <2>1, AtHand
  <1>5. <<>> \in Seq(Int) /\ Len(<<>>) = 0 /\ image' = image \o <<>>
    BY <1>1, <1>3, EmptySeq, ConcatEmptySeq DEF Decoding
  <1>6. bulk' = [left |-> P[p + 2].left, reference |-> P[p + 2].reference]
    BY <1>1, <1>4 DEF State
  <1>7. Len(image) + Len(<<>>) = P[p + 2].column - 1
    BY <1>4, <1>5 DEF State
  <1>8. \A i \in 1 .. Len(<<>>) : <<>>[i] = row[Len(image) + i]
    BY <1>5
  <1>9. \E q \in DOMAIN P : Decoding(P, q)'
    BY <1>1, <1>2, <1>3, <1>4, <1>5, <1>6, <1>7, <1>8, DecodesOn
  <1> QED BY <1>1, <1>9 DEF DecodedInv

LEMMA ValueIsDecoded ==
  ASSUME WrittenInv, DecodedInv, ReadValue
  PROVE  DecodedInv'
PROOF
  <1>1. stage = "Read" /\ stage' = stage /\ bulk.left > 0 /\ row' = row /\ code' = code
    BY DEF ReadValue
  <1>2. code \in Seq(Int)
    BY DEF WrittenInv
  <1>3. PICK P, p : p \in DOMAIN P /\ Decoding(P, p)
    BY <1>1 DEF DecodedInv
  <1>4. /\ rest \in Seq(Int) /\ image \in Seq(Int)
        /\ bulk = [left |-> bulk.left, reference |-> bulk.reference]
    BY <1>3 DEF Decoding
  <1>5. p \in Nat \ {0} /\ Len(image) \in Nat /\ Len(rest) \in Nat /\ rest # <<>>
        /\ bulk.left \in Nat
        /\ \/ /\ Len(rest) >= 3 /\ HasReference
              /\ row[Len(image) + 1] = rest[2] + rest[3]
              /\ p + 3 \in DOMAIN P
              /\ P[p + 3] = State(Len(image) + 2, bulk.left - 1, rest[2])
           \/ /\ Len(rest) >= 1 /\ ~HasReference
              /\ row[Len(image) + 1] = bulk.reference + rest[1]
              /\ p + 1 \in DOMAIN P
              /\ P[p + 1] = State(Len(image) + 2, bulk.left - 1, bulk.reference)
    <2>1. ~(bulk.left = 0)
      BY <1>1
    <2>2. rest = <<>> => Len(rest) = 0
      BY EmptySeq
    <2> QED BY <1>2, <1>3, <2>1, <2>2, AtHand DEF HasReference
  <1>6. ASSUME NEW n \in {1, 3}, n <= Len(rest), p + n \in DOMAIN P, NEW m,
               P[p + n] = State(Len(image) + 2, bulk.left - 1, m),
               rest' = Drop(rest, n), NEW v \in Int, image' = Append(image, v),
               v = row[Len(image) + 1],
               bulk' = [left |-> bulk.left - 1, reference |-> m]
        PROVE  \E q \in DOMAIN P : Decoding(P, q)'
    <2> DEFINE d == <<v>>
    <2>1. d \in Seq(Int) /\ Len(d) = 1 /\ d[1] = v
      OBVIOUS
    <2>2. image' = image \o d
      BY <1>4, <1>6, AppendIsConcat
    <2> HIDE DEF d
    <2>3. \A i \in 1 .. Len(d) : d[i] = row[Len(image) + i]
      BY <1>6, <2>1
    <2>4. Len(image) + Len(d) = P[p + n].column - 1
      BY <1>5, <1>6, <2>1 DEF State
    <2>5. bulk' = [left |-> P[p + n].left, reference |-> P[p + n].reference]
      BY <1>6 DEF State
    <2>6. n \in Nat
      OBVIOUS
    <2>7. p \in Nat \ {0}
      BY <1>5
    <2> QED BY <1>1, <1>2, <1>3, <1>6, <2>1, <2>2, <2>3, <2>4, <2>5, <2>6, <2>7, DecodesOn
  <1>7. CASE HasReference
    <2>1. /\ bulk' = [left |-> bulk.left - 1, reference |-> rest[2]]
          /\ image' = Append(image, rest[2] + rest[3])
          /\ rest' = Drop(rest, 3)
      BY <1>7 DEF ReadValue
    <2>2. rest[2] \in Int /\ rest[3] \in Int
      BY SMTT(20), <1>4, <1>5, <1>7, ElementOfSeq
    <2>3. \E q \in DOMAIN P : Decoding(P, q)'
      BY SMTT(20), <1>5, <1>6, <1>7, <2>1, <2>2
    <2> QED BY <1>1, <2>3 DEF DecodedInv
  <1>8. CASE ~HasReference
    <2>1. /\ bulk' = [bulk EXCEPT !.left = @ - 1]
          /\ image' = Append(image, bulk.reference + rest[1])
          /\ rest' = Drop(rest, 1)
      BY <1>8 DEF ReadValue
    <2>2. bulk' = [left |-> bulk.left - 1, reference |-> bulk.reference]
      BY <1>4, <2>1
    <2>3. rest[1] \in Int /\ row[Len(image) + 1] = bulk.reference + rest[1]
      BY <1>4, <1>5, <1>8, ElementOfSeq
    <2>4. bulk.reference + rest[1] \in Int
      <3>1. P[p].column - 1 = Len(image) /\ row \in [Columns -> Values] /\ Len(image) < Width
        <4>1. bulk.left # 0
          BY <1>1
        <4> QED BY <1>2, <1>3, <4>1, AtHand DEF Decoding
      <3>2. Len(image) + 1 \in Columns
        BY <1>5, <3>1, CodecAssumption DEF Columns
      <3>3. row[Len(image) + 1] \in Int
        BY <3>1, <3>2, CodecAssumption
      <3> QED BY <2>3, <3>3
    <2>5. \E q \in DOMAIN P : Decoding(P, q)'
      BY <1>5, <1>6, <1>8, <2>1, <2>2, <2>3, <2>4
    <2> QED BY <1>1, <2>5 DEF DecodedInv
  <1> QED BY <1>7, <1>8

LEMMA RowIsDecoded ==
  ASSUME WrittenInv, DecodedInv, EndRow
  PROVE  DecodedInv'
PROOF
  <1>1. /\ stage = "Read" /\ stage' = "Decoded" /\ Len(image) = Width
        /\ row' = row /\ rest' = rest /\ image' = image
    BY DEF EndRow, decoder
  <1>2. PICK P, p : p \in DOMAIN P /\ Decoding(P, p)
    BY <1>1 DEF DecodedInv
  <1>3. rest = <<>>
    <2>1. code \in Seq(Int)
      BY DEF WrittenInv
    <2> QED BY <1>1, <1>2, <2>1, AtHand, CodecAssumption
  <1>4. image \in Seq(Int) /\ \A i \in 1 .. Len(image) : image[i] = row[i]
    BY <1>2 DEF Decoding
  <1>5. image = [i \in Columns |-> row[i]]
    <2>1. DOMAIN image = 1 .. Width /\ image = [i \in DOMAIN image |-> image[i]]
      BY <1>1, <1>4, LenProperties
    <2> QED BY <1>1, <1>4, <2>1 DEF Columns
  <1> QED BY <1>1, <1>3, <1>5 DEF DecodedInv

\* The decoder neither gives up nor passes over anything nor reads too far.
LEMMA NeverLost ==
  ASSUME WrittenInv, DecodedInv
  PROVE  ~(ReadUnknown \/ Corrupt \/ Overrun)
PROOF
  <1> SUFFICES ASSUME ReadUnknown \/ Corrupt \/ Overrun PROVE FALSE
    OBVIOUS
  <1>1. stage = "Read"
    BY DEF ReadUnknown, Corrupt, Overrun, Reading
  <1>2. PICK P, p : p \in DOMAIN P /\ Decoding(P, p)
    BY <1>1 DEF DecodedInv
  <1>3. code \in Seq(Int)
    BY DEF WrittenInv
  <1>4. ElevationFlag_RLE # ElevationFlag_RelativeBulk
    BY DEF ElevationFlag_RLE, ElevationFlag_RelativeBulk
  <1>5. CASE ReadUnknown
    <2>1. /\ bulk.left = 0 /\ Len(image) < Width
          /\ rest[1] \notin {ElevationFlag_RLE, ElevationFlag_RelativeBulk}
      BY <1>5 DEF ReadUnknown, Reading
    <2> QED BY <1>2, <1>3, <2>1, AtHand, CodecAssumption
  <1>6. CASE Corrupt
    <2>1. bulk.left = 0 /\ Len(image) < Width /\ Len(image) + rest[2] > Width
      BY <1>6 DEF Corrupt, Reading, TooLong
    <2>2. Len(image) + rest[2] <= Width /\ rest[2] \in Nat /\ Len(image) \in Nat
      BY <1>2, <1>3, <2>1, AtHand, CodecAssumption
    <2> QED BY <2>1, <2>2, CodecAssumption
  <1>7. CASE Overrun
    <2>1. CASE bulk.left > 0
      <3>1. rest = <<>> \/ (HasReference /\ Len(rest) < 3)
        BY <1>7, <2>1 DEF Overrun
      <3>2. /\ bulk.left # 0 /\ Len(rest) \in Nat /\ Len(rest) >= 1
            /\ rest[1] = ElevationFlag_RelativeBulk => Len(rest) >= 3
        BY <1>2, <1>3, <2>1, AtHand
      <3>3. Len(<<>>) = 0
        BY EmptySeq
      <3> QED BY <3>1, <3>2, <3>3 DEF HasReference
    <2>2. CASE ~(bulk.left > 0)
      <3>1. /\ Len(image) < Width
            /\ Len(rest) < 2 \/ (Reading({ElevationFlag_RLE}) /\ Len(rest) < 3)
        BY <1>7, <2>2 DEF Overrun
      <3>2. /\ Len(rest) \in Nat /\ Len(rest) >= 2
            /\ rest[1] = ElevationFlag_RLE => Len(rest) >= 3
        BY <1>2, <1>3, <1>4, <2>2, <3>1, AtHand, CodecAssumption
      <3> QED BY <3>1, <3>2 DEF Reading
    <2> QED BY <2>1, <2>2
  <1> QED BY <1>5, <1>6, <1>7

LEMMA NotDecoded ==
  ASSUME DecodedInv,
         \/ BeginRow \/ ScanSegment \/ EndScan \/ KeepSegment \/ MergeSegment \/ EndMerge
         \/ WriteRun \/ WriteBulk \/ WriteSubSegment \/ EndBulk
         \/ NextRow \/ UNCHANGED vars
  PROVE  DecodedInv'
PROOF
  <1>1. CASE NextRow
    BY <1>1 DEF NextRow, DecodedInv
  <1>2. CASE UNCHANGED vars
    BY <1>2 DEF vars, DecodedInv, Decoding
  <1>3. CASE ~(NextRow \/ UNCHANGED vars)
    <2>1. stage' \in {"Scan", "Merge", "Write", "WriteBulk"}
      BY <1>3 DEF BeginRow, ScanSegment, EndScan, KeepSegment, MergeSegment, EndMerge,
         WriteRun, WriteBulk, WriteSubSegment, EndBulk, Writing
    <2> QED BY <2>1 DEF DecodedInv
  <1> QED BY <1>1, <1>2, <1>3

LEMMA RoundTripStep ==
  ASSUME CodecInv, WrittenInv, DecodedInv, [Next]_vars
  PROVE  WrittenInv' /\ DecodedInv'
PROOF
  <1>1. WrittenInv'
    BY NotWritten, RunIsWritten, HeadIsWritten, ValuesAreWritten, BulkIsWritten, StaysWritten
       DEF Next
  <1>2. DecodedInv'
    BY DecodingBegins, RunIsDecoded, HeadIsDecoded, ValueIsDecoded, RowIsDecoded, NeverLost,
       NotDecoded DEF Next
  <1> QED BY <1>1, <1>2

\* In an image wider than the runs that are merged, every row is decoded to what it was,
\* and the decoder neither gives up nor reads past the code of the row.
THEOREM RoundTripAlways ==
  ASSUME Wide
  PROVE  Spec => []RoundTrip
PROOF
  <1>1. Init => WrittenInv /\ DecodedInv
    BY EmptySeq DEF Init, WrittenInv, DecodedInv
  <1>2. DecodedInv => RoundTrip
    BY DEF DecodedInv, RoundTrip
  <1> QED BY <1>1, <1>2, CodecInvariance, RoundTripStep, PTL DEF Spec

-----------------------------------------------------------------------------
(* The bytes a row takes                                                   *)

\* Bytes that the segments before the k-th may take beyond four for each pixel.
Slack(k) == IF k = 1 \/ Back(segments[k - 1], row) THEN 0 ELSE 3

\* What two equal values at the ends of a bulk save.
FrontSaves(g) == IF Front(g, row) THEN 3 ELSE 0
BackSaves(g) == IF Back(g, row) THEN 3 ELSE 0

SizeInv ==
  /\ size \in Nat
  /\ stage \in {"Idle", "Scan", "Merge"} => size = 0
  /\ stage = "Write" => size <= 4 * (elevation - 1) + Slack(s)
  /\ stage = "WriteBulk" =>
       LET g == segments[s]
       IN  /\ g.flag = ElevationFlag_RelativeBulk
           /\ elevation = g.from => size <= 4 * (elevation - 1) + Slack(s) + 3
           /\ elevation > g.from =>
                size <= 4 * (elevation - 1) + Slack(s) + 3 - FrontSaves(g)
                          - (IF elevation > end THEN BackSaves(g) ELSE 0)
           /\ elevation > g.from /\ elevation <= end => row[elevation] # row[elevation - 1]
  /\ stage \in {"Read", "Decoded", "Corrupt", "Overrun"} => size <= 4 * Width + 3

\* Where two segments meet, one of them saves the bytes the other may need.
LEMMA SlackIsSaved ==
  ASSUME CodecInv, stage \in {"Write", "WriteBulk"}, s \in 1 .. Len(segments)
  PROVE  /\ Slack(s) \in {0, 3} /\ FrontSaves(segments[s]) \in {0, 3}
         /\ BackSaves(segments[s]) \in {0, 3}
         /\ Slack(s) <= FrontSaves(segments[s])
         /\ Slack(s + 1) = 3 - BackSaves(segments[s])
PROOF
  <1>1. Tiling(segments, row, Width) /\ Len(segments) \in Nat
    BY WritingState
  <1>2. s > 1 => Back(segments[s - 1], row) \/ Front(segments[s], row)
    <2>1. s > 1 => s \in 2 .. Len(segments)
      BY <1>1
    <2> QED BY <1>1, <2>1 DEF Tiling
  <1>3. Slack(s) <= FrontSaves(segments[s])
    <2>1. s = 1 \/ s > 1
      BY <1>1
    <2> QED BY <1>2, <2>1 DEF Slack, FrontSaves
  <1>4. s + 1 # 1 /\ s + 1 - 1 = s
    BY <1>1
  <1> QED BY <1>3, <1>4 DEF Slack, FrontSaves, BackSaves

LEMMA PairFits ==
  ASSUME NEW z \in Nat, NEW e \in Nat, NEW n \in Nat, NEW w \in {0, 3},
         z <= 4 * (e - 1) + w, n >= 2
  PROVE  z + 5 <= 4 * (e + n - 1) + 0
PROOF OBVIOUS

LEMMA SingleFits ==
  ASSUME NEW z \in Nat, NEW e \in Nat, NEW n \in Nat,
         z <= 4 * (e - 1) + 0, n >= 1, ~(n >= 2)
  PROVE  z + 5 <= 4 * (e + n - 1) + 3
PROOF OBVIOUS

\* The numbers of a sub-segment, by what the ends of its bulk save.
LEMMA ValuesFit ==
  ASSUME NEW z \in Nat, NEW e \in Nat, NEW n \in Nat, NEW h \in Nat, NEW j \in Nat, NEW t \in Nat,
         NEW w \in {0, 3}, NEW f \in {0, 3}, NEW b \in {0, 3}, w <= f, n >= 1, e >= h,
         e = h => z <= 4 * (e - 1) + w + 3,
         e > h => z <= 4 * (e - 1) + w + 3 - f,
         f = 3 /\ e = h => n >= 2, b = 3 /\ j = t => n >= 2,
         f = 3 /\ b = 3 /\ e = h /\ j = t => n >= 3
  PROVE  z + 3 + n <= 4 * (e + n - 1) + w + 3 - f - (IF j = t THEN b ELSE 0)
PROOF
  <1>1. CASE e = h
    <2>1. CASE j = t
      BY <1>1, <2>1
    <2>2. CASE j # t
      BY <1>1, <2>2
    <2> QED BY <2>1, <2>2
  <1>2. CASE e > h
    <2>1. CASE j = t
      BY <1>2, <2>1
    <2>2. CASE j # t
      BY <1>2, <2>2
    <2> QED BY <2>1, <2>2
  <1> QED BY <1>1, <1>2

LEMMA RunSize ==
  ASSUME CodecInv, SizeInv, WriteRun
  PROVE  SizeInv'
PROOF
  <1>1. /\ stage = "Write" /\ stage' = "Write" /\ s' = s + 1 /\ size' = size + 5
        /\ elevation' = elevation + segments[s].numElements
        /\ segments' = segments /\ row' = row
        /\ s <= Len(segments) /\ segments[s].flag = ElevationFlag_RLE
    BY DEF WriteRun, Writing
  <1>2. s \in 1 .. Len(segments) /\ elevation = segments[s].from
    BY <1>1, WritingState DEF CodecInv, Place
  <1>3. /\ segments[s].from \in Nat /\ segments[s].numElements \in Nat
        /\ segments[s].numElements >= 1 /\ Tiling(segments, row, Width)
    BY <1>1, <1>2, WritingState
  <1> DEFINE g == segments[s]
             n == g.numElements
  <1>4. n >= 2 => Back(g, row)
    <2> SUFFICES ASSUME n >= 2 PROVE row[End(g)] = row[End(g) - 1]
      BY DEF Back
    <2>1. \A i \in g.from .. End(g) : row[i] = g.startValue
      BY <1>1, <1>2, <1>3 DEF Tiling, Sound
    <2>2. End(g) \in g.from .. End(g) /\ End(g) - 1 \in g.from .. End(g)
      BY <1>3 DEF End
    <2> QED BY <2>1, <2>2
  <1>5. ~(n >= 2) => ~Front(g, row) /\ ~Back(g, row)
    BY DEF Front, Back
  <1>6. /\ Slack(s) \in {0, 3} /\ Slack(s) <= FrontSaves(g)
        /\ Slack(s + 1) = 3 - BackSaves(g)
    BY <1>1, <1>2, SlackIsSaved
  <1>7. size \in Nat /\ size <= 4 * (elevation - 1) + Slack(s)
    BY <1>1 DEF SizeInv
  <1>8. size + 5 <= 4 * (elevation + n - 1) + Slack(s + 1)
    <2>1. elevation \in Nat /\ n \in Nat /\ n >= 1
      BY <1>2, <1>3
    <2>2. CASE n >= 2
      <3>1. Slack(s + 1) = 0 /\ Slack(s) \in {0, 3}
        BY <1>4, <1>6, <2>2 DEF BackSaves
      <3> QED BY <1>7, <2>1, <2>2, <3>1, PairFits
    <2>3. CASE ~(n >= 2)
      <3>1. Slack(s + 1) = 3 /\ Slack(s) = 0
        BY <1>5, <1>6, <2>3 DEF BackSaves, FrontSaves
      <3> QED BY <1>7, <2>1, <2>3, <3>1, SingleFits
    <2> QED BY <2>2, <2>3
  <1>9. Slack(s)' = Slack(s + 1)
    BY <1>1 DEF Slack
  <1>10. size' \in Nat /\ size' <= 4 * (elevation' - 1) + Slack(s)'
    <2>1. elevation' - 1 = elevation + n - 1
      BY <1>1, <1>2, <1>3
    <2>2. size' \in Nat
      BY <1>1, <1>7
    <2> QED BY <1>1, <1>8, <1>9, <2>1, <2>2
  <1> QED BY <1>1, <1>10 DEF SizeInv

LEMMA HeadSize ==
  ASSUME CodecInv, SizeInv, WriteBulk
  PROVE  SizeInv'
PROOF
  <1>1. /\ stage = "Write" /\ stage' = "WriteBulk" /\ s' = s /\ size' = size + 3
        /\ elevation' = elevation /\ segments' = segments /\ row' = row
        /\ s <= Len(segments) /\ segments[s].flag = ElevationFlag_RelativeBulk
    BY DEF WriteBulk, Writing
  <1>2. s \in 1 .. Len(segments) /\ elevation = segments[s].from
    BY <1>1, WritingState DEF CodecInv, Place
  <1>3. segments[s].from \in Nat
    BY <1>1, <1>2, WritingState
  <1>4. size \in Nat /\ size <= 4 * (elevation - 1) + Slack(s) /\ Slack(s) \in {0, 3}
    BY <1>1, <1>2, SlackIsSaved DEF SizeInv
  <1>5. Slack(s)' = Slack(s)
    BY <1>1 DEF Slack
  <1>6. size' \in Nat /\ size' <= 4 * (elevation' - 1) + Slack(s)' + 3
    BY SMTT(20), <1>1, <1>2, <1>3, <1>4, <1>5
  <1>7. elevation' = segments'[s'].from /\ ~(elevation' > segments'[s'].from)
    BY <1>1, <1>2, <1>3
  <1> QED BY <1>1, <1>6, <1>7 DEF SizeInv

\* Where a sub-segment ends, and how long it is at the ends of its bulk.
LEMMA SubSegmentEnds ==
  ASSUME CodecInv, SizeInv, stage = "WriteBulk", elevation <= end,
         NEW j \in elevation .. end, Near(elevation, j), j < end => ~Near(elevation, j + 1)
  PROVE  /\ segments[s].from \in Nat /\ elevation \in Nat /\ j \in Nat /\ end \in Nat
         /\ elevation >= segments[s].from
         /\ j < end => row[j + 1] # row[j]
         /\ Front(segments[s], row) /\ elevation = segments[s].from => j - elevation + 1 >= 2
         /\ Back(segments[s], row) /\ j = end => j - elevation + 1 >= 2
         /\ Front(segments[s], row) /\ Back(segments[s], row)
              /\ elevation = segments[s].from /\ j = end => j - elevation + 1 >= 3
PROOF
  <1>3. /\ s \in 1 .. Len(segments) /\ end = End(segments[s])
        /\ elevation \in segments[s].from .. end + 1
    BY DEF CodecInv, Place
  <1>4. /\ segments[s].from \in Nat /\ end \in Nat /\ row \in [Columns -> Values]
        /\ Tiling(segments, row, Width) /\ segments[s].numElements \in Nat
    BY <1>3, WritingState
  <1> DEFINE g == segments[s]
             n == j - elevation + 1
  <1>6. Sound(g, row) /\ end = g.from + g.numElements - 1
    BY <1>3, <1>4 DEF Tiling, End
  <1>7. elevation \in Nat /\ j \in Nat /\ n \in Nat /\ n >= 1 /\ g.from \in Nat
        /\ elevation >= g.from /\ j <= end
    BY SMTT(20), <1>3, <1>4
  <1>8. ASSUME j < end PROVE row[j + 1] # row[j]
    <2> SUFFICES ASSUME row[j + 1] = row[j] PROVE FALSE
      OBVIOUS
    <2>1. PICK k \in elevation .. j + 1, l \in elevation .. j + 1 :
            ~(row[k] - row[l] < ElevationFlag_RelativeBulk)
      BY <1>8 DEF Near
    <2>2. \A i \in elevation .. j + 1 : \E h \in elevation .. j : row[h] = row[i]
      <3> TAKE i \in elevation .. j + 1
      <3>1. i \in elevation .. j \/ i = j + 1
        BY <1>7
      <3>2. j \in elevation .. j
        BY <1>7
      <3> QED BY <3>1, <3>2
    <2>3. PICK h \in elevation .. j : row[h] = row[k]
      BY <2>2
    <2>4. PICK i \in elevation .. j : row[i] = row[l]
      BY <2>2
    <2>5. row[h] - row[i] < ElevationFlag_RelativeBulk
      <3>1. Near(elevation, j)
        OBVIOUS
      <3> QED BY <2>3, <2>4, <3>1, Zenon DEF Near
    <2> QED BY <2>1, <2>3, <2>4, <2>5
  <1>9. elevation > g.from => row[elevation] # row[elevation - 1]
    BY <1>7 DEF SizeInv
  <1>10. Front(g, row) /\ elevation = g.from => n >= 2
    <2> SUFFICES ASSUME Front(g, row), elevation = g.from PROVE n >= 2
      OBVIOUS
    <2>1. g.numElements >= 2 /\ row[elevation] = row[elevation + 1]
      BY DEF Front
    <2>2. CASE j < end
      <3>1. j # elevation
        BY <1>8, <2>1, <2>2
      <3> QED BY <1>7, <3>1
    <2>3. CASE j = end
      BY <1>4, <1>6, <1>7, <2>1, <2>3
    <2> QED BY <1>4, <1>7, <2>2, <2>3
  <1>11. Back(g, row) /\ j = end => n >= 2
    <2> SUFFICES ASSUME Back(g, row), j = end PROVE n >= 2
      OBVIOUS
    <2>1. g.numElements >= 2 /\ row[end] = row[end - 1]
      BY <1>3 DEF Back
    <2>2. CASE elevation = g.from
      BY <1>4, <1>6, <1>7, <2>1, <2>2
    <2>3. CASE elevation > g.from
      <3>1. elevation # end
        <4>1. row[elevation] # row[elevation - 1]
          BY <1>9, <2>3
        <4> QED BY <2>1, <4>1
      <3> QED BY <1>7, <3>1
    <2> QED BY <1>7, <2>2, <2>3
  <1>12. Front(g, row) /\ Back(g, row) /\ elevation = g.from /\ j = end => n >= 3
    <2> SUFFICES ASSUME Front(g, row), Back(g, row), elevation = g.from, j = end PROVE n >= 3
      OBVIOUS
    <2>2. g.numElements = n
      BY <1>4, <1>6, <1>7
    <2>3. g.flag = ElevationFlag_RelativeBulk
      BY DEF SizeInv
    <2> QED BY <1>6, <2>2, <2>3 DEF Sound
  <1> QED BY <1>4, <1>7, <1>8, <1>10, <1>11, <1>12

LEMMA ValuesSize ==
  ASSUME CodecInv, SizeInv, WriteSubSegment
  PROVE  SizeInv'
PROOF
  <1>1. /\ stage = "WriteBulk" /\ stage' = stage /\ row' = row /\ end' = end
        /\ segments' = segments /\ s' = s /\ elevation <= end
    BY DEF WriteSubSegment
  <1>2. PICK j \in elevation .. end :
          /\ Near(elevation, j)
          /\ j < end => ~Near(elevation, j + 1)
          /\ size' = size + 3 + (j - elevation + 1) /\ elevation' = j + 1
    BY DEF WriteSubSegment
  <1>3. /\ s \in 1 .. Len(segments) /\ end = End(segments[s])
        /\ elevation \in segments[s].from .. end + 1
    BY <1>1 DEF CodecInv, Place
  <1>4. /\ segments[s].from \in Nat /\ end \in Nat /\ row \in [Columns -> Values]
        /\ Tiling(segments, row, Width) /\ segments[s].numElements \in Nat
    BY <1>1, <1>3, WritingState
  <1> DEFINE g == segments[s]
             n == j - elevation + 1
             f == FrontSaves(g)
             b == BackSaves(g)
             sl == Slack(s)
  <1>5. sl \in {0, 3} /\ f \in {0, 3} /\ b \in {0, 3} /\ sl <= f
    BY <1>1, <1>3, SlackIsSaved
  <1>6. Sound(g, row) /\ end = g.from + g.numElements - 1
    BY <1>3, <1>4 DEF Tiling, End
  <1>7. elevation \in Nat /\ j \in Nat /\ n \in Nat /\ n >= 1 /\ g.from \in Nat
        /\ elevation >= g.from /\ j <= end
    BY SMTT(20), <1>2, <1>3, <1>4
  <1>8. /\ j < end => row[j + 1] # row[j]
        /\ Front(g, row) /\ elevation = g.from => n >= 2
        /\ Back(g, row) /\ j = end => n >= 2
        /\ Front(g, row) /\ Back(g, row) /\ elevation = g.from /\ j = end => n >= 3
    BY <1>1, <1>2, SubSegmentEnds
  <1>9. /\ size \in Nat /\ size' \in Nat
        /\ elevation = g.from => size <= 4 * (elevation - 1) + sl + 3
        /\ elevation > g.from => size <= 4 * (elevation - 1) + sl + 3 - f
        /\ elevation > g.from => row[elevation] # row[elevation - 1]
    <2>1. /\ size \in Nat
          /\ elevation = g.from => size <= 4 * (elevation - 1) + sl + 3
          /\ elevation > g.from =>
               size <= 4 * (elevation - 1) + sl + 3 - f - (IF elevation > end THEN b ELSE 0)
          /\ elevation > g.from /\ elevation <= end => row[elevation] # row[elevation - 1]
      BY <1>1 DEF SizeInv
    <2>2. ~(elevation > end)
      BY <1>1, <1>4, <1>7
    <2>3. size' = size + 3 + n
      BY <1>2
    <2> HIDE DEF n, f, sl, b, g
    <2> QED BY <1>1, <1>5, <1>7, <2>1, <2>2, <2>3
  <1>10. f = 3 /\ elevation = g.from => n >= 2
    BY <1>8 DEF FrontSaves
  <1>11. b = 3 /\ j = end => n >= 2
    BY <1>8 DEF BackSaves
  <1>12. f = 3 /\ b = 3 /\ elevation = g.from /\ j = end => n >= 3
    BY <1>8 DEF FrontSaves, BackSaves
  <1>13. size' <= 4 * (elevation' - 1) + sl + 3 - f - (IF elevation' > end THEN b ELSE 0)
    <2>1. /\ size' = size + 3 + n /\ elevation' = j + 1 /\ j = elevation + n - 1
          /\ elevation' - 1 = elevation + n - 1
      BY <1>2, <1>7
    <2>2. end \in Nat /\ (elevation' > end <=> j = end)
      BY <1>4, <1>7, <2>1
    <2> HIDE DEF n, f, sl, b, g
    <2>5. size + 3 + n <= 4 * (elevation + n - 1) + sl + 3 - f - (IF j = end THEN b ELSE 0)
      BY <1>5, <1>7, <1>9, <1>10, <1>11, <1>12, <2>2, ValuesFit
    <2> QED BY <2>1, <2>2, <2>5
  <1>14. elevation' > g.from
    BY <1>2, <1>7
  <1>15. elevation' <= end => row[elevation'] # row[elevation' - 1]
    <2> SUFFICES ASSUME elevation' <= end PROVE row[j + 1] # row[j + 1 - 1]
      BY <1>2
    <2>1. j < end /\ j + 1 - 1 = j
      BY <1>2, <1>4, <1>7
    <2> QED BY <1>8, <2>1
  <1>16. Slack(s)' = sl /\ FrontSaves(g)' = f /\ BackSaves(g)' = b
    BY <1>1 DEF Slack, FrontSaves, BackSaves, Front, Back, End
  <1>17. segments'[s'] = g /\ elevation' # g.from
    BY <1>1, <1>7, <1>14
  <1>18. /\ size' \in Nat /\ stage' = "WriteBulk" /\ segments[s]' = g
         /\ g.flag = ElevationFlag_RelativeBulk
    <2>1. g.flag = ElevationFlag_RelativeBulk
      BY <1>1 DEF SizeInv
    <2> QED BY <1>1, <1>9, <2>1
  <1>19. size' <= 4 * (elevation' - 1) + Slack(s)' + 3 - FrontSaves(g)'
                    - (IF elevation' > end' THEN BackSaves(g)' ELSE 0)
    BY <1>1, <1>13, <1>16
  <1>20. elevation' > g.from /\ elevation' # g.from
         /\ (elevation' <= end' => row'[elevation'] # row'[elevation' - 1])
    BY <1>1, <1>14, <1>15, <1>17
  <1> QED BY <1>18, <1>19, <1>20, Zenon DEF SizeInv


\* At its end a bulk has saved what the segment after it may need.
LEMMA EndBulkSize ==
  ASSUME CodecInv, SizeInv, EndBulk
  PROVE  SizeInv'
PROOF
  <1>1. /\ stage = "WriteBulk" /\ stage' = "Write" /\ s' = s + 1 /\ size' = size
        /\ elevation' = elevation /\ segments' = segments /\ row' = row
        /\ elevation > end
    BY DEF EndBulk
  <1>2. /\ s \in 1 .. Len(segments) /\ end = End(segments[s])
        /\ elevation \in segments[s].from .. end + 1
    BY <1>1 DEF CodecInv, Place
  <1>3. /\ segments[s].from \in Nat /\ end \in Nat /\ segments[s].from <= end
    BY <1>1, <1>2, WritingState
  <1>4. elevation \in Nat /\ elevation > segments[s].from
    BY <1>1, <1>2, <1>3
  <1>5. /\ size \in Nat
        /\ size <= 4 * (elevation - 1) + Slack(s) + 3 - FrontSaves(segments[s])
                    - BackSaves(segments[s])
    BY <1>1, <1>4 DEF SizeInv
  <1>6. /\ Slack(s) \in {0, 3} /\ FrontSaves(segments[s]) \in {0, 3}
        /\ BackSaves(segments[s]) \in {0, 3}
        /\ Slack(s) <= FrontSaves(segments[s])
        /\ Slack(s + 1) = 3 - BackSaves(segments[s])
    BY <1>1, <1>2, SlackIsSaved
  <1>7. size <= 4 * (elevation - 1) + Slack(s + 1)
    BY <1>4, <1>5, <1>6
  <1>8. Slack(s)' = Slack(s + 1)
    BY <1>1 DEF Slack
  <1>9. size' \in Nat /\ size' <= 4 * (elevation' - 1) + Slack(s)'
    BY <1>1, <1>5, <1>7, <1>8
  <1> QED BY <1>1, <1>9 DEF SizeInv

\* The last segment ends the row.
LEMMA EndWriteSize ==
  ASSUME CodecInv, SizeInv, EndWrite
  PROVE  SizeInv'
PROOF
  <1>1. /\ stage = "Write" /\ stage' = "Read" /\ size' = size /\ s > Len(segments)
    BY DEF EndWrite
  <1>2. Len(segments) \in Nat /\ s \in Nat
    BY <1>1, WritingState
  <1>3. elevation = Width + 1
    BY <1>1, <1>2 DEF CodecInv, Place
  <1>4. size \in Nat /\ size <= 4 * (elevation - 1) + Slack(s)
    BY <1>1 DEF SizeInv
  <1>5. Slack(s) \in {0, 3}
    BY DEF Slack
  <1>6. size' \in Nat /\ size' <= 4 * Width + 3
    BY <1>1, <1>3, <1>4, <1>5, CodecAssumption
  <1> QED BY <1>1, <1>6 DEF SizeInv

LEMMA NothingYet ==
  ASSUME SizeInv, EndMerge
  PROVE  SizeInv'
PROOF
  <1>1. /\ stage = "Merge" /\ stage' = "Write" /\ size' = size /\ elevation' = 1 /\ s' = 1
    BY DEF EndMerge
  <1>2. size = 0
    BY <1>1 DEF SizeInv
  <1>3. Slack(s)' = 0
    BY <1>1 DEF Slack
  <1>4. size' \in Nat /\ size' <= 4 * (elevation' - 1) + Slack(s)'
    BY <1>1, <1>2, <1>3
  <1> QED BY <1>1, <1>4 DEF SizeInv

LEMMA SameSize ==
  ASSUME SizeInv,
         \/ BeginRow \/ ScanSegment \/ EndScan \/ KeepSegment \/ MergeSegment
         \/ ReadRun \/ ReadBulk \/ ReadUnknown \/ ReadValue \/ Corrupt \/ Overrun \/ EndRow
         \/ NextRow \/ UNCHANGED vars
  PROVE  SizeInv'
PROOF
  <1>1. CASE BeginRow \/ ScanSegment \/ EndScan \/ KeepSegment \/ MergeSegment
    <2>1. stage \in {"Idle", "Scan", "Merge"} /\ stage' \in {"Scan", "Merge"} /\ size' = size
      BY <1>1 DEF BeginRow, ScanSegment, EndScan, KeepSegment, MergeSegment
    <2>2. size' = 0
      BY <2>1 DEF SizeInv
    <2> QED BY <2>1, <2>2 DEF SizeInv
  <1>2. CASE \/ ReadRun \/ ReadBulk \/ ReadUnknown \/ ReadValue \/ Corrupt \/ Overrun \/ EndRow
    <2>1. /\ stage = "Read" /\ stage' \in {"Read", "Decoded", "Corrupt", "Overrun"}
          /\ size' = size
      BY <1>2 DEF ReadRun, ReadBulk, ReadUnknown, ReadValue, Corrupt, Overrun, EndRow, Reading
    <2>2. size' \in Nat /\ size' <= 4 * Width + 3
      BY <2>1 DEF SizeInv
    <2> QED BY <2>1, <2>2 DEF SizeInv
  <1>3. CASE NextRow
    <2>1. stage' = "Idle" /\ size' = 0
      BY <1>3 DEF NextRow
    <2> QED BY <2>1 DEF SizeInv
  <1>4. CASE UNCHANGED vars
    BY <1>4 DEF vars, SizeInv, Slack, FrontSaves, BackSaves, Front, Back, End
  <1> QED BY <1>1, <1>2, <1>3, <1>4

LEMMA SizeStep ==
  ASSUME CodecInv, SizeInv, [Next]_vars
  PROVE  SizeInv'
PROOF BY RunSize, HeadSize, ValuesSize, EndBulkSize, EndWriteSize, NothingYet, SameSize DEF Next

\* What is written so far, a segment's head included, is three bytes longer at most
\* than the row is given.
LEMMA SizeBounded ==
  ASSUME CodecInv, SizeInv
  PROVE  size \in Nat /\ size <= 4 * Width + 3
PROOF
  <1>1. size \in Nat
    BY DEF SizeInv
  <1>2. Slack(s) \in {0, 3}
    BY DEF Slack
  <1>3. CASE stage = "Write"
    <2>1. Len(segments) \in Nat /\ s \in 1 .. Len(segments) + 1
          /\ elevation = IF s <= Len(segments) THEN segments[s].from ELSE Width + 1
      BY <1>3, WritingState DEF CodecInv, Place
    <2>2. CASE s <= Len(segments)
      <3>1. s \in 1 .. Len(segments) /\ elevation = segments[s].from
        BY <2>1, <2>2
      <3>2. /\ segments[s].from \in Nat /\ End(segments[s]) \in Nat
            /\ segments[s].from <= End(segments[s])
        BY <1>3, <3>1, WritingState
      <3>3. End(segments[s]) <= Width
        BY <1>3, <3>1, WritingState DEF Tiling
      <3>4. elevation \in Nat /\ elevation <= Width
        BY <3>1, <3>2, <3>3, CodecAssumption
      <3>5. size <= 4 * (elevation - 1) + Slack(s)
        BY <1>3 DEF SizeInv
      <3> QED BY <1>1, <1>2, <3>4, <3>5, CodecAssumption
    <2>3. CASE ~(s <= Len(segments))
      <3>1. elevation = Width + 1
        BY <2>1, <2>3
      <3>2. size <= 4 * (elevation - 1) + Slack(s)
        BY <1>3 DEF SizeInv
      <3> QED BY <1>1, <1>2, <3>1, <3>2, CodecAssumption
    <2> QED BY <2>2, <2>3
  <1>4. CASE stage = "WriteBulk"
    <2>1. /\ s \in 1 .. Len(segments) /\ end = End(segments[s])
          /\ elevation \in segments[s].from .. end + 1
      BY <1>4 DEF CodecInv, Place
    <2>2. /\ segments[s].from \in Nat /\ end \in Nat /\ segments[s].from <= end
      BY <1>4, <2>1, WritingState
    <2>3. end <= Width
      BY <1>4, <2>1, WritingState DEF Tiling
    <2>4. /\ Slack(s) <= FrontSaves(segments[s]) /\ FrontSaves(segments[s]) \in {0, 3}
          /\ BackSaves(segments[s]) \in {0, 3}
      BY <1>4, <2>1, SlackIsSaved
    <2>5. CASE elevation = segments[s].from
      <3>1. size <= 4 * (elevation - 1) + Slack(s) + 3
        BY <1>4, <2>5 DEF SizeInv
      <3>2. elevation \in Nat /\ elevation <= Width
        BY <2>2, <2>3, <2>5, CodecAssumption
      <3> QED BY <1>1, <1>2, <3>1, <3>2, CodecAssumption
    <2>6. CASE elevation > segments[s].from
      <3>1. size <= 4 * (elevation - 1) + Slack(s) + 3 - FrontSaves(segments[s])
                      - (IF elevation > end THEN BackSaves(segments[s]) ELSE 0)
        BY <1>4, <2>6 DEF SizeInv
      <3>2. elevation \in Nat /\ elevation <= Width + 1
        BY <2>1, <2>2, <2>3, CodecAssumption
      <3> DEFINE w == IF elevation > end THEN BackSaves(segments[s]) ELSE 0
      <3>3. w \in {0, 3}
        BY <2>4
      <3>4. size <= 4 * (elevation - 1) + Slack(s) + 3 - FrontSaves(segments[s]) - w
        BY <3>1
      <3> HIDE DEF w
      <3>5. size <= 4 * (elevation - 1) + 3
        BY <1>1, <1>2, <2>4, <3>2, <3>3, <3>4
      <3> QED BY <1>1, <3>2, <3>5, CodecAssumption
    <2>7. elevation = segments[s].from \/ elevation > segments[s].from
      BY <2>1, <2>2
    <2> QED BY <2>5, <2>6, <2>7
  <1>5. CASE stage \in {"Idle", "Scan", "Merge"}
    <2>1. size = 0
      BY <1>5 DEF SizeInv
    <2> QED BY <2>1, CodecAssumption
  <1>6. CASE stage \in {"Read", "Decoded", "Corrupt", "Overrun"}
    <2>1. size \in Nat /\ size <= 4 * Width + 3
      BY <1>6 DEF SizeInv
    <2> QED BY <2>1
  <1> QED BY <1>3, <1>4, <1>5, <1>6 DEF CodecInv, Coding

-----------------------------------------------------------------------------
(* The bytes a smooth row takes                                            *)

\* Bytes that the segments before the k-th may take beyond four for each pixel, where
\* the row is smooth: a run of one pixel takes one more, and a segment that ends in two
\* equal values saves two at least.
Spare(k) == IF k = 1 THEN 0
            ELSE IF Back(segments[k - 1], row) THEN -2
            ELSE IF k = 2 /\ segments[1].numElements = 1 THEN 1 ELSE 0

\* What the equal values at the ends of a bulk have saved when the last column i of it
\* was written, or a column before.
EndsSave(g, last) == IF Front(g, row) \/ (last /\ Back(g, row)) THEN 3 ELSE 0

SmoothInv ==
  Smooth =>
    /\ stage = "Write" => size <= 4 * (elevation - 1) + Spare(s)
    /\ stage = "WriteBulk" =>
         LET g == segments[s]
         IN  /\ elevation = g.from => size <= 4 * (elevation - 1) + Spare(s) + 3
             /\ elevation > g.from =>
                  size <= 4 * (elevation - 1) + Spare(s) - EndsSave(g, elevation > end)
    /\ stage \in {"Read", "Decoded", "Corrupt", "Overrun"} => size <= 4 * Width

LEMMA SpareValues == \A k : Spare(k) \in {-2, 0, 1} 
PROOF BY DEF Spare

\* A segment that does not begin with two equal values is the first or saves bytes by the
\* one before it; what a segment leaves to the next one.
LEMMA SpareIsSaved ==
  ASSUME CodecInv, stage \in {"Write", "WriteBulk"}, s \in 1 .. Len(segments)
  PROVE  /\ Spare(s) \in {-2, 0, 1}
         /\ ~Front(segments[s], row) => IF s = 1 THEN Spare(s) = 0 ELSE Spare(s) = -2
         /\ Spare(s + 1) = IF Back(segments[s], row) THEN -2
                           ELSE IF s = 1 /\ segments[1].numElements = 1 THEN 1 ELSE 0
PROOF
  <1>1. Tiling(segments, row, Width) /\ Len(segments) \in Nat
    BY WritingState
  <1>2. s > 1 => Back(segments[s - 1], row) \/ Front(segments[s], row)
    <2>1. s > 1 => s \in 2 .. Len(segments)
      BY <1>1
    <2> QED BY <1>1, <2>1 DEF Tiling
  <1>3. ~Front(segments[s], row) => IF s = 1 THEN Spare(s) = 0 ELSE Spare(s) = -2
    <2>1. s = 1 \/ s > 1
      BY <1>1
    <2> QED BY <1>2, <2>1 DEF Spare
  <1>4. s + 1 # 1 /\ s + 1 - 1 = s /\ (s + 1 = 2 <=> s = 1)
    BY <1>1
  <1>5. Spare(s + 1) = IF Back(segments[s], row) THEN -2
                       ELSE IF s = 1 /\ segments[1].numElements = 1 THEN 1 ELSE 0
    BY <1>4 DEF Spare
  <1> QED BY <1>3, <1>5, SpareValues

LEMMA SpareRunFits ==
  ASSUME NEW z \in Nat, NEW e \in Nat, NEW n \in Nat, NEW a \in Int, NEW b \in Int,
         z <= 4 * (e - 1) + a, 5 + a <= 4 * n + b
  PROVE  z + 5 <= 4 * (e + n - 1) + b
PROOF OBVIOUS

LEMMA SmoothRunSize ==
  ASSUME CodecInv, SizeInv, SmoothInv, WriteRun
  PROVE  SmoothInv'
PROOF
  <1>1. /\ stage = "Write" /\ stage' = "Write" /\ s' = s + 1 /\ size' = size + 5
        /\ elevation' = elevation + segments[s].numElements
        /\ segments' = segments /\ row' = row
        /\ s <= Len(segments) /\ segments[s].flag = ElevationFlag_RLE
    BY DEF WriteRun, Writing
  <1> SUFFICES ASSUME Smooth PROVE size' <= 4 * (elevation' - 1) + Spare(s)'
    BY <1>1 DEF SmoothInv, Smooth, Near
  <1>2. s \in 1 .. Len(segments) /\ elevation = segments[s].from
    BY <1>1, WritingState DEF CodecInv, Place
  <1>3. /\ segments[s].from \in Nat /\ segments[s].numElements \in Nat
        /\ segments[s].numElements >= 1 /\ Tiling(segments, row, Width)
    BY <1>1, <1>2, WritingState
  <1> DEFINE g == segments[s]
             n == g.numElements
  <1>4. n >= 2 => Back(g, row)
    <2> SUFFICES ASSUME n >= 2 PROVE row[End(g)] = row[End(g) - 1]
      BY DEF Back
    <2>1. \A i \in g.from .. End(g) : row[i] = g.startValue
      BY <1>1, <1>2, <1>3 DEF Tiling, Sound
    <2>2. End(g) \in g.from .. End(g) /\ End(g) - 1 \in g.from .. End(g)
      BY <1>3 DEF End
    <2> QED BY <2>1, <2>2
  <1>5. ~(n >= 2) => ~Front(g, row) /\ ~Back(g, row)
    BY DEF Front, Back
  <1>6. /\ Spare(s) \in {-2, 0, 1}
        /\ ~Front(g, row) => IF s = 1 THEN Spare(s) = 0 ELSE Spare(s) = -2
        /\ Spare(s + 1) = IF Back(g, row) THEN -2
                          ELSE IF s = 1 /\ segments[1].numElements = 1 THEN 1 ELSE 0
    BY <1>1, <1>2, SpareIsSaved
  <1>7. size \in Nat /\ size <= 4 * (elevation - 1) + Spare(s)
    BY <1>1 DEF SizeInv, SmoothInv
  <1>8. elevation \in Nat /\ n \in Nat /\ n >= 1
    BY <1>2, <1>3
  <1>9. 5 + Spare(s) <= 4 * n + Spare(s + 1)
    <2>1. CASE n >= 2
      <3>1. Spare(s + 1) = -2 /\ Spare(s) <= 1 /\ Spare(s) \in Int
        BY <1>4, <1>6, <2>1
      <3> QED BY <1>8, <2>1, <3>1
    <2>2. CASE ~(n >= 2)
      <3>1. n = 1 /\ ~Front(g, row) /\ ~Back(g, row)
        BY <1>5, <1>8, <2>2
      <3>2. CASE s = 1
        BY <1>6, <3>1, <3>2
      <3>3. CASE s # 1
        BY <1>6, <3>1, <3>3
      <3> QED BY <3>2, <3>3
    <2> QED BY <2>1, <2>2
  <1>10. Spare(s)' = Spare(s + 1)
    BY <1>1 DEF Spare
  <1>11. Spare(s + 1) \in {-2, 0, 1}
    BY SpareValues
  <1>12. size + 5 <= 4 * (elevation + n - 1) + Spare(s + 1)
    BY <1>6, <1>7, <1>8, <1>9, <1>11, SpareRunFits
  <1>13. elevation' = elevation + n /\ size' = size + 5
    BY <1>1
  <1>14. size' <= 4 * (elevation' - 1) + Spare(s + 1)
    <2> HIDE DEF n, g
    <2> QED BY <1>7, <1>8, <1>11, <1>12, <1>13
  <1> QED BY <1>10, <1>14

LEMMA SmoothHeadSize ==
  ASSUME CodecInv, SizeInv, SmoothInv, WriteBulk
  PROVE  SmoothInv'
PROOF
  <1>1. /\ stage = "Write" /\ stage' = "WriteBulk" /\ s' = s /\ size' = size + 3
        /\ elevation' = elevation /\ segments' = segments /\ row' = row
        /\ s <= Len(segments) /\ segments[s].flag = ElevationFlag_RelativeBulk
    BY DEF WriteBulk, Writing
  <1>2. s \in 1 .. Len(segments) /\ elevation = segments[s].from
    BY <1>1, WritingState DEF CodecInv, Place
  <1>3. segments[s].from \in Nat
    BY <1>1, <1>2, WritingState
  <1>4. elevation' = segments'[s'].from /\ ~(elevation' > segments'[s'].from)
    BY <1>1, <1>2, <1>3
  <1>5. Smooth' = Smooth /\ Spare(s)' = Spare(s)
    BY <1>1 DEF Smooth, Near, Spare
  <1> SUFFICES ASSUME Smooth PROVE size' <= 4 * (elevation' - 1) + Spare(s)' + 3
    BY <1>1, <1>4, <1>5 DEF SmoothInv
  <1>6. size \in Nat /\ size <= 4 * (elevation - 1) + Spare(s)
    BY <1>1 DEF SizeInv, SmoothInv
  <1>7. elevation \in Nat /\ Spare(s) \in {-2, 0, 1}
    BY <1>2, <1>3, SpareValues
  <1>8. size + 3 <= 4 * (elevation - 1) + Spare(s) + 3
    BY <1>6, <1>7
  <1> QED BY <1>1, <1>5, <1>8

\* The numbers of a sub-segment of a smooth row, by what the ends of its bulk save.
LEMMA SmoothValuesFit ==
  ASSUME NEW z \in Nat, NEW e \in Nat, NEW n \in Nat, NEW h \in Nat, NEW j \in Nat, NEW t \in Nat,
         NEW a \in Int, NEW F \in BOOLEAN, NEW B \in BOOLEAN, n >= 1, e >= h,
         e = h => z <= 4 * (e - 1) + a + 3 /\ n >= 2,
         e > h => z <= 4 * (e - 1) + a - (IF F THEN 3 ELSE 0),
         F /\ e = h => n >= 3, B /\ j = t => n >= 2,
         B /\ e = h /\ j = t => n >= 3
  PROVE  z + 3 + n <= 4 * (e + n - 1) + a - (IF F \/ (j = t /\ B) THEN 3 ELSE 0)
PROOF
  <1>1. CASE e = h
    <2>1. CASE F \/ (j = t /\ B)
      <3>1. n >= 3
        BY <1>1, <2>1
      <3> QED BY <1>1, <2>1, <3>1
    <2>2. CASE ~(F \/ (j = t /\ B))
      BY <1>1, <2>2
    <2> QED BY <2>1, <2>2
  <1>2. CASE e > h
    <2>1. CASE F
      BY <1>2, <2>1
    <2>2. CASE ~F /\ j = t /\ B
      BY <1>2, <2>2
    <2>3. CASE ~(F \/ (j = t /\ B))
      BY <1>2, <2>3
    <2> QED BY <2>1, <2>2, <2>3
  <1> QED BY <1>1, <1>2

\* A bulk of a smooth row begins with a sub-segment of two numbers at least, of three
\* where two of them are equal or the whole bulk is one sub-segment with equal ends.
LEMMA SmoothBegin ==
  ASSUME CodecInv, SizeInv, Smooth, stage = "WriteBulk", elevation <= end,
         elevation = segments[s].from,
         NEW j \in elevation .. end, Near(elevation, j), j < end => ~Near(elevation, j + 1)
  PROVE  /\ j - elevation + 1 >= 2
         /\ Front(segments[s], row) => j - elevation + 1 >= 3
         /\ Back(segments[s], row) /\ j = end => j - elevation + 1 >= 3
PROOF
  <1>1. s \in 1 .. Len(segments) /\ end = End(segments[s])
    BY DEF CodecInv, Place
  <1>2. /\ segments[s].from \in Nat /\ end \in Nat /\ row \in [Columns -> Values]
        /\ Tiling(segments, row, Width) /\ segments[s].numElements \in Nat
    BY <1>1, WritingState
  <1> DEFINE g == segments[s]
             e == elevation
  <1>3. Sound(g, row) /\ end = e + g.numElements - 1 /\ end <= Width
    BY <1>1, <1>2 DEF Tiling, End
  <1>4. e \in Nat /\ j \in Nat /\ j >= e /\ j <= end
    BY SMTT(20), <1>1, <1>2
  <1>5. g.flag = ElevationFlag_RelativeBulk
    BY DEF SizeInv
  <1>6. g.numElements >= 2
    BY <1>3, <1>5 DEF Sound
  <1>7. Front(g, row) \/ Back(g, row) => g.numElements >= 3
    BY <1>3, <1>5 DEF Sound
  <1>8. ASSUME NEW k \in e .. end, k < end PROVE Near(k, k + 1)
    <2>1. k \in Columns /\ k # Width
      <3>1. e >= 1
        BY <1>1, <1>2 DEF Tiling
      <3> QED BY <1>2, <1>3, <1>4, <1>8, <3>1, CodecAssumption DEF Columns
    <2>2. DOMAIN row = Columns
      BY <1>2
    <2> QED BY <2>1, <2>2 DEF Smooth
  <1>9. j # e
    <2> SUFFICES ASSUME j = e PROVE FALSE
      OBVIOUS
    <2>1. e < end /\ e \in e .. end
      BY <1>2, <1>3, <1>4, <1>6
    <2>2. Near(e, e + 1)
      BY <1>8, <2>1
    <2> QED BY <2>1, <2>2
  <1>10. j - e + 1 >= 2
    BY <1>4, <1>9
  <1>11. Front(g, row) => j # e + 1
    <2> SUFFICES ASSUME Front(g, row), j = e + 1 PROVE FALSE
      OBVIOUS
    <2>1. row[e] = row[e + 1]
      BY DEF Front
    <2>2. e + 1 < end /\ e + 1 \in e .. end
      BY <1>2, <1>3, <1>4, <1>7
    <2>3. Near(e + 1, e + 2)
      <3>1. e + 1 + 1 = e + 2
        BY <1>4
      <3> QED BY <1>8, <2>2, <3>1
    <2>4. Near(e, e + 2)
      <3> SUFFICES ASSUME NEW k \in e .. e + 2, NEW l \in e .. e + 2
                   PROVE  row[k] - row[l] < ElevationFlag_RelativeBulk
        BY DEF Near
      <3>1. \A i \in e .. e + 2 : \E i1 \in e + 1 .. e + 2 : row[i1] = row[i]
        <4> TAKE i \in e .. e + 2
        <4>1. i = e \/ i \in e + 1 .. e + 2
          BY <1>4
        <4>2. e + 1 \in e + 1 .. e + 2
          BY <1>4
        <4> QED BY <2>1, <4>1, <4>2
      <3>2. PICK k1 \in e + 1 .. e + 2 : row[k1] = row[k]
        BY <3>1
      <3>3. PICK l1 \in e + 1 .. e + 2 : row[l1] = row[l]
        BY <3>1
      <3>4. row[k1] - row[l1] < ElevationFlag_RelativeBulk
        BY <2>3, Zenon DEF Near
      <3> QED BY <3>2, <3>3, <3>4
    <2>5. j < end /\ j + 1 = e + 2
      BY <1>4, <2>2
    <2> QED BY <2>4, <2>5
  <1>12. Front(g, row) => j - e + 1 >= 3
    BY <1>4, <1>9, <1>11
  <1>13. Back(g, row) /\ j = end => j - e + 1 >= 3
    BY <1>2, <1>3, <1>4, <1>7
  <1> QED BY <1>10, <1>12, <1>13

LEMMA SmoothValuesSize ==
  ASSUME CodecInv, SizeInv, SmoothInv, WriteSubSegment
  PROVE  SmoothInv'
PROOF
  <1>1. /\ stage = "WriteBulk" /\ stage' = stage /\ row' = row /\ end' = end
        /\ segments' = segments /\ s' = s /\ elevation <= end
    BY DEF WriteSubSegment
  <1>2. PICK j \in elevation .. end :
          /\ Near(elevation, j)
          /\ j < end => ~Near(elevation, j + 1)
          /\ size' = size + 3 + (j - elevation + 1) /\ elevation' = j + 1
    BY DEF WriteSubSegment
  <1> DEFINE g == segments[s]
             n == j - elevation + 1
             sp == Spare(s)
             F == Front(g, row)
             B == Back(g, row)
  <1>3. /\ g.from \in Nat /\ elevation \in Nat /\ j \in Nat /\ end \in Nat
        /\ elevation >= g.from
        /\ B /\ j = end => n >= 2
    BY <1>1, <1>2, SubSegmentEnds
  <1>4. n \in Nat /\ n >= 1 /\ j <= end /\ j = elevation + n - 1
    BY <1>2, <1>3
  <1>5. Smooth' = Smooth /\ Spare(s)' = sp /\ segments[s]' = g
    BY <1>1 DEF Smooth, Near, Spare
  <1>6. elevation' > g.from /\ elevation' # g.from /\ (elevation' > end <=> j = end)
    BY <1>2, <1>3, <1>4
  <1> SUFFICES ASSUME Smooth
               PROVE  size' <= 4 * (elevation' - 1) + sp - EndsSave(g, elevation' > end)
    BY <1>1, <1>5, <1>6 DEF SmoothInv, EndsSave, Front, Back, End
  <1>7. elevation = g.from => n >= 2 /\ (F => n >= 3) /\ (B /\ j = end => n >= 3)
    BY <1>1, <1>2, SmoothBegin
  <1>8. sp \in {-2, 0, 1}
    BY SpareValues
  <1>9. F \in BOOLEAN /\ B \in BOOLEAN
    BY DEF Front, Back
  <1>10. /\ size \in Nat
         /\ elevation = g.from => size <= 4 * (elevation - 1) + sp + 3
         /\ elevation > g.from => size <= 4 * (elevation - 1) + sp - (IF F THEN 3 ELSE 0)
    <2>1. /\ size \in Nat
          /\ elevation = g.from => size <= 4 * (elevation - 1) + sp + 3
          /\ elevation > g.from => size <= 4 * (elevation - 1) + sp - EndsSave(g, elevation > end)
      BY <1>1 DEF SizeInv, SmoothInv
    <2>2. ~(elevation > end)
      BY <1>1, <1>3
    <2>3. EndsSave(g, elevation > end) = IF F THEN 3 ELSE 0
      BY <2>2 DEF EndsSave
    <2> QED BY <2>1, <2>3
  <1>11. size + 3 + n <= 4 * (elevation + n - 1) + sp - (IF F \/ (j = end /\ B) THEN 3 ELSE 0)
    <2> HIDE DEF n, sp, F, B, g
    <2> QED BY <1>3, <1>4, <1>7, <1>8, <1>9, <1>10, SmoothValuesFit
  <1>12. EndsSave(g, elevation' > end) = IF F \/ (j = end /\ B) THEN 3 ELSE 0
    BY <1>6 DEF EndsSave
  <1>13. size' = size + 3 + n /\ elevation' - 1 = elevation + n - 1
    BY <1>2, <1>3, <1>4
  <1> HIDE DEF n, sp, F, B, g
  <1> QED BY <1>11, <1>12, <1>13

\* At its end a bulk has saved what the segment after it counts on.
LEMMA SmoothEndBulkSize ==
  ASSUME CodecInv, SizeInv, SmoothInv, EndBulk
  PROVE  SmoothInv'
PROOF
  <1>1. /\ stage = "WriteBulk" /\ stage' = "Write" /\ s' = s + 1 /\ size' = size
        /\ elevation' = elevation /\ segments' = segments /\ row' = row
        /\ elevation > end
    BY DEF EndBulk
  <1>2. /\ s \in 1 .. Len(segments) /\ end = End(segments[s])
        /\ elevation \in segments[s].from .. end + 1
    BY <1>1 DEF CodecInv, Place
  <1>3. /\ segments[s].from \in Nat /\ end \in Nat /\ segments[s].from <= end
    BY <1>1, <1>2, WritingState
  <1>4. elevation \in Nat /\ elevation > segments[s].from
    BY <1>1, <1>2, <1>3
  <1>5. Smooth' = Smooth /\ Spare(s)' = Spare(s + 1)
    BY <1>1 DEF Smooth, Near, Spare
  <1> SUFFICES ASSUME Smooth PROVE size <= 4 * (elevation - 1) + Spare(s + 1)
    BY <1>1, <1>5 DEF SmoothInv
  <1> DEFINE F == Front(segments[s], row)
             B == Back(segments[s], row)
  <1>6. size \in Nat /\ size <= 4 * (elevation - 1) + Spare(s) - (IF F \/ B THEN 3 ELSE 0)
    BY <1>1, <1>4 DEF SizeInv, SmoothInv, EndsSave
  <1>7. /\ Spare(s) \in {-2, 0, 1}
        /\ ~F => IF s = 1 THEN Spare(s) = 0 ELSE Spare(s) = -2
        /\ Spare(s + 1) = IF B THEN -2 ELSE IF s = 1 /\ segments[1].numElements = 1 THEN 1 ELSE 0
    BY <1>1, <1>2, SpareIsSaved
  <1>8. Spare(s) - (IF F \/ B THEN 3 ELSE 0) <= Spare(s + 1)
    <2>1. CASE F \/ B
      BY <1>7, <2>1
    <2>2. CASE ~(F \/ B)
      BY <1>7, <2>2
    <2> QED BY <2>1, <2>2
  <1>9. Spare(s + 1) \in {-2, 0, 1}
    BY SpareValues
  <1> HIDE DEF F, B
  <1> QED BY <1>4, <1>6, <1>7, <1>8, <1>9

LEMMA OneLess == \A n \in Nat : 2 = n + 1 => n = 1
PROOF OBVIOUS

\* The last segment ends the row, and a row is no single run of one pixel.
LEMMA SmoothEndSize ==
  ASSUME Wide, CodecInv, SizeInv, SmoothInv, EndWrite
  PROVE  SmoothInv'
PROOF
  <1>1. /\ stage = "Write" /\ stage' = "Read" /\ size' = size /\ s > Len(segments)
        /\ row' = row
    BY DEF EndWrite
  <1>2. Smooth' = Smooth
    BY <1>1 DEF Smooth, Near
  <1> SUFFICES ASSUME Smooth PROVE size <= 4 * Width
    BY <1>1, <1>2 DEF SmoothInv
  <1>3. Len(segments) \in Nat /\ s \in 1 .. Len(segments) + 1 /\ Tiling(segments, row, Width)
    BY <1>1, WritingState DEF CodecInv, Place
  <1>4. elevation = Width + 1 /\ s = Len(segments) + 1
    BY <1>1, <1>3 DEF CodecInv, Place
  <1>5. size \in Nat /\ size <= 4 * (elevation - 1) + Spare(s)
    BY <1>1 DEF SizeInv, SmoothInv
  <1>6. Spare(s) # 1
    <2> SUFFICES ASSUME Spare(s) = 1 PROVE FALSE
      OBVIOUS
    <2>1. s = 2 /\ segments[1].numElements = 1
      BY DEF Spare
    <2>2. Len(segments) = 1
      BY <1>3, <1>4, <2>1, OneLess
    <2>3. segments[1].from = 1 /\ End(segments[1]) = Width
      BY <1>3, <2>2 DEF Tiling
    <2> QED BY <2>1, <2>3, CodecAssumption DEF End
  <1>7. Spare(s) \in {-2, 0}
    BY <1>6, SpareValues
  <1> QED BY <1>4, <1>5, <1>7, CodecAssumption

LEMMA SmoothNothingYet ==
  ASSUME SizeInv, EndMerge
  PROVE  SmoothInv'
PROOF
  <1>1. /\ stage = "Merge" /\ stage' = "Write" /\ size' = size /\ elevation' = 1 /\ s' = 1
    BY DEF EndMerge
  <1>2. size = 0
    BY <1>1 DEF SizeInv
  <1>3. Spare(s)' = 0
    BY <1>1 DEF Spare
  <1>4. size' <= 4 * (elevation' - 1) + Spare(s)'
    BY <1>1, <1>2, <1>3
  <1> QED BY <1>1, <1>4 DEF SmoothInv

LEMMA SmoothSame ==
  ASSUME SmoothInv,
         \/ BeginRow \/ ScanSegment \/ EndScan \/ KeepSegment \/ MergeSegment
         \/ ReadRun \/ ReadBulk \/ ReadUnknown \/ ReadValue \/ Corrupt \/ Overrun \/ EndRow
         \/ NextRow \/ UNCHANGED vars
  PROVE  SmoothInv'
PROOF
  <1>1. CASE BeginRow \/ ScanSegment \/ EndScan \/ KeepSegment \/ MergeSegment \/ NextRow
    <2>1. stage' \in {"Idle", "Scan", "Merge"}
      BY <1>1 DEF BeginRow, ScanSegment, EndScan, KeepSegment, MergeSegment, NextRow
    <2> QED BY <2>1 DEF SmoothInv
  <1>2. CASE \/ ReadRun \/ ReadBulk \/ ReadUnknown \/ ReadValue \/ Corrupt \/ Overrun \/ EndRow
    <2>1. /\ stage = "Read" /\ stage' \in {"Read", "Decoded", "Corrupt", "Overrun"}
          /\ size' = size /\ row' = row
      BY <1>2 DEF ReadRun, ReadBulk, ReadUnknown, ReadValue, Corrupt, Overrun, EndRow, Reading
    <2>2. Smooth' = Smooth
      BY <2>1 DEF Smooth, Near
    <2>3. Smooth => size' <= 4 * Width
      BY <2>1 DEF SmoothInv
    <2> QED BY <2>1, <2>2, <2>3 DEF SmoothInv
  <1>3. CASE UNCHANGED vars
    BY <1>3 DEF vars, SmoothInv, Smooth, Near, Spare, EndsSave, Front, Back, End
  <1> QED BY <1>1, <1>2, <1>3

LEMMA SmoothStep ==
  ASSUME Wide, CodecInv, SizeInv, SmoothInv, [Next]_vars
  PROVE  SmoothInv'
PROOF BY SmoothRunSize, SmoothHeadSize, SmoothValuesSize, SmoothEndBulkSize, SmoothEndSize,
         SmoothNothingYet, SmoothSame DEF Next

LEMMA PartFits ==
  ASSUME NEW z \in Nat, NEW e \in Nat, NEW n \in Nat, z <= 4 * (e - 1), e <= n + 1
  PROVE  z <= 4 * n
PROOF OBVIOUS

\* A row's bytes suffice for it when it is smooth, whatever part of it is written, and
\* are three too few at most when it is not.
LEMMA RowFits ==
  ASSUME CodecInv, SizeInv, SmoothInv
  PROVE  RowSize
PROOF
  <1>1. size \in Nat /\ size <= 4 * Width + 3
    BY SizeBounded
  <1> SUFFICES ASSUME Smooth PROVE size <= 4 * Width
    <2>1. CASE Smooth
      BY <2>1, CodecAssumption DEF RowSize
    <2>2. CASE ~Smooth
      BY <1>1, <2>2 DEF RowSize
    <2> QED BY <2>1, <2>2
  <1>2. Spare(s) \in {-2, 0, 1}
    BY SpareValues
  <1>3. CASE stage = "Write"
    <2>1. Len(segments) \in Nat /\ s \in 1 .. Len(segments) + 1
          /\ elevation = IF s <= Len(segments) THEN segments[s].from ELSE Width + 1
      BY <1>3, WritingState DEF CodecInv, Place
    <2>2. size <= 4 * (elevation - 1) + Spare(s)
      BY <1>3 DEF SmoothInv
    <2>3. CASE s <= Len(segments)
      <3>1. s \in 1 .. Len(segments) /\ elevation = segments[s].from
        BY <2>1, <2>3
      <3>2. /\ segments[s].from \in Nat /\ End(segments[s]) \in Nat
            /\ segments[s].from <= End(segments[s])
        BY <1>3, <3>1, WritingState
      <3>3. End(segments[s]) <= Width
        BY <1>3, <3>1, WritingState DEF Tiling
      <3>4. elevation \in Nat /\ elevation <= Width
        BY <3>1, <3>2, <3>3, CodecAssumption
      <3> QED BY <1>1, <1>2, <2>2, <3>4, CodecAssumption
    <2>4. CASE ~(s <= Len(segments))
      <3>1. elevation = Width + 1 /\ s = Len(segments) + 1 /\ Tiling(segments, row, Width)
        BY <1>3, <2>1, <2>4, WritingState
      <3>2. Spare(s) # 1
        <4> SUFFICES ASSUME Spare(s) = 1 PROVE FALSE
          OBVIOUS
        <4>1. s = 2 /\ segments[1].numElements = 1
          BY DEF Spare
        <4>2. Len(segments) = 1
          BY <2>1, <3>1, <4>1, OneLess
        <4>3. segments[1].from = 1 /\ End(segments[1]) = Width
          BY <3>1, <4>2 DEF Tiling
        <4> QED BY <4>1, <4>3, CodecAssumption DEF End
      <3>3. Spare(s) \in {-2, 0}
        BY <1>2, <3>2
      <3> QED BY <1>1, <2>2, <3>1, <3>3, CodecAssumption
    <2> QED BY <2>3, <2>4
  <1>4. CASE stage = "WriteBulk"
    <2>1. /\ s \in 1 .. Len(segments) /\ end = End(segments[s])
          /\ elevation \in segments[s].from .. end + 1
      BY <1>4 DEF CodecInv, Place
    <2>2. /\ segments[s].from \in Nat /\ end \in Nat /\ segments[s].from <= end
      BY <1>4, <2>1, WritingState
    <2>3. end <= Width
      BY <1>4, <2>1, WritingState DEF Tiling
    <2>4. elevation \in Nat /\ elevation <= Width + 1 /\ elevation >= segments[s].from
      BY <2>1, <2>2, <2>3, CodecAssumption
    <2>5. CASE elevation = segments[s].from
      <3>1. size <= 4 * (elevation - 1) + Spare(s) + 3
        BY <1>4, <2>5 DEF SmoothInv
      <3>2. elevation <= Width
        BY <2>2, <2>3, <2>5, CodecAssumption
      <3> QED BY <1>1, <1>2, <2>4, <3>1, <3>2, CodecAssumption
    <2>6. CASE elevation > segments[s].from
      <3> DEFINE F == Front(segments[s], row)
                 w == EndsSave(segments[s], elevation > end)
      <3>1. size <= 4 * (elevation - 1) + Spare(s) - w
        BY <1>4, <2>6 DEF SmoothInv
      <3>2. w \in {0, 3} /\ (F => w = 3)
        BY DEF EndsSave
      <3>3. ~F => Spare(s) <= 0
        <4>1. ~F => IF s = 1 THEN Spare(s) = 0 ELSE Spare(s) = -2
          BY <1>4, <2>1, SpareIsSaved
        <4> HIDE DEF F
        <4> QED BY <1>2, <4>1
      <3> HIDE DEF F, w
      <3>4. Spare(s) - w <= 0
        BY <1>2, <3>2, <3>3
      <3> DEFINE d == Spare(s) - w
      <3>5. d \in Int /\ d <= 0 /\ size <= 4 * (elevation - 1) + d
        BY <1>1, <1>2, <2>4, <3>1, <3>2, <3>4
      <3> HIDE DEF d
      <3>6. size <= 4 * (elevation - 1)
        BY <1>1, <2>4, <3>5
      <3> QED BY <1>1, <2>4, <3>6, PartFits, CodecAssumption
    <2> QED BY <2>2, <2>4, <2>5, <2>6
  <1>5. CASE stage \in {"Idle", "Scan", "Merge"}
    <2>1. size = 0
      BY <1>5 DEF SizeInv
    <2> QED BY <2>1, CodecAssumption
  <1>6. CASE stage \in {"Read", "Decoded", "Corrupt", "Overrun"}
    BY <1>6 DEF SmoothInv
  <1> QED BY <1>3, <1>4, <1>5, <1>6 DEF CodecInv, Coding

-----------------------------------------------------------------------------
(* The types                                                               *)

\* The segments are no more than the columns.
LEMMA FewSegments ==
  ASSUME NEW q, NEW r, NEW n \in 0 .. Width, Tiling(q, r, n)
  PROVE  q \in Seq(RowSegment) /\ Len(q) \in Nat /\ Len(q) <= Width
         /\ \A k \in 1 .. Len(q) : End(q[k]) \in 1 .. Width /\ q[k].from \in 1 .. End(q[k])
PROOF
  <1>1. q \in Seq(RowSegment) /\ Len(q) \in Nat
    BY LenProperties DEF Tiling
  <1>2. ASSUME NEW k \in 1 .. Len(q)
        PROVE  End(q[k]) \in 1 .. Width /\ q[k].from \in 1 .. End(q[k]) /\ k <= Width
    <2>1. q[k] \in RowSegment
      BY <1>1, ElementOfSeq
    <2>2. q[k].from \in Nat /\ q[k].numElements \in Nat /\ q[k].from >= 1
      BY <2>1, CodecAssumption DEF RowSegment, Columns
    <2>3. q[k].from >= k /\ End(q[k]) <= n /\ q[k].numElements >= 1
      BY DEF Tiling, Sound
    <2>4. k \in Nat /\ n \in Nat /\ n <= Width
      BY CodecAssumption
    <2> QED BY SMTT(20), <2>2, <2>3, <2>4, CodecAssumption DEF End
  <1>3. Len(q) <= Width
    <2>1. CASE Len(q) = 0
      BY <2>1, CodecAssumption
    <2>2. CASE Len(q) # 0
      <3>1. Len(q) \in 1 .. Len(q)
        BY <1>1, <2>2
      <3> QED BY <1>2, <3>1
    <2> QED BY <2>1, <2>2
  <1> QED BY <1>1, <1>2, <1>3

\* Where the coder stands, as the types of its variables have it.
Placed ==
  /\ stage \in Coding \union {"Idle", "Read", "Decoded", "Corrupt", "Overrun"}
  /\ stage = "Idle" => segments = <<>> /\ elevation = 1
  /\ stage \in Coding \ {"Merge"} => elevation \in 1 .. Width + 1
  /\ stage \in Coding => segments \in Seq(RowSegment)
  /\ stage \in Coding \ {"Scan"} => s \in 0 .. Width + 1
  /\ stage = "WriteBulk" => end \in 0 .. Width

LEMMA CoderPlaced ==
  ASSUME CodecInv
  PROVE  Placed
PROOF
  <1>1. CASE stage = "Scan"
    <2>1. elevation \in 1 .. Width + 1 /\ Tiling(segments, row, elevation - 1)
      BY <1>1 DEF CodecInv
    <2>2. elevation - 1 \in 0 .. Width
      BY <2>1, CodecAssumption
    <2> QED BY <1>1, <2>1, <2>2, FewSegments DEF Placed, Coding
  <1>2. CASE stage \in {"Merge", "Write", "WriteBulk"}
    <2>1. Tiling(segments, row, Width) /\ Width \in 0 .. Width
      BY <1>2, CodecAssumption DEF CodecInv, Coding
    <2>2. /\ segments \in Seq(RowSegment) /\ Len(segments) \in Nat /\ Len(segments) <= Width
          /\ \A k \in 1 .. Len(segments) :
               End(segments[k]) \in 1 .. Width /\ segments[k].from \in 1 .. End(segments[k])
      BY <2>1, FewSegments
    <2>3. CASE stage = "Merge"
      <3>1. s \in 0 .. Len(segments)
        BY <2>3 DEF CodecInv
      <3> QED BY <2>2, <2>3, <3>1, CodecAssumption DEF Placed, Coding
    <2>4. CASE stage = "Write"
      <3>1. s \in 1 .. Len(segments) + 1
            /\ elevation = IF s <= Len(segments) THEN segments[s].from ELSE Width + 1
        BY <2>4 DEF CodecInv, Place
      <3>2. s \in 0 .. Width + 1
        BY <2>2, <3>1, CodecAssumption
      <3>3. s <= Len(segments) => s \in 1 .. Len(segments)
        BY <3>1
      <3>4. elevation \in 1 .. Width + 1
        BY <2>2, <3>1, <3>3, CodecAssumption
      <3> QED BY <2>2, <2>4, <3>2, <3>4 DEF Placed, Coding
    <2>5. CASE stage = "WriteBulk"
      <3>1. /\ s \in 1 .. Len(segments) /\ end = End(segments[s])
            /\ elevation \in segments[s].from .. end + 1
        BY <2>5 DEF CodecInv, Place
      <3>2. end \in 1 .. Width /\ segments[s].from \in 1 .. end
        BY <2>2, <3>1
      <3>3. elevation \in 1 .. Width + 1 /\ end \in 0 .. Width /\ s \in 0 .. Width + 1
        BY <2>2, <3>1, <3>2, CodecAssumption
      <3> QED BY <2>2, <2>5, <3>3 DEF Placed, Coding
    <2> QED BY <1>2, <2>3, <2>4, <2>5
  <1>3. CASE stage \notin Coding
    BY <1>3 DEF CodecInv, Placed, Coding
  <1> QED BY <1>1, <1>2, <1>3 DEF Coding

\* The types of what the coder and the decoder have.
CoderTyped ==
  /\ y \in 0 .. Height /\ (stage # "Idle" => y < Height)
  /\ row \in [Columns -> Values] \union {<<>>}
  /\ elevation \in 1 .. Width + 1
  /\ segments \in Seq(RowSegment)
  /\ stale \in {Unset, ElevationFlag_RLE, ElevationFlag_RelativeBulk}
  /\ s \in 0 .. Width + 1
  /\ end \in 0 .. Width

DecoderTyped ==
  /\ rest \in Seq(Int) /\ image \in Seq(Int)
  /\ bulk \in [left: 0 .. MaxNumElementsPerRowSegment, reference: Int]

\* The memory behind a short vector holds the flag of a segment, or nothing.
LEMMA StaleTyped ==
  ASSUME NEW q \in Seq(RowSegment), 2 <= Len(q)
  PROVE  q[2].flag \in {ElevationFlag_RLE, ElevationFlag_RelativeBulk}
PROOF
  <1>1. 2 \in 1 .. Len(q)
    BY LenProperties
  <1>2. q[2] \in RowSegment
    BY <1>1, ElementOfSeq
  <1> QED BY <1>2 DEF RowSegment

LEMMA CoderTypedStep ==
  ASSUME Placed, Placed', CoderTyped, [Next]_vars
  PROVE  CoderTyped'
PROOF
  <1>1. CASE BeginRow
    BY <1>1 DEF BeginRow, CoderTyped
  <1>2. CASE ScanSegment
    <2>1. /\ stage = "Scan" /\ stage' = "Scan" /\ y' = y /\ row' = row /\ s' = s /\ end' = end
          /\ stale' = IF Len(segments') = 2 THEN segments'[2].flag ELSE stale
      BY <1>2 DEF ScanSegment
    <2>2. segments' \in Seq(RowSegment) /\ elevation' \in 1 .. Width + 1
      BY <2>1 DEF Placed, Coding
    <2>3. stale' \in {Unset, ElevationFlag_RLE, ElevationFlag_RelativeBulk}
      BY <2>1, <2>2, StaleTyped DEF CoderTyped
    <2> QED BY <2>1, <2>2, <2>3 DEF CoderTyped
  <1>3. CASE MergeSegment
    <2>1. /\ stage = "Merge" /\ stage' = "Merge" /\ y' = y /\ row' = row
          /\ end' = end /\ elevation' = elevation
          /\ stale' = IF Len(segments') >= 2 THEN segments'[2].flag ELSE stale
      BY <1>3 DEF MergeSegment
    <2>2. segments' \in Seq(RowSegment) /\ s' \in 0 .. Width + 1
      BY <2>1 DEF Placed, Coding
    <2>3. stale' \in {Unset, ElevationFlag_RLE, ElevationFlag_RelativeBulk}
      <3>1. Len(segments') \in Nat
        BY <2>2, LenProperties
      <3> QED BY <2>1, <2>2, <3>1, StaleTyped DEF CoderTyped
    <2> QED BY <2>1, <2>2, <2>3 DEF CoderTyped
  <1>4. CASE EndScan \/ KeepSegment \/ EndMerge \/ WriteRun \/ WriteBulk \/ WriteSubSegment \/ EndBulk
    <2>1. /\ stage # "Idle" /\ stage' \in Coding \ {"Scan"} /\ y' = y /\ row' = row
          /\ segments' = segments /\ stale' = stale
      BY <1>4 DEF EndScan, KeepSegment, EndMerge, WriteRun, WriteBulk, WriteSubSegment, EndBulk,
         Writing, Coding
    <2>2. s' \in 0 .. Width + 1
      BY <2>1 DEF Placed
    <2>3. elevation' \in 1 .. Width + 1
      <3>1. stage' = "Merge" => elevation' = elevation
        BY <1>4 DEF EndScan, KeepSegment, EndMerge, WriteRun, WriteBulk, WriteSubSegment, EndBulk,
           Writing
      <3> QED BY <2>1, <3>1 DEF Placed, CoderTyped, Coding
    <2>4. end' \in 0 .. Width
      <3>1. stage' # "WriteBulk" => end' = end
        BY <1>4 DEF EndScan, KeepSegment, EndMerge, WriteRun, WriteBulk, WriteSubSegment, EndBulk,
           Writing
      <3> QED BY <3>1 DEF Placed, CoderTyped
    <2> QED BY <2>1, <2>2, <2>3, <2>4 DEF CoderTyped
  <1>5. CASE \/ EndWrite \/ ReadRun \/ ReadBulk \/ ReadUnknown \/ ReadValue
             \/ Corrupt \/ Overrun \/ EndRow
    <2>1. /\ stage # "Idle" /\ y' = y /\ row' = row /\ elevation' = elevation
          /\ segments' = segments /\ stale' = stale /\ s' = s /\ end' = end
      BY <1>5 DEF EndWrite, ReadRun, ReadBulk, ReadUnknown, ReadValue, Corrupt, Overrun, EndRow,
         Reading
    <2> QED BY <2>1 DEF CoderTyped
  <1>6. CASE NextRow
    <2>1. /\ stage = "Decoded" /\ stage' = "Idle" /\ y' = y + 1 /\ row' = <<>> /\ elevation' = 1
          /\ segments' = <<>> /\ s' = 0 /\ end' = 0 /\ stale' = stale
      BY <1>6 DEF NextRow
    <2>2. y' \in 0 .. Height
      BY <2>1, CodecAssumption DEF CoderTyped
    <2> QED BY <2>1, <2>2, EmptySeq, CodecAssumption DEF CoderTyped
  <1>7. CASE UNCHANGED vars
    BY <1>7 DEF vars, CoderTyped
  <1> QED BY <1>1, <1>2, <1>3, <1>4, <1>5, <1>6, <1>7 DEF Next

LEMMA DecoderTypedStep ==
  ASSUME Wide, WrittenInv, DecodedInv, DecodedInv', DecoderTyped, [Next]_vars
  PROVE  DecoderTyped'
PROOF
  <1>1. CASE EndWrite
    <2>1. code \in Seq(Int) /\ <<>> \in Seq(Int)
      BY EmptySeq DEF WrittenInv
    <2>2. rest' = code /\ image' = <<>> /\ bulk' = NoBulk
      BY <1>1 DEF EndWrite
    <2> QED BY <2>1, <2>2, CodecAssumption DEF DecoderTyped, NoBulk
  <1>2. CASE NextRow
    <2>1. rest' = <<>> /\ image' = <<>> /\ bulk' = NoBulk
      BY <1>2 DEF NextRow
    <2> QED BY <2>1, EmptySeq, CodecAssumption DEF DecoderTyped, NoBulk
  <1>3. CASE ReadRun \/ ReadBulk \/ ReadValue
    <2>1. stage = "Read" /\ stage' = "Read"
      BY <1>3 DEF ReadRun, ReadBulk, ReadValue, Reading
    <2>2. rest' \in Seq(Int) /\ image' \in Seq(Int)
      BY <2>1 DEF DecodedInv, Decoding
    <2>3. bulk' \in [left: 0 .. MaxNumElementsPerRowSegment, reference: Int]
      <3>1. CASE ReadRun
        BY <3>1 DEF ReadRun, DecoderTyped
      <3>2. CASE ReadBulk
        <4>1. /\ bulk.left = 0 /\ Len(image) < Width /\ rest[1] = ElevationFlag_RelativeBulk
              /\ bulk' = [left |-> rest[2], reference |-> 0]
          BY <3>2 DEF ReadBulk, Reading
        <4>2. PICK P, p : p \in DOMAIN P /\ Decoding(P, p)
          BY <2>1 DEF DecodedInv
        <4>3. code \in Seq(Int)
          BY DEF WrittenInv
        <4>4. ElevationFlag_RLE # ElevationFlag_RelativeBulk
          BY DEF ElevationFlag_RLE, ElevationFlag_RelativeBulk
        <4>5. Len(image) \in Nat /\ rest[2] \in Nat /\ Len(image) + rest[2] <= Width
          BY <4>1, <4>2, <4>3, <4>4, AtHand, CodecAssumption
        <4>6. rest[2] \in 0 .. MaxNumElementsPerRowSegment
          BY <4>5, CodecAssumption DEF Wide
        <4> QED BY <4>1, <4>6
      <3>3. CASE ReadValue
        <4>1. bulk.left > 0 /\ bulk.left \in 0 .. MaxNumElementsPerRowSegment
              /\ bulk.reference \in Int /\ rest \in Seq(Int) /\ Len(rest) \in Nat
          BY <3>3, LenProperties DEF ReadValue, DecoderTyped
        <4>2. bulk.left - 1 \in 0 .. MaxNumElementsPerRowSegment
          BY <4>1, CodecAssumption
        <4>3. CASE HasReference /\ Len(rest) >= 3
          <5>1. rest[2] \in Int
            BY <4>1, <4>3, ElementOfSeq
          <5>2. bulk' = [left |-> bulk.left - 1, reference |-> rest[2]]
            BY <3>3, <4>3 DEF ReadValue
          <5> QED BY <4>2, <5>1, <5>2
        <4>4. CASE ~HasReference
          <5>1. bulk' = [bulk EXCEPT !.left = @ - 1]
            BY <3>3, <4>4 DEF ReadValue
          <5>2. bulk \in [left: 0 .. MaxNumElementsPerRowSegment, reference: Int]
            BY DEF DecoderTyped
          <5> QED BY <4>2, <5>1, <5>2
        <4> QED BY <3>3, <4>3, <4>4 DEF ReadValue
      <3> QED BY <1>3, <3>1, <3>2, <3>3
    <2> QED BY <2>2, <2>3 DEF DecoderTyped
  <1>4. CASE ReadUnknown
    BY <1>4, NeverLost
  <1>5. CASE \/ BeginRow \/ ScanSegment \/ EndScan \/ KeepSegment \/ MergeSegment \/ EndMerge
             \/ WriteRun \/ WriteBulk \/ WriteSubSegment \/ EndBulk
             \/ Corrupt \/ Overrun \/ EndRow \/ UNCHANGED vars
    <2>1. rest' = rest /\ image' = image /\ bulk' = bulk
      BY <1>5 DEF BeginRow, ScanSegment, EndScan, KeepSegment, MergeSegment, EndMerge, WriteRun,
         WriteBulk, WriteSubSegment, EndBulk, Corrupt, Overrun, EndRow, decoder, vars
    <2> QED BY <2>1 DEF DecoderTyped
  <1> QED BY <1>1, <1>2, <1>3, <1>4, <1>5 DEF Next

\* In an image wider than the runs that are merged, every variable keeps to its type, the
\* index of the merge loop among them, and the code of a row to the bytes it is given,
\* but for three bytes behind them that a row which is not smooth may take.
THEOREM InBoundsAlways ==
  ASSUME Wide
  PROVE  Spec => []InBounds
PROOF
  <1>1. Init => SizeInv /\ SmoothInv /\ CoderTyped /\ DecoderTyped /\ WrittenInv /\ DecodedInv
    BY EmptySeq, CodecAssumption
       DEF Init, SizeInv, SmoothInv, CoderTyped, DecoderTyped, NoBulk, WrittenInv, DecodedInv
  <1>2. CodecInv => Placed
    BY CoderPlaced
  <1>3. CodecInv /\ SizeInv /\ SmoothInv /\ CoderTyped /\ DecoderTyped /\ WrittenInv => InBounds
    BY SizeBounded, RowFits DEF InBounds, TypeOK, CodecInv, Coding, CoderTyped, DecoderTyped, WrittenInv
  <1>4. Placed /\ Placed' /\ CoderTyped /\ [Next]_vars => CoderTyped'
    BY CoderTypedStep
  <1>5. DecodedInv /\ WrittenInv /\ DecodedInv' /\ DecoderTyped /\ [Next]_vars => DecoderTyped'
    BY DecoderTypedStep
  <1>6. CodecInv /\ SizeInv /\ [Next]_vars => SizeInv'
    BY SizeStep
  <1>8. CodecInv /\ SizeInv /\ SmoothInv /\ [Next]_vars => SmoothInv'
    BY SmoothStep
  <1>7. CodecInv /\ WrittenInv /\ DecodedInv /\ [Next]_vars => WrittenInv' /\ DecodedInv'
    BY RoundTripStep
  <1> QED BY <1>1, <1>2, <1>3, <1>4, <1>5, <1>6, <1>7, <1>8, CodecInvariance, PTL DEF Spec
=============================================================================
