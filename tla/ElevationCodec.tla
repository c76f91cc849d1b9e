--------------------------- MODULE ElevationCodec ---------------------------
(***************************************************************************)
(* The elevation format of utils/Elevation.cpp: CompressElevation turns    *)
(* each row of an image of 16-bit heights into segments, DecompressElevation *)
(* turns them back.  Rows are coded one after the other with one vector of *)
(* segments that is cleared for each row but keeps its memory, so the model *)
(* codes and then decodes the rows of an image one at a time.  A step is   *)
(* one iteration of a loop of the code.                                    *)
(*                                                                         *)
(* A coded row is a sequence of numbers: bytes, and 16-bit quantities as   *)
(* one number each (BigEndianU16 takes them apart and puts them together   *)
(* the same way in both directions).                                       *)
(***************************************************************************)
EXTENDS Integers, Sequences

CONSTANTS
  Width,                        \* pixels in a row
  Height,                       \* rows of the image
  Values,                       \* the heights that occur
  Invalid,                      \* InvalidValueASTER
  MaxNumElementsPerRowSegment   \* the largest value of numElements

\* The vector is made with room for width / 2 segments.
ASSUME CodecAssumption ==
  /\ Width \in Nat /\ Width >= 4
  /\ Height \in Nat \ {0}
  /\ Values \subseteq Int
  /\ MaxNumElementsPerRowSegment \in Nat /\ MaxNumElementsPerRowSegment >= 2

ElevationFlag_RLE == 254
ElevationFlag_RelativeBulk == 255
Unset == 0
SmallRun == 5   \* runs up to this length are merged

Columns == 1 .. Width

\* numElements is unsigned and wraps
Wrap(n) == n % (MaxNumElementsPerRowSegment + 1)

(***************************************************************************)
(* A RowSegment.  The member from is not in the code: it is the column at  *)
(* which the segment starts, which the code finds again by adding up the   *)
(* lengths of the segments before it.                                      *)
(***************************************************************************)
RowSegment == [flag: {ElevationFlag_RLE, ElevationFlag_RelativeBulk},
               numElements: 0 .. MaxNumElementsPerRowSegment,
               startValue: Values, from: Columns]

VARIABLES
  y,          \* the rows finished
  stage,      \* where the work on the current row stands
  row,        \* elevationRow
  elevation,  \* the column the pointer elevation is at
  segments,   \* the vector of segments
  stale,      \* the flag in the memory of the second element of the vector
  s,          \* the index of the merge and of the output loop
  end,        \* the last column of the bulk being written
  code,       \* the output for this row
  size,       \* the bytes it takes
  rest,       \* what the decoder has not read yet
  image,      \* the pixels the decoder has written
  bulk        \* the decoder's position in a bulk: elements left, reference

vars == <<y, stage, row, elevation, segments, stale, s, end, code, size, rest, image, bulk>>
decoder == <<rest, image, bulk>>

NoBulk == [left |-> 0, reference |-> 0]

Init ==
  /\ y = 0 /\ stage = "Idle" /\ row = <<>> /\ elevation = 1
  /\ segments = <<>> /\ stale = Unset /\ s = 0 /\ end = 0
  /\ code = <<>> /\ size = 0
  /\ rest = <<>> /\ image = <<>> /\ bulk = NoBulk

BeginRow ==
  /\ stage = "Idle" /\ y < Height
  /\ stage' = "Scan"
  /\ row' \in [Columns -> Values]
  /\ UNCHANGED <<y, elevation, segments, stale, s, end, code, size, decoder>>

-----------------------------------------------------------------------------
(* The segments of a row.                                                  *)

\* the last column a segment that starts at i may reach
Limit(i) ==
  IF i + MaxNumElementsPerRowSegment - 1 < Width
    THEN i + MaxNumElementsPerRowSegment - 1 ELSE Width

\* the columns i .. j hold one value
SameValue(i, j) == \A k \in i + 1 .. j : row[k] = row[k - 1]

\* no two neighbours in the columns i .. j are equal
Changing(i, j) == \A k \in i + 1 .. j : row[k] # row[k - 1]

\* a segment that starts at i ends at j: a run goes on until the value
\* changes; a bulk until a value repeats, and then the repeated value belongs
\* to the next segment
EndsRun(i, j) ==
  /\ i < Limit(i) => j > i
  /\ SameValue(i, j)
  /\ j < Limit(i) => row[j + 1] # row[j]

\* Mutant: a change of value ends the segment at once.
EndsBulkAtOnce(i, j) ==
  /\ j = i
  /\ i < Limit(i) => row[i + 1] # row[i]

EndsBulk(i, j) ==
  /\ Changing(i, j)
  /\ i < Limit(i) => row[i + 1] # row[i]
  /\ j < Limit(i) => /\ j + 1 < Limit(i)
                     /\ row[j + 1] # row[j]
                     /\ row[j + 2] = row[j + 1]

(***************************************************************************)
(* One turn of the outer loop.  A segment of a single value is a run       *)
(* whatever ended it.                                                      *)
(***************************************************************************)
ScanSegment ==
  /\ stage = "Scan" /\ elevation <= Width
  /\ \E j \in elevation .. Limit(elevation) :
       /\ EndsRun(elevation, j) \/ EndsBulk(elevation, j)
       /\ segments' = Append(segments,
            [flag |-> IF SameValue(elevation, j) THEN ElevationFlag_RLE
                                                 ELSE ElevationFlag_RelativeBulk,
             numElements |-> j - elevation + 1,
             startValue |-> row[elevation], from |-> elevation])
       /\ elevation' = j + 1
  /\ stale' = IF Len(segments') = 2 THEN segments'[2].flag ELSE stale
  /\ UNCHANGED <<y, stage, row, s, end, code, size, decoder>>

EndScan ==
  /\ stage = "Scan" /\ elevation > Width
  /\ stage' = "Merge" /\ s' = Len(segments)
  /\ UNCHANGED <<y, row, elevation, segments, stale, end, code, size, decoder>>

-----------------------------------------------------------------------------
(* Short runs are merged into a bulk next to them.  s counts from one.     *)

Without(q, i) == [k \in 1 .. Len(q) - 1 |-> IF k < i THEN q[k] ELSE q[k + 1]]

\* a run worth keeping, or no run at all
Stays(seg) ==
  \/ seg.flag # ElevationFlag_RLE
  \/ seg.numElements > SmallRun
  \/ seg.startValue = Invalid

\* s < segments.size() - 2, computed without a sign
BelowLast == IF Len(segments) < 2 THEN TRUE ELSE s < Len(segments) - 1

\* the flag of segments[s + 1], which may lie behind the end of the vector
FlagAfter == IF s < Len(segments) THEN segments[s + 1].flag ELSE stale

\* Mutant: the length of the merged run is lost.
JoinNextShort ==
  IF BelowLast /\ FlagAfter = ElevationFlag_RelativeBulk
    THEN Without(segments, s) ELSE segments

\* merge into next segment
JoinNext ==
  IF BelowLast /\ FlagAfter = ElevationFlag_RelativeBulk
    THEN Without(IF s < Len(segments)
                   THEN [segments EXCEPT
                           ![s + 1].numElements = Wrap(@ + segments[s].numElements),
                           ![s + 1].from = segments[s].from]
                   ELSE segments, s)
    ELSE segments

KeepSegment ==
  /\ stage = "Merge" /\ s > 0 /\ Stays(segments[s])
  /\ s' = s - 1
  /\ UNCHANGED <<y, stage, row, elevation, segments, stale, end, code, size, decoder>>

\* Mutant: the segment after a merged one is not looked at again.
MergeSegmentOnce ==
  /\ stage = "Merge" /\ s > 0 /\ ~Stays(segments[s])
  /\ LET joined == JoinNext
     IN  IF s > 1 /\ joined[s - 1].flag = ElevationFlag_RelativeBulk   \* merge into previous segment
           THEN /\ segments' = Without([joined EXCEPT
                      ![s - 1].numElements = Wrap(@ + joined[s].numElements)], s)
                /\ s' = s - 1
           ELSE segments' = joined /\ s' = s - 1
  /\ stale' = IF Len(segments') >= 2 THEN segments'[2].flag ELSE stale
  /\ UNCHANGED <<y, stage, row, elevation, end, code, size, decoder>>

\* Mutant: the index is put back whether or not something was merged.
MergeSegmentAgain ==
  /\ stage = "Merge" /\ s > 0 /\ ~Stays(segments[s])
  /\ LET joined == JoinNext
     IN  IF s > 1 /\ joined[s - 1].flag = ElevationFlag_RelativeBulk   \* merge into previous segment
           THEN /\ segments' = Without([joined EXCEPT
                      ![s - 1].numElements = Wrap(@ + joined[s].numElements)], s)
                /\ s' = IF s <= Len(joined) - 1 THEN s ELSE s - 1
           ELSE segments' = joined /\ s' = s
  /\ stale' = IF Len(segments') >= 2 THEN segments'[2].flag ELSE stale
  /\ UNCHANGED <<y, stage, row, elevation, end, code, size, decoder>>

MergeSegment ==
  /\ stage = "Merge" /\ s > 0 /\ ~Stays(segments[s])
  /\ LET joined == JoinNext
     IN  IF s > 1 /\ joined[s - 1].flag = ElevationFlag_RelativeBulk   \* merge into previous segment
           THEN /\ segments' = Without([joined EXCEPT
                      ![s - 1].numElements = Wrap(@ + joined[s].numElements)], s)
                /\ s' = IF s <= Len(joined) - 1 THEN s ELSE s - 1
           ELSE segments' = joined /\ s' = s - 1
  /\ stale' = IF Len(segments') >= 2 THEN segments'[2].flag ELSE stale
  /\ UNCHANGED <<y, stage, row, elevation, end, code, size, decoder>>

EndMerge ==
  /\ stage = "Merge" /\ s = 0
  /\ stage' = "Write" /\ elevation' = 1 /\ s' = 1
  /\ UNCHANGED <<y, row, segments, stale, end, code, size, decoder>>

-----------------------------------------------------------------------------
(* Output.                                                                 *)

Writing(flag) == stage = "Write" /\ s <= Len(segments) /\ segments[s].flag = flag

WriteRun ==
  /\ Writing(ElevationFlag_RLE)
  /\ code' = code \o <<ElevationFlag_RLE, segments[s].numElements, segments[s].startValue>>
  /\ size' = size + 5
  /\ elevation' = elevation + segments[s].numElements
  /\ s' = s + 1
  /\ UNCHANGED <<y, stage, row, segments, stale, end, decoder>>

WriteBulk ==
  /\ Writing(ElevationFlag_RelativeBulk)
  /\ code' = code \o <<ElevationFlag_RelativeBulk, segments[s].numElements>>
  /\ size' = size + 3
  /\ end' = elevation + segments[s].numElements - 1
  /\ stage' = "WriteBulk"
  /\ UNCHANGED <<y, row, elevation, segments, stale, s, decoder>>

\* Mutant: a difference that does not fit into the byte is allowed.
NearOrEqual(i, j) == \A k, l \in i .. j : row[k] - row[l] <= ElevationFlag_RelativeBulk

\* the columns i .. j differ by less than ElevationFlag_RelativeBulk
Near(i, j) == \A k, l \in i .. j : row[k] - row[l] < ElevationFlag_RelativeBulk

(***************************************************************************)
(* One sub-segment: as many values as fit into a byte each, relative to    *)
(* the least of them.                                                      *)
(***************************************************************************)
WriteSubSegment ==
  /\ stage = "WriteBulk" /\ elevation <= end
  /\ \E j \in elevation .. end :
       /\ Near(elevation, j)
       /\ j < end => ~Near(elevation, j + 1)
       /\ \E m \in elevation .. j :
            /\ \A k \in elevation .. j : row[m] <= row[k]
            /\ code' = code \o <<ElevationFlag_RelativeBulk, row[m]>>
                            \o [k \in 1 .. j - elevation + 1 |-> row[elevation + k - 1] - row[m]]
       /\ size' = size + 3 + (j - elevation + 1)
       /\ elevation' = j + 1
  /\ UNCHANGED <<y, stage, row, segments, stale, s, end, decoder>>

EndBulk ==
  /\ stage = "WriteBulk" /\ elevation > end
  /\ stage' = "Write" /\ s' = s + 1
  /\ UNCHANGED <<y, row, elevation, segments, stale, end, code, size, decoder>>

EndWrite ==
  /\ stage = "Write" /\ s > Len(segments)
  /\ stage' = "Read"
  /\ rest' = code /\ image' = <<>> /\ bulk' = NoBulk
  /\ UNCHANGED <<y, row, elevation, segments, stale, s, end, code, size>>

-----------------------------------------------------------------------------
(* DecompressElevation.                                                    *)

Drop(q, n) == SubSeq(q, n + 1, Len(q))

\* Mutant: the test for the end of the row is one off.
TooLongByTwo == Len(image) + rest[2] > Width + 1

\* the segment at hand is longer than the rest of the row
TooLong == Len(image) + rest[2] > Width

Reading(flags) ==
  /\ stage = "Read" /\ bulk.left = 0 /\ Len(image) < Width
  /\ Len(rest) >= 2 /\ rest[1] \in flags

ReadRun ==
  /\ Reading({ElevationFlag_RLE}) /\ ~TooLong /\ Len(rest) >= 3
  /\ image' = image \o [k \in 1 .. rest[2] |-> rest[3]]
  /\ rest' = Drop(rest, 3)
  /\ UNCHANGED <<y, stage, row, elevation, segments, stale, s, end, code, size, bulk>>

ReadBulk ==
  /\ Reading({ElevationFlag_RelativeBulk}) /\ ~TooLong
  /\ bulk' = [left |-> rest[2], reference |-> 0]
  /\ rest' = Drop(rest, 2)
  /\ UNCHANGED <<y, stage, row, elevation, segments, stale, s, end, code, size, image>>

\* a flag that is neither of the two is passed over
ReadUnknown ==
  /\ Reading(Int \ {ElevationFlag_RLE, ElevationFlag_RelativeBulk}) /\ ~TooLong
  /\ rest' = Drop(rest, 2)
  /\ UNCHANGED <<y, stage, row, elevation, segments, stale, s, end, code, size, image, bulk>>

HasReference == rest # <<>> /\ rest[1] = ElevationFlag_RelativeBulk

\* one value of a bulk, with the reference value before it if there is one
ReadValue ==
  /\ stage = "Read" /\ bulk.left > 0
  /\ \/ /\ HasReference /\ Len(rest) >= 3
        /\ bulk' = [left |-> bulk.left - 1, reference |-> rest[2]]
        /\ image' = Append(image, rest[2] + rest[3])
        /\ rest' = Drop(rest, 3)
     \/ /\ ~HasReference /\ Len(rest) >= 1
        /\ bulk' = [bulk EXCEPT !.left = @ - 1]
        /\ image' = Append(image, bulk.reference + rest[1])
        /\ rest' = Drop(rest, 1)
  /\ UNCHANGED <<y, stage, row, elevation, segments, stale, s, end, code, size>>

\* file is corrupt
Corrupt ==
  /\ Reading(Int) /\ TooLong
  /\ stage' = "Corrupt"
  /\ UNCHANGED <<y, row, elevation, segments, stale, s, end, code, size, decoder>>

\* the code of the row ends where the decoder expects more of it: it goes on
\* with whatever follows
Overrun ==
  /\ stage = "Read"
  /\ IF bulk.left > 0 THEN rest = <<>> \/ (HasReference /\ Len(rest) < 3)
                      ELSE /\ Len(image) < Width
                           /\ \/ Len(rest) < 2
                              \/ /\ Reading({ElevationFlag_RLE}) /\ ~TooLong
                                 /\ Len(rest) < 3
  /\ stage' = "Overrun"
  /\ UNCHANGED <<y, row, elevation, segments, stale, s, end, code, size, decoder>>

EndRow ==
  /\ stage = "Read" /\ bulk.left = 0 /\ Len(image) = Width
  /\ stage' = "Decoded"
  /\ UNCHANGED <<y, row, elevation, segments, stale, s, end, code, size, decoder>>

\* the rows are independent of one another but for the memory of the vector
NextRow ==
  /\ stage = "Decoded"
  /\ y' = y + 1 /\ stage' = "Idle" /\ row' = <<>> /\ elevation' = 1
  /\ segments' = <<>> /\ s' = 0 /\ end' = 0
  /\ code' = <<>> /\ size' = 0
  /\ rest' = <<>> /\ image' = <<>> /\ bulk' = NoBulk
  /\ UNCHANGED stale

Next ==
  \/ BeginRow
  \/ ScanSegment \/ EndScan
  \/ KeepSegment \/ MergeSegment \/ EndMerge
  \/ WriteRun \/ WriteBulk \/ WriteSubSegment \/ EndBulk \/ EndWrite
  \/ ReadRun \/ ReadBulk \/ ReadUnknown \/ ReadValue \/ Corrupt \/ Overrun \/ EndRow
  \/ NextRow

Spec == Init /\ [][Next]_vars

\* The decoder alone, on codes that do not come from a row: a file that was not
\* written to its end, or that holds something else.
DamagedInit(codes) ==
  /\ y = Height - 1 /\ stage = "Read"
  /\ row = <<>>
  /\ elevation = Width + 1
  /\ segments = <<>> /\ stale = Unset /\ s = 0 /\ end = 0
  /\ code \in codes /\ size = 0
  /\ rest = code /\ image = <<>> /\ bulk = NoBulk

-----------------------------------------------------------------------------
(* Properties.                                                             *)

TypeOK ==
  /\ y \in 0 .. Height
  /\ stage \in {"Idle", "Scan", "Merge", "Write", "WriteBulk", "Read", "Decoded",
                "Corrupt", "Overrun"}
  /\ row \in [Columns -> Values] \union {<<>>}
  /\ elevation \in 1 .. Width + 1
  /\ segments \in Seq(RowSegment)
  /\ stale \in {Unset, ElevationFlag_RLE, ElevationFlag_RelativeBulk}
  /\ s \in 0 .. Width + 1
  /\ end \in 0 .. Width
  /\ code \in Seq(Int) /\ size \in Nat
  /\ rest \in Seq(Int) /\ image \in Seq(Int)
  /\ bulk \in [left: 0 .. MaxNumElementsPerRowSegment, reference: Int]

\* the last column of segment k
Last(k) == segments[k].from + segments[k].numElements - 1

(***************************************************************************)
(* At every moment of the scan and of the merge the segments tile the part *)
(* of the row that was scanned, without gap or overlap, and a segment that *)
(* is still a run holds one value only, the one that will be written for   *)
(* all of it.                                                              *)
(***************************************************************************)
SegmentsTile ==
  stage \in {"Scan", "Merge", "Write", "WriteBulk"} =>
    /\ segments # <<>> =>
         /\ segments[1].from = 1
         /\ Last(Len(segments)) = IF stage = "Scan" THEN elevation - 1 ELSE Width
    /\ stage # "Scan" => segments # <<>>
    /\ \A k \in 1 .. Len(segments) :
         /\ k > 1 => segments[k].from = Last(k - 1) + 1
         /\ segments[k].flag = ElevationFlag_RLE =>
              \A i \in segments[k].from .. Last(k) : row[i] = segments[k].startValue

\* What the decoder returns for a row that was coded is what the coder was given,
\* and the decoder neither gives up nor reads past the code of the row
\* (the two buffers a caller compares after ConvertRawImageToContentType and
\* ConvertContentTypeToRawImage).
RoundTrip ==
  row # <<>> =>
    /\ stage \notin {"Corrupt", "Overrun"}
    /\ stage = "Decoded" => image = [i \in Columns |-> row[i]] /\ rest = <<>>

\* Whatever the decoder reads, it writes no pixel behind the end of the row.
RowBound == Len(image) + bulk.left <= Width

\* no two neighbours in the row lie further apart than a byte tells
Smooth == \A k \in DOMAIN row \ {Width} : Near(k, k + 1)

\* CompressElevation allocates four bytes for each pixel.  They are enough for a row
\* in which no neighbours lie 255 or more apart.  A row of other neighbours may take up
\* to three bytes more than it is given, and the code does not test for it.
RowSize == size <= 4 * Width + (IF Smooth THEN 0 ELSE 3)

\* Every variable keeps to its type, and a row to its bytes, but for three that are not
\* allocated where the row is not smooth.
InBounds == TypeOK /\ RowSize

\* The merge loop looks again at the segment after one it merged, so that no
\* short run is left behind a bulk.
NoRunAfterBulk ==
  stage = "Write" =>
    \A k \in 2 .. Len(segments) :
      segments[k - 1].flag = ElevationFlag_RelativeBulk => Stays(segments[k])

\* Every image is coded and decoded to the end, but for one that was damaged: the
\* merge loop, which moves its index both ways, terminates.
Terminates == <>(y = Height \/ (row = <<>> /\ stage \in {"Corrupt", "Overrun"}))
=============================================================================
