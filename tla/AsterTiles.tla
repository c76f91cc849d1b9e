----------------------------- MODULE AsterTiles -----------------------------
(***************************************************************************)
(* How the layer QualityElevation answers a map request: it pads the       *)
(* bounding box for the Lanczos filter, selects the ASTER tiles of one     *)
(* degree it touches, stitches them into one image (neighbours share their *)
(* outermost pixels) and samples the answer from it.  Longitudes wrap at   *)
(* the date border.  Requests share nothing but the table of tiles, which  *)
(* Init fills once, so one at a time stands for them all.                  *)
(*                                                                         *)
(* The code computes with degrees in floating point.  Here a source pixel  *)
(* is Sub units wide, and all lengths of an axis are multiplied by the     *)
(* number n of pixels the request has on it, which makes both the units of *)
(* a source pixel (Sub * n) and of a requested one (the box) integers.     *)
(***************************************************************************)
EXTENDS Integers, Sequences, FiniteSets

CONSTANTS
  NumASTERTilesX,        \* tiles around the globe (360)
  AsterPixelsPerDegree,  \* source pixels of a tile on each axis (3600)
  Sub,                   \* units of a source pixel
  Tiles,                 \* <<longitude, latitude>> of the tiles on the disk
  Requests               \* what a client may ask for

AsterTileStartLongitude == -(NumASTERTilesX \div 2)
AsterTileEndLongitude == AsterTileStartLongitude + NumASTERTilesX - 1
Latitudes == {t[2] : t \in Tiles}
asterTileStartLatitude == CHOOSE y \in Latitudes : \A z \in Latitudes : y <= z
asterTileEndLatitude == CHOOSE y \in Latitudes : \A z \in Latitudes : y >= z

MaxNumAsterTiles == 4  \* on each axis
LanczosWindowSize == 3

\* where the answers of the layer lie between: HandleGetMapRequestResult
Results == {"OK", "InvalidFormat", "InvalidBBox", "InvalidSRS", "InternalError"}

-----------------------------------------------------------------------------
(* One axis of a request: its box starts at min and is extent wide, both in *)
(* units, and n pixels are asked for.                                       *)

X(r) == [min |-> r.west, extent |-> r.width, n |-> r.columns]
Y(r) == [min |-> r.south, extent |-> r.height, n |-> r.rows]

Pixel(a) == Sub * a.n                         \* a source pixel
Degree(a) == AsterPixelsPerDegree * Pixel(a)  \* a tile

Bigger(i, j) == IF i > j THEN i ELSE j
Smaller(i, j) == IF i < j THEN i ELSE j
Ceiling(i, j) == -((-i) \div j)

\* ExtendBoundingBoxForLanczos; a requested pixel is extent * n / n wide
Padding(a) == LanczosWindowSize * Bigger(Pixel(a), a.extent)

Low(a) == a.min * a.n - Padding(a)
High(a) == (a.min + a.extent) * a.n + Padding(a)

First(a) == Low(a) \div Degree(a)

\* the end is fudged by much less than a pixel
Last(a) == (High(a) - 1) \div Degree(a)

Num(a) == Last(a) - First(a) + 1

(***************************************************************************)
(* The requests the model speaks of: those whose padded box begins on the  *)
(* globe, or less than one globe to the west of it, and no more than half  *)
(* a globe unless it is too wide anyway.  Further to the west the index of *)
(* GetASTERTiles is negative; there, from half a globe on, and to the east *)
(* of the date border startX wraps but the box does not.                   *)
(***************************************************************************)
OnGlobe(r) ==
  /\ First(X(r)) - AsterTileStartLongitude >= -NumASTERTilesX
  /\ First(X(r)) <= AsterTileEndLongitude
  /\ Num(X(r)) <= MaxNumAsterTiles =>
       First(X(r)) - AsterTileStartLongitude >= AsterTileStartLongitude

\* what HandleGetMapRequest of the map service lets through: no box that ends
\* before it begins, no image without pixels (images of a negative size, which it
\* does not refuse, are left out)
Request ==
  [west: Int, width: Nat, columns: Nat \ {0},
   south: Int, height: Nat, rows: Nat \ {0},
   knownCRS: BOOLEAN, dataType: STRING]

\* fileExists has a row for each latitude from -90 to 89.
ASSUME AsterAssumption ==
  /\ {NumASTERTilesX, AsterPixelsPerDegree, Sub} \subseteq Nat \ {0}
  /\ NumASTERTilesX % 2 = 0 /\ Sub % 2 = 0
  /\ NumASTERTilesX >= MaxNumAsterTiles
  /\ Tiles # {}
  /\ Tiles \subseteq (AsterTileStartLongitude .. AsterTileEndLongitude) \X (-90 .. 89)
  /\ Requests \subseteq Request
  /\ \A r \in Requests : OnGlobe(r)

-----------------------------------------------------------------------------
VARIABLES
  pc,       \* where the handler stands
  request,
  start,    \* asterStartX, asterStartY
  touched,  \* asterTilesTouched
  at,       \* the place of the table GetASTERTiles is at
  t,        \* the loop variable: the next tile to load
  image,    \* where tiles were loaded to: offset of the first pixel -> tile
  result

vars == <<pc, request, start, touched, at, t, image, result>>

\* numPixelsX and numPixelsY of the stitched image
Pixels(num) == num * AsterPixelsPerDegree + 1
Pitch == Pixels(Num(X(request)))

NoRequest == [knownCRS |-> FALSE]

Init ==
  /\ pc = "idle"
  /\ request = NoRequest
  /\ start = <<0, 0>> /\ touched = <<>> /\ at = [x |-> 0, y |-> 0]
  /\ t = 1 /\ image = <<>>
  /\ result = "OK"

\* HandleGetMapRequest is called; it looks at the coordinate system and the type
Receive ==
  /\ pc = "idle"
  /\ request' \in Requests
  /\ result' = IF ~request'.knownCRS THEN "InvalidSRS"
               ELSE IF request'.dataType \notin {"S16", "U8"} THEN "InvalidFormat"
               ELSE "OK"
  /\ pc' = IF result' = "OK" THEN "select" ELSE "reply"
  /\ UNCHANGED <<start, touched, at, t, image>>

Reply(code) == result' = code /\ pc' = "reply"

\* TransformBBox into the coordinates of the tiles fails
TransformFails ==
  /\ pc = "select"
  /\ Reply("InvalidBBox")
  /\ UNCHANGED <<request, start, touched, at, t, image>>

Outside == <<NumASTERTilesX, 0>>  \* no tile has this longitude

\* asterTiles, as Init fills it: rows from south to north, in a row from west to
\* east; what lies outside of the table is no tile
asterTiles(index) ==
  IF index \in 0 .. NumASTERTilesX * (asterTileEndLatitude - asterTileStartLatitude + 1) - 1
    THEN <<AsterTileStartLongitude + (index % NumASTERTilesX),
           asterTileStartLatitude + (index \div NumASTERTilesX)>>
    ELSE Outside

\* the places of the table that Init marks with MissingTileCoordinate
Missing ==
  ((AsterTileStartLongitude .. AsterTileEndLongitude)
     \X (asterTileStartLatitude .. asterTileEndLatitude)) \ Tiles

\* where GetASTERTiles begins and ends in the table
BeginX(r) == First(X(r)) - AsterTileStartLongitude
BeginY(r) == First(Y(r)) - asterTileStartLatitude
clampedStartY(r) == Bigger(BeginY(r), 0)
EndX(r) == Last(X(r)) - AsterTileStartLongitude

\* Mutant: rows to the north of the table are not left out.
UnclampedEndY(r) == Last(Y(r)) - asterTileStartLatitude

EndY(r) == Smaller(Last(Y(r)), asterTileEndLatitude) - asterTileStartLatitude

Select ==
  /\ pc = "select"
  /\ pc' = "gather"
  /\ start' = <<BeginX(request), BeginY(request)>>
  /\ at' = [x |-> BeginX(request), y |-> clampedStartY(request)]
  /\ UNCHANGED <<request, touched, t, image, result>>

(***************************************************************************)
(* One turn of the loops of GetASTERTiles, which appends the tiles that    *)
(* the disk has, row by row from the south.  Columns wrap around the date  *)
(* border.                                                                 *)
(***************************************************************************)
GatherTile ==
  /\ pc = "gather" /\ at.y <= EndY(request)
  /\ LET tile == asterTiles(at.y * NumASTERTilesX + ((at.x + NumASTERTilesX) % NumASTERTilesX))
     IN  touched' = IF tile \in Missing THEN touched ELSE Append(touched, tile)
  /\ at' = IF at.x < EndX(request) THEN [at EXCEPT !.x = @ + 1]
                                   ELSE [x |-> start[1], y |-> at.y + 1]
  /\ UNCHANGED <<pc, request, start, t, image, result>>

\* Mutant: startX stays wrapped although the box is not.
WrapStart(r) == (BeginX(r) + NumASTERTilesX) % NumASTERTilesX

\* startX as GetASTERTiles leaves it: a box that begins to the west of the date
\* border, with its padding, keeps a negative start
StartX(r) ==
  LET wrapped == (BeginX(r) + NumASTERTilesX) % NumASTERTilesX
  IN  IF Low(X(r)) < 0 /\ wrapped > AsterTileEndLongitude
        THEN wrapped - NumASTERTilesX ELSE wrapped

\* The tiles are selected; too many are only now refused.
EndGather ==
  /\ pc = "gather" /\ at.y > EndY(request)
  /\ start' = [start EXCEPT ![1] = StartX(request)]
  /\ IF Num(X(request)) > MaxNumAsterTiles \/ Num(Y(request)) > MaxNumAsterTiles
       THEN Reply("InvalidBBox")
       ELSE pc' = "load" /\ UNCHANGED result
  /\ UNCHANGED <<request, touched, at, t, image>>

\* Mutant: the rows of tiles are stitched with the south on top.
SouthUp(tile) ==
  LET x == (tile[1] - start[1] - AsterTileStartLongitude + NumASTERTilesX) % NumASTERTilesX
      y == tile[2] - start[2] - asterTileStartLatitude
  IN  (y * Pitch + x) * AsterPixelsPerDegree

\* the first pixel of a tile in the stitched image, whose rows go from north to
\* south
pixelOffset(tile) ==
  LET x == (tile[1] - start[1] - AsterTileStartLongitude + NumASTERTilesX) % NumASTERTilesX
      y == tile[2] - start[2] - asterTileStartLatitude
  IN  ((Num(Y(request)) - y - 1) * Pitch + x) * AsterPixelsPerDegree

LoadTile ==
  /\ pc = "load" /\ t <= Len(touched)
  /\ LET offset == pixelOffset(touched[t])
     IN  image' = [o \in DOMAIN image \union {offset} |-> IF o = offset THEN touched[t] ELSE image[o]]
  /\ t' = t + 1
  /\ UNCHANGED <<pc, request, start, touched, at, result>>

\* Mutant: the loop is left without a result.
LoadBreaks ==
  /\ pc = "load" /\ t <= Len(touched)
  /\ t' = Len(touched) + 1
  /\ UNCHANGED <<pc, request, start, touched, at, image, result>>

\* LoadASTERTileContent returns false: the file cannot be opened, is not of s16,
\* or a line of it cannot be read
LoadFails ==
  /\ pc = "load" /\ t <= Len(touched)
  /\ Reply("InternalError")
  /\ UNCHANGED <<request, start, touched, at, t, image>>

\* the second TransformBBox, for a source that is not used yet
SecondTransformFails ==
  /\ pc = "load" /\ t > Len(touched)
  /\ Reply("InvalidBBox")
  /\ UNCHANGED <<request, start, touched, at, t, image>>

\* SampleWithLanczos
Sample ==
  /\ pc = "load" /\ t > Len(touched)
  /\ Reply("OK")
  /\ UNCHANGED <<request, start, touched, at, t, image>>

\* the handler returns and its locals go
Return ==
  /\ pc = "reply"
  /\ pc' = "idle"
  /\ request' = NoRequest
  /\ start' = <<0, 0>> /\ touched' = <<>> /\ at' = [x |-> 0, y |-> 0]
  /\ t' = 1 /\ image' = <<>>
  /\ result' = "OK"

Next ==
  \/ Receive \/ TransformFails \/ Select \/ GatherTile \/ EndGather \/ LoadTile \/ LoadFails
  \/ SecondTransformFails \/ Sample \/ Return

Spec == Init /\ [][Next]_vars

-----------------------------------------------------------------------------
(* The sampler's window into the stitched image.                           *)

\* loadedBBox.minX and loadedBBox.maxY, without the half pixel around them
Loaded(a, s) == s * Degree(a)
LoadedWest == Loaded(X(request), start[1] + AsterTileStartLongitude)
LoadedNorth == Loaded(Y(request), start[2] + asterTileStartLatitude + Num(Y(request)))

\* offsetX and offsetY of the SampleTransform, with that half pixel
offsetX == LET a == X(request) IN a.min * a.n - LoadedWest + (Pixel(a) \div 2)
offsetY == LET a == Y(request)
           IN  LoadedNorth - (a.min + a.extent) * a.n + (Pixel(a) \div 2)

\* imgLanczosWindowX and Y: the filter is stretched when the request is coarser
\* than the source, and takes this many pixels to each side, itself not counted
\* at the end
imgLanczosWindow(a) ==
  Bigger(LanczosWindowSize, Ceiling(LanczosWindowSize * a.extent, Pixel(a)))

\* the columns the horizontal pass reads for column x of the answer
ColumnsRead(x) ==
  LET a == X(request)
      iSrcX == (x * a.extent + offsetX) \div Pixel(a)
  IN  iSrcX - imgLanczosWindow(a) + 1 .. iSrcX + imgLanczosWindow(a) - 1

\* tmpImageOffsetY, a conversion that cuts towards zero
tmpImageOffsetY ==
  LET a == Y(request)
      exact == offsetY - imgLanczosWindow(a) * Pixel(a)
  IN  IF exact < 0 THEN -((-exact) \div Pixel(a)) ELSE exact \div Pixel(a)

\* the rows of the intermediate image
tmpImageHeight ==
  LET a == Y(request)
  IN  Ceiling(a.extent * a.n, Pixel(a)) + 2 * imgLanczosWindow(a)

\* the rows the horizontal pass reads: one for each row of the intermediate image,
\* whether or not the vertical pass looks at it
RowsRead == tmpImageOffsetY .. tmpImageOffsetY + tmpImageHeight - 1

\* the rows that weigh in row y of the answer, by way of the rows of the
\* intermediate image the vertical pass reads
RowsUsed(y) ==
  LET a == Y(request)
      iSrcY == tmpImageOffsetY + imgLanczosWindow(a) + ((y * a.extent) \div Pixel(a))
  IN  iSrcY - imgLanczosWindow(a) + 1 .. iSrcY + imgLanczosWindow(a) - 1

-----------------------------------------------------------------------------
(* Properties.                                                             *)

TypeOK ==
  /\ pc \in {"idle", "select", "gather", "load", "reply"}
  /\ pc = "idle" <=> request = NoRequest
  /\ start[1] \in -NumASTERTilesX .. NumASTERTilesX - 1 /\ start[2] \in Int
  /\ touched \in Seq(Tiles) /\ at \in [x: Int, y: Int]
  /\ t \in 1 .. Len(touched) + 1
  /\ \A offset \in DOMAIN image : offset \in Nat /\ image[offset] \in Tiles
  /\ result \in Results

Globe == NumASTERTilesX * AsterPixelsPerDegree

\* Every tile is stitched where it lies on the globe: on both sides of the date
\* border, and to the south as to the north of the equator, the pixels of the
\* image lie where the transform of the sampler takes them to be.
TilesInPlace ==
  \A offset \in DOMAIN image :
    LET column == offset % Pitch
        row == offset \div Pitch
        west == LoadedWest \div Pixel(X(request))
        north == LoadedNorth \div Pixel(Y(request))
    IN  /\ (image[offset][1] * AsterPixelsPerDegree - (west + column)) % Globe = 0
        /\ (image[offset][2] + 1) * AsterPixelsPerDegree = north - row

\* What is loaded lies within the image that was allocated, to its last line and
\* pixel, and no more than sixteen tiles are loaded, each to a place of its own.
TilesFit ==
  pc = "load" =>
    /\ Len(touched) <= MaxNumAsterTiles * MaxNumAsterTiles
    /\ Cardinality(DOMAIN image) = t - 1
    /\ \A offset \in DOMAIN image :
         /\ (offset % Pitch) + AsterPixelsPerDegree < Pitch
         /\ (offset \div Pitch) + AsterPixelsPerDegree < Pixels(Num(Y(request)))

\* tile meets the padded box, on this or another turn of the globe
Touches(tile, r) ==
  /\ \E turn \in -1 .. 1 :
       LET x == tile[1] + turn * NumASTERTilesX
       IN  x * Degree(X(r)) < High(X(r)) /\ (x + 1) * Degree(X(r)) > Low(X(r))
  /\ tile[2] * Degree(Y(r)) < High(Y(r)) /\ (tile[2] + 1) * Degree(Y(r)) > Low(Y(r))

\* A request is answered with OK only when all the tiles that meet its padded
\* box, and no others, are in the image.
AnswersAreWhole ==
  pc = "reply" /\ result = "OK" =>
    {image[offset] : offset \in DOMAIN image} = {tile \in Tiles : Touches(tile, request)}

\* Whatever weighs in the answer lies in the image, also for the outermost pixels
\* of the answer and for requests much coarser or much finer than the source:
\* the padding of the box, half a pixel of offset, the overlap of one pixel and
\* the window of the filter fit each other.  The horizontal pass may read one row
\* more, the one that would follow the last row of the image, and only for a request
\* that is coarser than the source.
WindowInside ==
  pc = "load" =>
    /\ \A x \in {0, request.columns - 1} : ColumnsRead(x) \subseteq 0 .. Pitch - 1
    /\ \A y \in {0, request.rows - 1} :
         RowsUsed(y) \subseteq 0 .. Pixels(Num(Y(request))) - 1
    /\ LET a == Y(request)
           below == IF a.extent > Pixel(a) THEN 1 ELSE 0
       IN  RowsRead \subseteq 0 .. Pixels(Num(a)) - 1 + below

\* Nothing is written beyond the stitched image, nothing beyond it weighs in the answer,
\* and of what is beyond it no more than one row is read.
WithinImage == TilesFit /\ WindowInside
=============================================================================
