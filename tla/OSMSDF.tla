-------------------------------- MODULE OSMSDF --------------------------------
(***************************************************************************)
(* The layer of layers/OSMSDF.cpp, with what it has from the class Layer   *)
(* of WebMapService.cpp.  The layer is set up with a list of reference     *)
(* systems and a database of vector tiles.  For a request it chooses a     *)
(* zoom level, opens the tiles of the requested box one by one (module     *)
(* VectorTiles, whose steps are steps of this one), takes their water      *)
(* polygons, and computes for each pixel its distance to the water.        *)
(*                                                                         *)
(* Reference systems differ from each other by an offset, which stands for *)
(* any reprojection that is not the identity.  Distances are squared, the  *)
(* centres of pixels lie between the units of the map: both are computed   *)
(* in half units, and squares in tenths of those.  A pixel holds its       *)
(* squared distance, negative in water and no more than that of            *)
(* DistanceDomain, instead of the one of 256 shades that increases with it.*)
(***************************************************************************)
EXTENDS VectorTiles

CONSTANTS
  Configs,            \* lists of reference systems a configuration may have, in order
  Offset,             \* the offset of each of them
  Requests,           \* what may be asked for: crs, dataType, bbox, width and height
  MaxOSMZoomLevel,
  TilePixels,         \* pixels of a tile that a request may not exceed by much (256)
  DistanceDomain      \* the distance that is still told, in pixels (10)

OSM == "EPSG:3857"

\* The sides of tiles and the places of boxes are whole numbers.
ASSUME OSMAssumption ==
  /\ MaxOSMZoomLevel \in Nat /\ TilePixels \in Nat \ {0} /\ DistanceDomain \in Nat \ {0}
  /\ MapWidth # 0
  /\ \A level \in 0 .. MaxOSMZoomLevel : 2 ^ level \in Nat \ {0} /\ MapWidth % 2 ^ level = 0
  /\ \A config \in Configs : config \in Seq(DOMAIN Offset)
  /\ OSM \in DOMAIN Offset /\ \A crs \in DOMAIN Offset : Offset[crs] \in Int \X Int
  /\ \A request \in Requests :
       /\ request.width \in Nat \ {0} /\ request.height \in Nat \ {0}
       /\ request.bbox \in [minX: Int, maxX: Int, minY: Int, maxY: Int]
       /\ request.bbox.minX <= request.bbox.maxX /\ request.bbox.minY <= request.bbox.maxY
       /\ (request.bbox.maxX - request.bbox.minX) % request.width = 0

VARIABLES
  stage,           \* of the layer
  supportedCRS,    \* the reference systems that may be asked for
  imported,        \* those that GDAL could make sense of
  srsTransforms,   \* from pairs of them to a transformation, or NULL
  request, osmBBox, zoomLevel,
  column, row,     \* the tile that is loaded
  feature,         \* the number of the feature that is looked at
  waterPolygons,   \* what the tree finds: polygons in the reference system of the request
  x, y,            \* the pixel that is computed, rows counted from the south
  candidates,      \* polygons of the query that are still to be looked at
  minSqrDistance,
  img,
  result,
  opened,          \* auxiliary: the tiles opened for this request, with their water
  untransformed    \* auxiliary: features left out since they could not be transformed

setup == <<supportedCRS, imported, srsTransforms>>
loading == <<column, row, feature, waterPolygons, opened, untransformed>>
pixel == <<x, y, candidates, minSqrDistance, img>>
asked == <<request, osmBBox, zoomLevel>>
osmVars == <<vars, stage, setup, asked, loading, pixel, result>>

NoRequest == [crs |-> "", dataType |-> "", width |-> 1, height |-> 1,
              bbox |-> [minX |-> 0, minY |-> 0, maxX |-> 0, maxY |-> 0]]
NoPixels == <<>>

OSMInit ==
  /\ Init
  /\ stage = "new"
  /\ supportedCRS = {} /\ imported = {} /\ srsTransforms = <<>>
  /\ request = NoRequest /\ osmBBox = NoRequest.bbox /\ zoomLevel = 0
  /\ column = 0 /\ row = 0 /\ feature = 1 /\ waterPolygons = <<>>
  /\ x = 0 /\ y = 0 /\ candidates = {} /\ minSqrDistance = 0 /\ img = NoPixels
  /\ result = "" /\ opened = <<>> /\ untransformed = {}

-----------------------------------------------------------------------------
(* Layer::InitBase and Init.                                               *)

\* pairs of positions, the first not after the second
InOrder(config) == {q \in (DOMAIN config) \X (DOMAIN config) : q[1] <= q[2]}

\* Mutant: only the way from a reference system to a later one.
TransformPairsForward(config) == {<<config[q[1]], config[q[2]]>> : q \in InOrder(config)}

\* each with itself and with those after it, in both directions
TransformPairs(config) ==
  UNION {{<<config[q[1]], config[q[2]]>>, <<config[q[2]], config[q[1]]>>} : q \in InOrder(config)}

(***************************************************************************)
(* A reference system that GDAL does not support ends the program, one     *)
(* that it fails to import in another way is kept as it is.  There is no   *)
(* transformation from or to such a one: NULL is stored for it, as for two *)
(* reference systems that are the same.                                    *)
(***************************************************************************)
InitBase ==
  /\ stage = "new"
  /\ \E config \in Configs : \E good \in SUBSET {config[i] : i \in DOMAIN config} :
       /\ config # <<>>
       /\ supportedCRS' = {config[i] : i \in DOMAIN config}
       /\ imported' = good
       /\ srsTransforms' = [pair \in TransformPairs(config) |->
                              IF pair[1] # pair[2] /\ {pair[1], pair[2]} \subseteq good
                                THEN "transform" ELSE "NULL"]
  /\ stage' = "based"
  /\ UNCHANGED <<vars, asked, loading, pixel, result>>

\* no reference system, one that is not supported, or a name without a number
InitBaseFails ==
  /\ stage = "new"
  /\ stage' = "failed"
  /\ UNCHANGED <<vars, setup, asked, loading, pixel, result>>

\* Without its own reference system, or without a database, the layer cannot work.
InitLayer ==
  /\ stage = "based"
  /\ stage' = IF OSM \in supportedCRS /\ mbtiles THEN "ready" ELSE "failed"
  /\ UNCHANGED <<vars, setup, asked, loading, pixel, result>>

-----------------------------------------------------------------------------
(* HandleGetMapRequest.                                                    *)

Answer(what) ==
  /\ stage' = "ready" /\ result' = what
  /\ request' = NoRequest /\ osmBBox' = NoRequest.bbox /\ zoomLevel' = 0
  /\ column' = 0 /\ row' = 0 /\ feature' = 1 /\ waterPolygons' = <<>>
  /\ opened' = <<>> /\ untransformed' = {}
  /\ x' = 0 /\ y' = 0 /\ candidates' = {} /\ minSqrDistance' = 0 /\ img' = NoPixels

\* a point of one reference system in another one
Reproject(point, from, to) ==
  <<point[1] - Offset[from][1] + Offset[to][1], point[2] - Offset[from][2] + Offset[to][2]>>

\* TransformBBox transforms two corners, or copies the box without a transformation
TransformBBox(bbox, from, to) ==
  LET least == Reproject(<<bbox.minX, bbox.minY>>, from, to)
      most == Reproject(<<bbox.maxX, bbox.maxY>>, from, to)
  IN  IF srsTransforms[<<from, to>>] = "NULL" THEN bbox
      ELSE [minX |-> least[1], minY |-> least[2], maxX |-> most[1], maxY |-> most[2]]

Refuse ==
  /\ stage = "ready"
  /\ \E r \in Requests :
       \/ r.crs \notin supportedCRS /\ Answer("InvalidSRS")
       \/ r.crs \in supportedCRS /\ r.dataType # "DT_U8" /\ Answer("InvalidFormat")
       \/ /\ r.crs \in supportedCRS /\ r.dataType = "DT_U8"
          /\ <<r.crs, OSM>> \in DOMAIN srsTransforms
          /\ srsTransforms[<<r.crs, OSM>>] # "NULL"  \* the transformation fails
          /\ Answer("InvalidBBox")
  /\ UNCHANGED <<vars, setup>>

Width(bbox) == bbox.maxX - bbox.minX
Height(bbox) == bbox.maxY - bbox.minY

\* 2^level tiles in a row are enough for the pixels asked for
Enough(level, r, bbox) ==
  LET tiles(n, side) == IF level >= 0 THEN n * MapWidth <= side * TilePixels * 2 ^ level
                                      ELSE n * MapWidth * 2 ^ (-level) <= side * TilePixels
  IN  tiles(r.width, Width(bbox)) /\ tiles(r.height, Height(bbox))

(***************************************************************************)
(* The logarithm of a density that is not finite cannot be converted to an *)
(* integer, and that of one below a half is negative, as is then the       *)
(* number of digits that 1 is shifted by: neither is defined.              *)
(***************************************************************************)
Undefined(r, bbox) == Width(bbox) = 0 \/ Height(bbox) = 0 \/ Enough(-1, r, bbox)

\* the least level with enough tiles, as far as there are levels
ZoomLevel(r, bbox) ==
  LET levels == {level \in 0 .. MaxOSMZoomLevel : Enough(level, r, bbox)}
  IN  IF levels = {} THEN MaxOSMZoomLevel
      ELSE CHOOSE level \in levels : \A other \in levels : level <= other

\* where a coordinate lies in the rows or columns of tiles, rounded down or up
TileBelow(coordinate) == ((coordinate - MapLeft) * 2 ^ zoomLevel) \div MapWidth
TileAbove(coordinate) == -(((MapLeft - coordinate) * 2 ^ zoomLevel) \div MapWidth)

\* the tiles from first until before end
Left == IF TileBelow(osmBBox.minX) > 0 THEN TileBelow(osmBBox.minX) ELSE 0
Bottom == IF TileBelow(osmBBox.minY) > 0 THEN TileBelow(osmBBox.minY) ELSE 0

\* Mutant: the last tile is the one before that of the upper bound.
RightShort == IF TileAbove(osmBBox.maxX) - 1 < 2 ^ zoomLevel THEN TileAbove(osmBBox.maxX) - 1 ELSE 2 ^ zoomLevel

Right == IF TileAbove(osmBBox.maxX) + 1 < 2 ^ zoomLevel THEN TileAbove(osmBBox.maxX) + 1 ELSE 2 ^ zoomLevel
Top == IF TileAbove(osmBBox.maxY) + 1 < 2 ^ zoomLevel THEN TileAbove(osmBBox.maxY) + 1 ELSE 2 ^ zoomLevel

Missing(pair) == pair \notin DOMAIN srsTransforms

HandleGetMapRequest ==
  /\ stage = "ready"
  /\ \E r \in Requests :
       /\ r.crs \in supportedCRS /\ r.dataType = "DT_U8"
       /\ request' = r
       /\ IF Missing(<<r.crs, OSM>>) \/ Missing(<<OSM, r.crs>>)
            THEN stage' = "undefined" /\ UNCHANGED <<osmBBox, zoomLevel>>
            ELSE LET bbox == TransformBBox(r.bbox, r.crs, OSM)
                 IN  /\ osmBBox' = bbox
                     /\ IF Undefined(r, bbox)
                          THEN stage' = "undefined" /\ UNCHANGED zoomLevel
                          ELSE stage' = "begin" /\ zoomLevel' = ZoomLevel(r, bbox)
  /\ result' = ""
  /\ UNCHANGED <<vars, setup, loading, pixel>>

-----------------------------------------------------------------------------
(* LoadDataSets.                                                           *)

\* the first tile of the request, or the pixels when there is none
FirstTile == IF Bottom < Top /\ Left < Right THEN <<"load", Left, Bottom>> ELSE <<"raster", 0, 0>>

\* the tile after the one in this column and row
TileAfter ==
  IF column + 1 < Right THEN <<"load", column + 1, row>>
  ELSE IF row + 1 < Top THEN <<"load", Left, row + 1>>
  ELSE <<"raster", 0, 0>>

GoTo(next) == stage' = next[1] /\ column' = next[2] /\ row' = next[3]

BeginLoading ==
  /\ stage = "begin"
  /\ GoTo(FirstTile)
  /\ UNCHANGED <<vars, setup, asked, feature, waterPolygons, opened, untransformed, pixel, result>>

OpenDataSet ==
  /\ stage = "load"
  /\ Open(<<zoomLevel, column, row>>)
  /\ stage' = "opening"
  /\ UNCHANGED <<setup, asked, loading, pixel, result>>

\* VectorTiles::Open works, in the same thread.
Opening ==
  /\ stage = "opening"
  /\ Converting
  /\ UNCHANGED <<stage, setup, asked, loading, pixel, result>>

\* Nothing was opened, and the request fails whatever the other tiles hold.
LoadFails ==
  /\ stage = "opening" /\ pc = "NULL"
  /\ Release
  /\ Answer("InternalError")
  /\ UNCHANGED setup

\* the features of the layer "water", if the tile has one
waterLayer == IF "water" \in DOMAIN dataset THEN dataset["water"] ELSE <<>>

Opened ==
  /\ stage = "opening" /\ pc \in {"emptyTile", "dataset"}
  /\ stage' = "shapes" /\ feature' = 1
  /\ opened' = Append(opened, [place |-> place, water |-> waterLayer])
  /\ UNCHANGED <<vars, setup, asked, column, row, waterPolygons, untransformed, pixel, result>>

LoadingShapes == stage = "shapes" /\ feature <= Len(waterLayer)

ReprojectParts(parts) ==
  [i \in DOMAIN parts |-> [j \in DOMAIN parts[i] |-> [v \in DOMAIN parts[i][j] |->
     Reproject(parts[i][j][v], OSM, request.crs)]]]

Transforms == srsTransforms[<<OSM, request.crs>>] # "NULL"

\* the polygons of a feature, in the reference system of the request
PolygonsOf(f) ==
  IF f.type # "POLYGON" THEN <<>> ELSE IF Transforms THEN ReprojectParts(f.parts) ELSE f.parts

\* The constructor of Polygon asserts how its rings are oriented.
AreasFit(poly) == /\ Area(poly[1]) >= 0
                  /\ \A i \in 2 .. Len(poly) : Area(poly[i]) <= 0

\* Mutant: the polygons of the feature take the place of those before.
LoadShapeAlone ==
  /\ LoadingShapes /\ waterLayer[feature].parts # <<>>
  /\ waterPolygons' = PolygonsOf(waterLayer[feature])
  /\ feature' = feature + 1
  /\ UNCHANGED <<vars, stage, setup, asked, column, row, opened, untransformed, pixel, result>>

\* one Polygon in the tree for each polygon of the feature; other features have none
LoadShape ==
  /\ LoadingShapes /\ waterLayer[feature].parts # <<>>
  /\ waterPolygons' = waterPolygons \o PolygonsOf(waterLayer[feature])
  /\ feature' = feature + 1
  /\ UNCHANGED <<vars, stage, setup, asked, column, row, opened, untransformed, pixel, result>>

\* The transformation of its points fails: the feature is left out.
LeaveShapeOut ==
  /\ LoadingShapes /\ waterLayer[feature].parts # <<>> /\ Transforms
  /\ untransformed' = untransformed \union {<<Len(opened), feature>>}
  /\ feature' = feature + 1
  /\ UNCHANGED <<vars, stage, setup, asked, column, row, opened, waterPolygons, pixel, result>>

\* An assertion fails, in a build that has them.
AreaAssertionFails ==
  /\ LoadingShapes
  /\ \E i \in DOMAIN PolygonsOf(waterLayer[feature]) : ~AreasFit(PolygonsOf(waterLayer[feature])[i])
  /\ stage' = "aborted"
  /\ UNCHANGED <<vars, setup, asked, loading, pixel, result>>

\* A feature without a geometry is used as if it had one.
NoGeometry ==
  /\ LoadingShapes /\ waterLayer[feature].parts = <<>>
  /\ stage' = "crashed"
  /\ UNCHANGED <<vars, setup, asked, loading, pixel, result>>

ReleaseDataSet ==
  /\ stage = "shapes" /\ feature > Len(waterLayer)
  /\ Release
  /\ GoTo(TileAfter) /\ feature' = 1
  /\ UNCHANGED <<setup, asked, waterPolygons, opened, untransformed, pixel, result>>

-----------------------------------------------------------------------------
(* RasterImg.                                                              *)

Unit == 10

\* the squared distance of a point to a segment (ZFXMath), in tenths, rounded up
SegmentSqrDistance(a, b, q) ==
  LET d == <<b[1] - a[1], b[2] - a[2]>>
      e == <<q[1] - a[1], q[2] - a[2]>>
      f == <<q[1] - b[1], q[2] - b[2]>>
      along == e[1] * d[1] + e[2] * d[2]
      across == e[1] * d[2] - e[2] * d[1]
      size == d[1] * d[1] + d[2] * d[2]
  IN  IF along <= 0 THEN Unit * (e[1] * e[1] + e[2] * e[2])
      ELSE IF along >= size THEN Unit * (f[1] * f[1] + f[2] * f[2])
      ELSE -((-(across * across * Unit)) \div size)

Doubled(ring) == [v \in DOMAIN ring |-> <<2 * ring[v][1], 2 * ring[v][2]>>]
Edges(ring) == {<<ring[v], ring[(v % Len(ring)) + 1]>> : v \in DOMAIN ring}
LeastOf(set) == CHOOSE a \in set : \A b \in set : a <= b

RingSqrDistance(ring, q) == LeastOf({SegmentSqrDistance(e[1], e[2], q) : e \in Edges(Doubled(ring))})

\* is the point within the ring, by the edges that cross the ray to its east?
InRing(ring, q) ==
  LET crosses(a, b) ==
        /\ (a[2] > q[2]) # (b[2] > q[2])
        /\ LET d == (b[1] - a[1]) * (q[2] - a[2]) - (q[1] - a[1]) * (b[2] - a[2])
           IN  IF b[2] > a[2] THEN d > 0 ELSE d < 0
      crossings[v \in 0 .. Len(ring)] ==
        IF v = 0 THEN FALSE
        ELSE crossings[v - 1] # crosses(Doubled(ring)[v], Doubled(ring)[(v % Len(ring)) + 1])
  IN  crossings[Len(ring)]

Distance(ring, q) == [sqr |-> RingSqrDistance(ring, q), inside |-> InRing(ring, q)]

\* Within the exterior, the nearest ring decides on which side of it the point is.
ComputeSignedSquareDistance(poly, q) ==
  LET exterior == Distance(poly[1], q)
      nearest[i \in 1 .. Len(poly)] ==
        IF i = 1 THEN exterior
        ELSE LET hole == Distance(poly[i], q)
             IN  IF hole.sqr < nearest[i - 1].sqr
                   THEN [sqr |-> hole.sqr, inside |-> ~hole.inside]
                   ELSE nearest[i - 1]
      found == IF exterior.inside THEN nearest[Len(poly)] ELSE exterior
  IN  IF found.inside THEN -found.sqr ELSE found.sqr

\* the box around the exterior of a polygon
Box(poly) ==
  LET xs == {2 * poly[1][v][1] : v \in DOMAIN poly[1]}
      ys == {2 * poly[1][v][2] : v \in DOMAIN poly[1]}
      most(set) == CHOOSE a \in set : \A b \in set : b <= a
  IN  [left |-> LeastOf(xs), right |-> most(xs), bottom |-> LeastOf(ys), top |-> most(ys)]

Beyond(value, least, most) == IF value < least THEN least - value ELSE IF value > most THEN value - most ELSE 0

SqrDistanceToBoundingBox(box, q) ==
  LET dx == Beyond(q[1], box.left, box.right)
      dy == Beyond(q[2], box.bottom, box.top)
  IN  Unit * (dx * dx + dy * dy)

\* the size of a pixel, by the width of the image in both directions
CellSize == Width(request.bbox) \div request.width
Center == <<2 * request.bbox.minX + (2 * x + 1) * CellSize, 2 * request.bbox.minY + (2 * y + 1) * CellSize>>
ScaledDistanceDomain == 2 * CellSize * DistanceDomain
Farthest == Unit * ScaledDistanceDomain * ScaledDistanceDomain
NotFound == Farthest + 1

\* Mutant: the region is that of the pixel alone.
RegionOfPixel == {i \in DOMAIN waterPolygons :
  /\ Beyond(Center[1], Box(waterPolygons[i]).left, Box(waterPolygons[i]).right) <= CellSize
  /\ Beyond(Center[2], Box(waterPolygons[i]).bottom, Box(waterPolygons[i]).top) <= CellSize}

\* what the tree finds (LooseQuadtree): the polygons whose box meets the pixel and
\* the distance that is told around it
QueryIntersectsRegion ==
  LET reach == CellSize + ScaledDistanceDomain
  IN  {i \in DOMAIN waterPolygons :
         LET box == Box(waterPolygons[i])
         IN  /\ Beyond(Center[1], box.left, box.right) <= reach
             /\ Beyond(Center[2], box.bottom, box.top) <= reach}

RasterPixel ==
  /\ stage = "raster" /\ y < request.height
  /\ candidates' = QueryIntersectsRegion
  /\ minSqrDistance' = NotFound
  /\ stage' = "query"
  /\ UNCHANGED <<vars, setup, asked, loading, x, y, img, result>>

\* Mutant: the query is not moved on.
LookAtAgain ==
  /\ stage = "query"
  /\ \E i \in candidates :
       LET poly == waterPolygons[i]
           near == SqrDistanceToBoundingBox(Box(poly), Center) < minSqrDistance
           distance == ComputeSignedSquareDistance(poly, Center)
       IN  /\ minSqrDistance' = IF near /\ distance < minSqrDistance THEN distance ELSE minSqrDistance
           /\ candidates' = IF minSqrDistance' < 0 THEN {} ELSE candidates
  /\ UNCHANGED <<vars, stage, setup, asked, loading, x, y, img, result>>

(***************************************************************************)
(* The tree gives the polygons in an order of its own.  What is far away   *)
(* by its box is not looked at; within a polygon the search is over, and   *)
(* the query is only brought to its end.                                   *)
(***************************************************************************)
LookAt ==
  /\ stage = "query"
  /\ \E i \in candidates :
       LET poly == waterPolygons[i]
           near == SqrDistanceToBoundingBox(Box(poly), Center) < minSqrDistance
           distance == ComputeSignedSquareDistance(poly, Center)
       IN  /\ minSqrDistance' = IF near /\ distance < minSqrDistance THEN distance ELSE minSqrDistance
           /\ candidates' = IF minSqrDistance' < 0 THEN {} ELSE candidates \ {i}
  /\ UNCHANGED <<vars, stage, setup, asked, loading, x, y, img, result>>

\* a distance as a pixel tells it
Shade(sqrDistance) ==
  IF sqrDistance > Farthest THEN Farthest ELSE IF sqrDistance < -Farthest THEN -Farthest ELSE sqrDistance

WithPixel(at, shade) ==
  [other \in DOMAIN img \union {at} |-> IF other = at THEN shade ELSE img[other]]

\* Mutant: the first row of the image has the number of the last but one.
WritePixelAbove ==
  /\ stage = "query" /\ candidates = {}
  /\ img' = WithPixel(<<x, request.height - y>>, Shade(minSqrDistance))
  /\ IF x + 1 < request.width THEN x' = x + 1 /\ UNCHANGED y ELSE x' = 0 /\ y' = y + 1
  /\ minSqrDistance' = 0 /\ stage' = "raster"
  /\ UNCHANGED <<vars, setup, asked, loading, candidates, result>>

\* rows of the image are counted from the north
WritePixel ==
  /\ stage = "query" /\ candidates = {}
  /\ img' = WithPixel(<<x, request.height - y - 1>>, Shade(minSqrDistance))
  /\ IF x + 1 < request.width THEN x' = x + 1 /\ UNCHANGED y ELSE x' = 0 /\ y' = y + 1
  /\ minSqrDistance' = 0 /\ stage' = "raster"
  /\ UNCHANGED <<vars, setup, asked, loading, candidates, result>>

Rastered == stage = "raster" /\ y = request.height

AnswerOK ==
  /\ Rastered
  /\ Answer("OK")
  /\ UNCHANGED <<vars, setup>>

OSMStep ==
  \/ InitBase \/ InitBaseFails \/ InitLayer
  \/ BeginLoading \/ OpenDataSet \/ Opening \/ LoadFails \/ Opened
  \/ LoadShape \/ LeaveShapeOut \/ AreaAssertionFails \/ NoGeometry \/ ReleaseDataSet
  \/ RasterPixel \/ LookAt \/ WritePixel \/ AnswerOK

\* The layer is destroyed while no request is at work.
DestroyLayer ==
  /\ stage \in {"ready", "failed"}
  /\ Destroy
  /\ stage' = "destroyed"
  /\ UNCHANGED <<setup, asked, loading, pixel, result>>

OSMNext == OSMStep \/ Refuse \/ HandleGetMapRequest \/ DestroyLayer

\* The thread of a request goes on until it has an answer.
OSMSpec == OSMInit /\ [][OSMNext]_osmVars /\ WF_osmVars(OSMStep)

-----------------------------------------------------------------------------
(* Properties.                                                             *)

OSMTypeOK ==
  /\ TypeOK
  /\ stage \in {"new", "based", "ready", "failed", "destroyed", "begin", "load", "opening", "shapes",
               "raster", "query", "undefined", "aborted", "crashed"}
  /\ imported \subseteq supportedCRS
  /\ request \in Requests \union {NoRequest}
  /\ zoomLevel \in 0 .. MaxOSMZoomLevel
  /\ stage \in {"load", "opening", "shapes"} => /\ column \in Left .. Right - 1
                                               /\ row \in Bottom .. Top - 1
  /\ feature \in Nat \ {0}
  /\ candidates \subseteq DOMAIN waterPolygons
  /\ DOMAIN img \subseteq (0 .. request.width - 1) \X (0 .. request.height - 1)
  /\ result \in {"", "OK", "InvalidSRS", "InvalidFormat", "InvalidBBox", "InternalError"}

\* Between every two reference systems that may be asked for there is an entry in
\* srsTransforms, which GetTransform uses without a look whether it has found one:
\* the only requests whose outcome is not defined are those for a box so large, or
\* so flat, that there is no zoom level for it.
TransformFound ==
  /\ stage \notin {"new"} => supportedCRS \X supportedCRS \subseteq DOMAIN srsTransforms
  /\ stage = "undefined" => Undefined(request, osmBBox)

TileSquare(at) ==
  LET side == MapWidth \div 2 ^ at[1]
  IN  [minX |-> MapLeft + at[2] * side, maxX |-> MapLeft + (at[2] + 1) * side,
       minY |-> MapBottom + at[3] * side, maxY |-> MapBottom + (at[3] + 1) * side]

Overlap(a, b) == /\ a.minX < b.maxX /\ b.minX < a.maxX
                 /\ a.minY < b.maxY /\ b.minY < a.maxY

\* When the pixels are computed, every tile of the chosen level that the requested
\* box overlaps has been opened, and none of them twice.
BoxCovered ==
  stage \in {"raster", "query"} =>
    LET places == {opened[i].place : i \in DOMAIN opened}
        level == 0 .. 2 ^ zoomLevel - 1
    IN  /\ \A i, j \in DOMAIN opened : opened[i].place = opened[j].place => i = j
        /\ \A at \in {zoomLevel} \X level \X level : Overlap(TileSquare(at), osmBBox) => at \in places

\* No water of an opened tile is lost on the way to the tree, but for the features
\* that could not be transformed: as many polygons as they have parts, each at its
\* place in the reference system of the request.
WaterLoaded ==
  stage \in {"raster", "query"} =>
    LET found == {waterPolygons[i] : i \in DOMAIN waterPolygons}
        moved(path) == [v \in DOMAIN path |-> IF Transforms THEN Reproject(path[v], OSM, request.crs)
                                                            ELSE path[v]]
    IN  \A t \in DOMAIN opened : \A f \in DOMAIN opened[t].water :
          LET made == opened[t].water[f]
          IN  made.type = "POLYGON" /\ <<t, f>> \notin untransformed =>
                \A i \in DOMAIN made.parts :
                  [j \in DOMAIN made.parts[i] |-> moved(made.parts[i][j])] \in found

\* the middle of a pixel, of which the image has as many as were asked for
Middle(at) ==
  <<2 * request.bbox.minX + (2 * at[1] + 1) * CellSize,
    2 * request.bbox.maxY - (2 * at[2] + 1) * CellSize>>
SquarePixels == Height(request.bbox) = CellSize * request.height

HolesAround(poly, q) == {i \in 2 .. Len(poly) : InRing(poly[i], q)}
InWater(poly, q) == InRing(poly[1], q) /\ HolesAround(poly, q) = {}
ShoreSqrDistance(poly, q) ==
  LET near == IF InRing(poly[1], q) THEN DOMAIN poly ELSE {1}
  IN  LeastOf({RingSqrDistance(poly[i], q) : i \in near})

\* The holes of a polygon lie within its exterior and apart from each other, as far as
\* a point can tell: if it is in a hole, that one is nearer than all rings around others,
\* unless it lies on the hole's own ring.
HolesApart(poly, q) ==
  InRing(poly[1], q) /\ HolesAround(poly, q) # {} =>
    \E i \in HolesAround(poly, q) :
      \/ RingSqrDistance(poly[i], q) = 0
      \/ \A j \in DOMAIN poly \ HolesAround(poly, q) :
           RingSqrDistance(poly[i], q) < RingSqrDistance(poly[j], q)

\* what a pixel tells of the water
Told(at) ==
  LET q == Middle(at)
      polys == {waterPolygons[i] : i \in DOMAIN waterPolygons}
      wet == {poly \in polys : InWater(poly, q)}
      shores == {ShoreSqrDistance(poly, q) : poly \in polys}
  IN  (\A poly \in polys : HolesApart(poly, q)) =>
        IF wet = {} THEN img[at] = Shade(LeastOf(shores \union {NotFound}))
        ELSE img[at] < 0 \/ (img[at] = 0 /\ 0 \in shores)

\* A pixel on land tells its distance to the nearest shore of all the water that was
\* loaded, whatever the tree, the test of the boxes, and the order of the polygons have
\* left out.  A pixel in the water of a polygon is negative, although the search ends
\* with the first one that contains it, unless it lies on the shore of another.  (Water
\* within DistanceDomain of a pixel, but in no tile of the box, is not loaded: a comment
\* in LoadDataSets leaves that to be done.)
ShoresTold ==
  Rastered /\ SquarePixels =>
    /\ DOMAIN img = (0 .. request.width - 1) \X (0 .. request.height - 1)
    /\ \A at \in DOMAIN img : Told(at)

\* Only tiles that no encoder writes are read beyond their end, crash the conversion,
\* make an assertion fail or a feature without a geometry be used.
OnlyBrokenTilesStop ==
  /\ ReadsWhatIsThere
  /\ stage \in {"aborted", "crashed"} =>
       \E l \in DOMAIN tile : \E i \in DOMAIN tile[l].features : tile[l].features[i].shape = NoShape

Stuck == stage \in {"undefined", "aborted", "crashed"} \/ pc \in {"beyond", "crashed"}

\* Every request that was accepted is answered, unless it is of those that have no
\* defined outcome.
RequestAnswered == stage = "begin" ~> (stage = "ready" \/ Stuck)
=============================================================================
