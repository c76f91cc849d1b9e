----------------------------- MODULE OSMSDFProofs -----------------------------
(***************************************************************************)
(* Proofs about OSMSDF and the part of VectorTiles it rests on, for every  *)
(* database of tiles, every configuration and every set of requests.       *)
(***************************************************************************)
EXTENDS OSMSDF, VectorTilesProofs

-----------------------------------------------------------------------------
(* The table of transformations.                                           *)

\* Known reference systems, with entries for all pairs, those with the layer's own reference system among them
\* once the layer is ready.
TableInv ==
  /\ stage = "new" => supportedCRS = {}
  /\ supportedCRS \subseteq DOMAIN Offset
  /\ supportedCRS \X supportedCRS \subseteq DOMAIN srsTransforms
  /\ stage \notin {"new", "based", "failed", "destroyed"} => OSM \in supportedCRS
  /\ stage = "undefined" => Undefined(request, osmBBox)

\* The pairs that InitBase goes through are all the pairs, in both directions.
LEMMA AllPairs ==
  ASSUME NEW config \in Configs
  PROVE  {config[i] : i \in DOMAIN config} \X {config[i] : i \in DOMAIN config}
           \subseteq TransformPairs(config)
PROOF
  <1>1. DOMAIN config \subseteq Int
    BY OSMAssumption, SeqIsSeq
  <1> SUFFICES ASSUME NEW i \in DOMAIN config, NEW j \in DOMAIN config
               PROVE  <<config[i], config[j]>> \in TransformPairs(config)
    OBVIOUS
  <1>2. CASE i <= j
    <2>1. <<i, j>> \in InOrder(config)
      BY <1>2 DEF InOrder
    <2> QED BY <2>1 DEF TransformPairs
  <1>3. CASE j <= i
    <2>1. <<j, i>> \in InOrder(config)
      BY <1>3 DEF InOrder
    <2> QED BY <2>1 DEF TransformPairs
  <1> QED BY <1>1, <1>2, <1>3

LEMMA TableKept ==
  ASSUME TableInv, [OSMNext]_osmVars
  PROVE  TableInv'
PROOF
  <1>1. CASE InitBase
    <2>1. PICK config \in Configs :
            /\ supportedCRS' = {config[i] : i \in DOMAIN config}
            /\ DOMAIN srsTransforms' = TransformPairs(config)
      BY <1>1 DEF InitBase
    <2>2. stage' = "based"
      BY <1>1 DEF InitBase
    <2>3. supportedCRS' \subseteq DOMAIN Offset
      BY <2>1, OSMAssumption, SeqIsSeq, ElementOfSeq
    <2> QED BY <2>1, <2>2, <2>3, AllPairs DEF TableInv
  <1>2. CASE InitBaseFails \/ InitLayer
    BY <1>2 DEF TableInv, InitBaseFails, InitLayer, setup
  <1>3. CASE HandleGetMapRequest
    <2>1. PICK r \in Requests :
            /\ r.crs \in supportedCRS
            /\ request' = r
            /\ IF Missing(<<r.crs, OSM>>) \/ Missing(<<OSM, r.crs>>)
                 THEN stage' = "undefined" /\ UNCHANGED <<osmBBox, zoomLevel>>
                 ELSE LET bbox == TransformBBox(r.bbox, r.crs, OSM)
                      IN  /\ osmBBox' = bbox
                          /\ IF Undefined(r, bbox)
                               THEN stage' = "undefined" /\ UNCHANGED zoomLevel
                               ELSE stage' = "begin" /\ zoomLevel' = ZoomLevel(r, bbox)
      BY <1>3 DEF HandleGetMapRequest
    <2>2. OSM \in supportedCRS /\ UNCHANGED setup
      BY <1>3 DEF HandleGetMapRequest, TableInv
    <2>3. ~Missing(<<r.crs, OSM>>) /\ ~Missing(<<OSM, r.crs>>)
      BY <2>1, <2>2 DEF TableInv, Missing
    <2>4. stage' \in {"undefined", "begin"}
          /\ (stage' = "undefined" => Undefined(request', osmBBox'))
      BY <2>1, <2>3
    <2> QED BY <2>2, <2>4 DEF TableInv, setup
  <1>4. CASE stage \notin {"new", "based", "failed", "destroyed", "undefined"}
             /\ stage' \notin {"new", "undefined"} /\ UNCHANGED setup
    BY <1>4 DEF TableInv, setup
  <1>5. CASE Refuse \/ LoadFails \/ AnswerOK
    <2>1. stage' = "ready" /\ stage \in {"ready", "opening", "raster"} /\ UNCHANGED setup
      BY <1>5 DEF Refuse, LoadFails, AnswerOK, Rastered, Answer
    <2> QED BY <1>4, <2>1
  <1>6. CASE BeginLoading \/ ReleaseDataSet
    <2>1. stage' \in {"load", "raster"}
      BY <1>6 DEF BeginLoading, ReleaseDataSet, GoTo, FirstTile, TileAfter
    <2>2. stage \in {"begin", "shapes"} /\ UNCHANGED setup
      BY <1>6 DEF BeginLoading, ReleaseDataSet
    <2> QED BY <1>4, <2>1, <2>2
  <1>7. CASE OpenDataSet \/ Opening \/ Opened \/ LoadShape \/ LeaveShapeOut
             \/ AreaAssertionFails \/ NoGeometry \/ RasterPixel \/ LookAt \/ WritePixel
    <2>1. /\ stage \in {"load", "opening", "shapes", "raster", "query"}
          /\ stage' \notin {"new", "undefined"} /\ UNCHANGED setup
      BY <1>7 DEF OpenDataSet, Opening, Opened, LoadShape, LeaveShapeOut, LoadingShapes,
         AreaAssertionFails, NoGeometry, RasterPixel, LookAt, WritePixel
    <2> QED BY <1>4, <2>1
  <1>8. CASE DestroyLayer
    BY <1>8 DEF DestroyLayer, TableInv, setup
  <1>9. CASE UNCHANGED osmVars
    BY <1>9 DEF osmVars, TableInv, setup, asked
  <1> QED BY <1>1, <1>2, <1>3, <1>5, <1>6, <1>7, <1>8, <1>9 DEF OSMNext, OSMStep

LEMMA TableInvariance == OSMSpec => []TableInv
PROOF
  <1>1. OSMInit => TableInv
    BY DEF OSMInit, TableInv
  <1>2. TableInv /\ [OSMNext]_osmVars => TableInv'
    BY TableKept
  <1> QED BY <1>1, <1>2, PTL DEF OSMSpec

\* Whatever reference systems a configuration names, GetTransform finds an entry for
\* every request that is accepted.
THEOREM TableComplete == OSMSpec => []TransformFound
PROOF
  <1>1. TableInv => TransformFound
    BY DEF TableInv, TransformFound
  <1> QED BY <1>1, TableInvariance, PTL

-----------------------------------------------------------------------------
(* The tiles of a request.                                                 *)

Loading == {"begin", "load", "opening", "shapes", "raster", "query"}
BoxType == [minX: Int, maxX: Int, minY: Int, maxY: Int]

InBox(c, r) == c \in Left .. Right - 1 /\ r \in Bottom .. Top - 1

\* The tiles in these columns and rows have been opened at this stage.
Passed(c, r) ==
  /\ InBox(c, r)
  /\ stage # "begin"
  /\ stage \in {"load", "opening"} => r < row \/ (r = row /\ c < column)
  /\ stage = "shapes" => r < row \/ (r = row /\ c <= column)

PlacesDiffer == \A i, j \in DOMAIN opened : opened[i].place = opened[j].place => i = j
PlacesPassed ==
  /\ \A i \in DOMAIN opened : \E c, r \in Int :
       Passed(c, r) /\ opened[i].place = <<zoomLevel, c, r>>
  /\ \A c, r \in Int :
       Passed(c, r) => \E i \in DOMAIN opened : opened[i].place = <<zoomLevel, c, r>>

LoadInv ==
  /\ IsSeq(opened) /\ PlacesDiffer
  /\ stage \in Loading =>
       zoomLevel \in 0 .. MaxOSMZoomLevel /\ osmBBox \in BoxType /\ PlacesPassed
  /\ stage \in {"load", "opening", "shapes"} => InBox(column, row)
  /\ stage = "opening" => place = <<zoomLevel, column, row>>
  /\ stage \in {"new", "based", "ready"} => opened = <<>>

\* The tiles are whole numbers.
LEMMA BoundsAreNumbers ==
  ASSUME zoomLevel \in 0 .. MaxOSMZoomLevel, osmBBox \in BoxType
  PROVE  Left \in Int /\ Right \in Int /\ Bottom \in Int /\ Top \in Int
PROOF
  <1>1. 2 ^ zoomLevel \in Nat \ {0}
    BY OSMAssumption
  <1>2. MapWidth \in Nat \ {0} /\ MapLeft \in Int
    BY OSMAssumption, TilesAssumption DEF MapLeft
  <1>3. /\ osmBBox.minX \in Int /\ osmBBox.maxX \in Int
        /\ osmBBox.minY \in Int /\ osmBBox.maxY \in Int
    BY DEF BoxType
  <1>4. \A v \in Int : TileBelow(v) \in Int /\ TileAbove(v) \in Int
    BY <1>1, <1>2 DEF TileBelow, TileAbove
  <1> QED BY <1>1, <1>3, <1>4 DEF Left, Right, Bottom, Top

LEMMA BoundsStay ==
  ASSUME UNCHANGED asked
  PROVE  Left' = Left /\ Right' = Right /\ Bottom' = Bottom /\ Top' = Top
PROOF
  BY DEF asked, Left, Right, Bottom, Top, TileBelow, TileAbove

\* A level is found for every request, and its box is one of the map.
LEMMA ZoomLevelExists ==
  ASSUME NEW r, NEW bbox
  PROVE  ZoomLevel(r, bbox) \in 0 .. MaxOSMZoomLevel
PROOF
  <1> DEFINE levels == {level \in 0 .. MaxOSMZoomLevel : Enough(level, r, bbox)}
  <1>1. CASE levels = {}
    BY <1>1, OSMAssumption DEF ZoomLevel
  <1>2. CASE levels # {}
    <2>1. levels \subseteq Nat
      OBVIOUS
    <2> HIDE DEF levels
    <2>2. \E level \in levels : \A other \in levels : level <= other
      BY <1>2, <2>1, HasFirst
    <2>3. (CHOOSE level \in levels : \A other \in levels : level <= other) \in levels
      BY <2>2
    <2> USE DEF levels
    <2> QED BY <1>2, <2>3 DEF ZoomLevel
  <1> QED BY <1>1, <1>2

LEMMA BoxIsTyped ==
  ASSUME TableInv, OSM \in supportedCRS, NEW r \in Requests, r.crs \in supportedCRS
  PROVE  TransformBBox(r.bbox, r.crs, OSM) \in BoxType
PROOF
  <1>1. r.bbox \in BoxType
    BY OSMAssumption DEF BoxType
  <1>2. /\ Offset[OSM][1] \in Int /\ Offset[OSM][2] \in Int
        /\ Offset[r.crs][1] \in Int /\ Offset[r.crs][2] \in Int
    BY OSMAssumption DEF TableInv
  <1>3. /\ r.bbox.minX \in Int /\ r.bbox.maxX \in Int
        /\ r.bbox.minY \in Int /\ r.bbox.maxY \in Int
    BY <1>1 DEF BoxType
  <1> QED BY <1>1, <1>2, <1>3 DEF TransformBBox, Reproject, BoxType

\* A conversion stays at its tile.
LEMMA ConvertingStays ==
  ASSUME Converting
  PROVE  place' = place
PROOF
  BY DEF Converting, NoTile, EmptyTile, OpenTile, InflateBlock, UnpackFails, ParseTile,
     BeginLayer, Converted, ReadNothing, ReadVertex, ReadBeyond, ReadClose, UnknownCommand,
     ReadTags, ReadTagsBeyond, UnknownType, CreateFeatureFails, ConvertPoints, ConvertLines,
     AddNoLine, BeginRings, NextRing, ConvertPolygons, Fail, CreateFeature, database

\* What the invariant rests on, when the tiles that are passed stay the same.
LEMMA PassedStay ==
  ASSUME LoadInv, UNCHANGED <<asked, opened>>, stage \in Loading, stage' \in Loading,
         \A c, r \in Int : Passed(c, r)' <=> Passed(c, r)
  PROVE  /\ IsSeq(opened)' /\ PlacesDiffer'
         /\ (zoomLevel \in 0 .. MaxOSMZoomLevel /\ osmBBox \in BoxType /\ PlacesPassed)'
PROOF
  <1>1. opened' = opened /\ zoomLevel' = zoomLevel /\ osmBBox' = osmBBox
    BY DEF asked
  <1>2. /\ IsSeq(opened) /\ PlacesDiffer /\ zoomLevel \in 0 .. MaxOSMZoomLevel
        /\ osmBBox \in BoxType /\ PlacesPassed
    BY DEF LoadInv
  <1>3. IsSeq(opened)' /\ PlacesDiffer'
    BY <1>1, <1>2 DEF IsSeq, Elements, PlacesDiffer
  <1>4. ASSUME NEW i \in DOMAIN opened
        PROVE  \E c, r \in Int : Passed(c, r)' /\ opened[i].place = <<zoomLevel, c, r>>
    BY <1>2 DEF PlacesPassed
  <1>5. ASSUME NEW c \in Int, NEW r \in Int, Passed(c, r)'
        PROVE  \E i \in DOMAIN opened : opened[i].place = <<zoomLevel, c, r>>
    BY <1>2, <1>5 DEF PlacesPassed
  <1>6. PlacesPassed'
    BY <1>1, <1>4, <1>5 DEF PlacesPassed
  <1> QED BY <1>1, <1>2, <1>3, <1>6

\* The tile that was opened is a new one.
LEMMA OpenedKeeps ==
  ASSUME LoadInv, Opened
  PROVE  LoadInv'
PROOF
  <1>1. /\ stage = "opening" /\ stage' = "shapes" /\ UNCHANGED <<asked, column, row>>
        /\ opened' = Append(opened, [place |-> place, water |-> waterLayer])
    BY DEF Opened
  <1> DEFINE n == Len(opened) + 1
  <1>2. /\ IsSeq(opened') /\ DOMAIN opened' = DOMAIN opened \union {n}
        /\ \A i \in DOMAIN opened : opened'[i] = opened[i]
        /\ opened'[n].place = place
    BY <1>1, AppendIsSeq DEF LoadInv
  <1>3. /\ zoomLevel \in 0 .. MaxOSMZoomLevel /\ osmBBox \in BoxType /\ PlacesPassed
        /\ place = <<zoomLevel, column, row>> /\ InBox(column, row) /\ PlacesDiffer
    BY <1>1 DEF LoadInv, Loading
  <1>4. column \in Int /\ row \in Int
    BY <1>3, BoundsAreNumbers DEF InBox
  <1>5. \A c, r \in Int : InBox(c, r)' <=> InBox(c, r)
    BY <1>1, BoundsStay DEF InBox
  <1>6. \A c, r \in Int : Passed(c, r)' <=> Passed(c, r) \/ (c = column /\ r = row)
    BY <1>1, <1>3, <1>4, <1>5 DEF Passed
  <1>7. ~Passed(column, row)
    BY <1>1, <1>4 DEF Passed
  <1>8. \A i \in DOMAIN opened : opened[i].place # place
    BY <1>3, <1>4, <1>7 DEF PlacesPassed
  <1>9. PlacesDiffer'
    BY <1>2, <1>3, <1>8 DEF PlacesDiffer
  <1>10. ASSUME NEW i \in DOMAIN opened'
         PROVE  \E c, r \in Int : Passed(c, r)' /\ opened'[i].place = <<zoomLevel, c, r>>
    <2>1. CASE i = n
      BY <1>2, <1>3, <1>4, <1>6, <2>1
    <2>2. CASE i \in DOMAIN opened
      BY <1>2, <1>3, <1>6, <2>2 DEF PlacesPassed
    <2> QED BY <1>2, <2>1, <2>2
  <1>11. ASSUME NEW c \in Int, NEW r \in Int, Passed(c, r)'
         PROVE  \E i \in DOMAIN opened' : opened'[i].place = <<zoomLevel, c, r>>
    <2>1. CASE c = column /\ r = row
      BY <1>2, <1>3, <2>1
    <2>2. CASE Passed(c, r)
      BY <1>2, <1>3, <2>2 DEF PlacesPassed
    <2> QED BY <1>6, <1>11, <2>1, <2>2
  <1>12. PlacesPassed'
    BY <1>1, <1>10, <1>11 DEF PlacesPassed, asked
  <1>13. InBox(column, row)'
    BY <1>1, <1>3, BoundsStay DEF InBox
  <1> QED BY <1>1, <1>2, <1>3, <1>9, <1>12, <1>13 DEF LoadInv, asked

\* The first tile has none before it, and without one the box is empty.
LEMMA BeginKeeps ==
  ASSUME LoadInv, BeginLoading
  PROVE  LoadInv'
PROOF
  <1>1. /\ stage = "begin" /\ UNCHANGED <<asked, opened>>
        /\ stage' = FirstTile[1] /\ column' = FirstTile[2] /\ row' = FirstTile[3]
    BY DEF BeginLoading, GoTo
  <1>2. zoomLevel \in 0 .. MaxOSMZoomLevel /\ osmBBox \in BoxType
    BY <1>1 DEF LoadInv, Loading
  <1>3. Left \in Int /\ Right \in Int /\ Bottom \in Int /\ Top \in Int
    BY <1>2, BoundsAreNumbers
  <1>4. \A c, r \in Int : InBox(c, r)' <=> InBox(c, r)
    BY <1>1, BoundsStay DEF InBox
  <1>5. \A c, r \in Int : ~Passed(c, r)
    BY <1>1 DEF Passed
  <1>6. CASE Bottom < Top /\ Left < Right
    <2>1. stage' = "load" /\ column' = Left /\ row' = Bottom
      BY <1>1, <1>6 DEF FirstTile
    <2>2. \A c, r \in Int : ~Passed(c, r)'
      BY <1>3, <1>4, <2>1 DEF Passed, InBox
    <2>3. InBox(column', row')
      BY <1>3, <1>6, <2>1 DEF InBox
    <2>4. InBox(column, row)'
      BY <1>1, <2>3, BoundsStay DEF InBox
    <2> QED BY <1>1, <1>5, <2>1, <2>2, <2>4, PassedStay DEF LoadInv, Loading
  <1>7. CASE ~(Bottom < Top /\ Left < Right)
    <2>1. stage' = "raster"
      BY <1>1, <1>7 DEF FirstTile
    <2>2. \A c, r \in Int : ~InBox(c, r)
      BY <1>3, <1>7 DEF InBox
    <2>3. \A c, r \in Int : ~Passed(c, r)'
      BY <1>4, <2>2 DEF Passed
    <2> QED BY <1>1, <1>5, <2>1, <2>3, PassedStay DEF LoadInv, Loading
  <1> QED BY <1>6, <1>7

\* The tile that comes next has those before it that have been opened.
LEMMA ReleaseKeeps ==
  ASSUME LoadInv, ReleaseDataSet
  PROVE  LoadInv'
PROOF
  <1>1. /\ stage = "shapes" /\ UNCHANGED <<asked, opened>>
        /\ stage' = TileAfter[1] /\ column' = TileAfter[2] /\ row' = TileAfter[3]
    BY DEF ReleaseDataSet, GoTo
  <1>2. zoomLevel \in 0 .. MaxOSMZoomLevel /\ osmBBox \in BoxType /\ InBox(column, row)
    BY <1>1 DEF LoadInv, Loading
  <1>3. Left \in Int /\ Right \in Int /\ Bottom \in Int /\ Top \in Int
    BY <1>2, BoundsAreNumbers
  <1>4. \A c, r \in Int : InBox(c, r)' <=> InBox(c, r)
    BY <1>1, BoundsStay DEF InBox
  <1>5. CASE column + 1 < Right
    <2>1. stage' = "load" /\ column' = column + 1 /\ row' = row
      BY <1>1, <1>5 DEF TileAfter
    <2>2. \A c, r \in Int : Passed(c, r)' <=> Passed(c, r)
      BY <1>1, <1>2, <1>3, <1>4, <2>1 DEF Passed, InBox
    <2>3. InBox(column', row')
      BY <1>2, <1>3, <1>5, <2>1 DEF InBox
    <2>4. InBox(column, row)'
      BY <1>1, <2>3, BoundsStay DEF InBox
    <2> QED BY <1>1, <2>1, <2>2, <2>4, PassedStay DEF LoadInv, Loading
  <1>6. CASE ~(column + 1 < Right) /\ row + 1 < Top
    <2>1. stage' = "load" /\ column' = Left /\ row' = row + 1
      BY <1>1, <1>6 DEF TileAfter
    <2>2. \A c, r \in Int : Passed(c, r)' <=> Passed(c, r)
      BY <1>1, <1>2, <1>3, <1>4, <1>6, <2>1 DEF Passed, InBox
    <2>3. InBox(column', row')
      BY <1>2, <1>3, <1>6, <2>1 DEF InBox
    <2>4. InBox(column, row)'
      BY <1>1, <2>3, BoundsStay DEF InBox
    <2> QED BY <1>1, <2>1, <2>2, <2>4, PassedStay DEF LoadInv, Loading
  <1>7. CASE ~(column + 1 < Right) /\ ~(row + 1 < Top)
    <2>1. stage' = "raster"
      BY <1>1, <1>7 DEF TileAfter
    <2>2. \A c, r \in Int : Passed(c, r)' <=> Passed(c, r)
      BY <1>1, <1>2, <1>3, <1>4, <1>7, <2>1 DEF Passed, InBox
    <2> QED BY <1>1, <2>1, <2>2, PassedStay DEF LoadInv, Loading
  <1> QED BY <1>5, <1>6, <1>7

\* The request that is accepted has no tiles yet.
LEMMA RequestKeeps ==
  ASSUME TableInv, LoadInv, HandleGetMapRequest
  PROVE  LoadInv'
PROOF
  <1>1. PICK r \in Requests :
          /\ r.crs \in supportedCRS
          /\ request' = r
          /\ IF Missing(<<r.crs, OSM>>) \/ Missing(<<OSM, r.crs>>)
               THEN stage' = "undefined" /\ UNCHANGED <<osmBBox, zoomLevel>>
               ELSE LET bbox == TransformBBox(r.bbox, r.crs, OSM)
                    IN  /\ osmBBox' = bbox
                        /\ IF Undefined(r, bbox)
                             THEN stage' = "undefined" /\ UNCHANGED zoomLevel
                             ELSE stage' = "begin" /\ zoomLevel' = ZoomLevel(r, bbox)
    BY DEF HandleGetMapRequest
  <1>2. stage = "ready" /\ UNCHANGED loading
    BY DEF HandleGetMapRequest
  <1>3. opened = <<>> /\ opened' = <<>> /\ OSM \in supportedCRS
    BY <1>2 DEF LoadInv, TableInv, loading
  <1>4. DOMAIN opened' = {}
    BY <1>3
  <1>5. IsSeq(opened)' /\ PlacesDiffer'
    BY <1>3, <1>4 DEF LoadInv, IsSeq, Elements, PlacesDiffer
  <1>6. CASE stage' = "undefined"
    BY <1>5, <1>6 DEF LoadInv, Loading
  <1>7. CASE stage' = "begin"
    <2>1. \A c, s \in Int : ~Passed(c, s)'
      BY <1>7 DEF Passed
    <2>2. PlacesPassed'
      BY <1>4, <2>1 DEF PlacesPassed
    <2>3. zoomLevel' \in 0 .. MaxOSMZoomLevel /\ osmBBox' \in BoxType
      BY <1>1, <1>3, <1>7, ZoomLevelExists, BoxIsTyped
    <2> QED BY <1>5, <1>7, <2>2, <2>3 DEF LoadInv
  <1> QED BY <1>1, <1>6, <1>7

LEMMA LoadKept ==
  ASSUME TableInv, LoadInv, [OSMNext]_osmVars
  PROVE  LoadInv'
PROOF
  <1>1. ASSUME UNCHANGED opened
        PROVE  IsSeq(opened)' /\ PlacesDiffer'
    BY <1>1 DEF LoadInv, IsSeq, Elements, PlacesDiffer
  <1>2. CASE UNCHANGED <<opened, column, row, place, asked>> /\ UNCHANGED stage
    <2>1. \A c, r \in Int : Passed(c, r)' <=> Passed(c, r)
      BY <1>2, BoundsStay DEF Passed, InBox
    <2>2. InBox(column, row)' <=> InBox(column, row)
      BY <1>2, BoundsStay DEF InBox
    <2>3. stage \in Loading =>
            (zoomLevel \in 0 .. MaxOSMZoomLevel /\ osmBBox \in BoxType /\ PlacesPassed)'
      BY <1>2, <2>1, PassedStay
    <2> QED BY <1>1, <1>2, <2>2, <2>3 DEF LoadInv, asked
  <1>3. CASE stage' \in {"ready", "failed", "destroyed", "aborted", "crashed", "based"} /\ opened' = <<>>
    <2>1. DOMAIN opened' = {} /\ IsSeq(opened)'
      BY <1>3 DEF IsSeq, Elements
    <2> QED BY <1>3, <2>1 DEF LoadInv, PlacesDiffer, Loading
  <1>4. CASE InitBase \/ InitBaseFails \/ InitLayer \/ DestroyLayer
    <2>1. CASE UNCHANGED opened /\ stage' = "failed"
      BY <1>1, <2>1 DEF LoadInv, Loading
    <2>2. CASE UNCHANGED opened /\ stage' = "destroyed"
      BY <1>1, <2>2 DEF LoadInv, Loading
    <2>3. CASE stage \in {"new", "based"} /\ UNCHANGED opened /\ stage' \in {"based", "ready"}
      BY <1>3, <2>3 DEF LoadInv
    <2> QED BY <1>4, <2>1, <2>2, <2>3 DEF InitBase, InitBaseFails, InitLayer, DestroyLayer, loading
  <1>5. CASE Refuse \/ LoadFails \/ AnswerOK
    BY <1>3, <1>5 DEF Refuse, LoadFails, AnswerOK, Answer
  <1>6. CASE OpenDataSet
    <2>1. /\ stage = "load" /\ stage' = "opening" /\ UNCHANGED <<asked, loading>>
          /\ place' = <<zoomLevel, column, row>>
      BY <1>6 DEF OpenDataSet, Open
    <2>2. \A c, r \in Int : Passed(c, r)' <=> Passed(c, r)
      BY <2>1, BoundsStay DEF Passed, InBox, loading
    <2>3. InBox(column, row)' <=> InBox(column, row)
      BY <2>1, BoundsStay DEF InBox, loading
    <2> QED BY <2>1, <2>2, <2>3, PassedStay DEF LoadInv, Loading, loading, asked
  <1>7. CASE Opening
    BY <1>2, <1>7, ConvertingStays DEF Opening, loading
  <1>8. CASE LoadShape \/ LeaveShapeOut \/ LookAt
    BY <1>2, <1>8 DEF LoadShape, LeaveShapeOut, LookAt, vars, database, loading
  <1>9. CASE AreaAssertionFails \/ NoGeometry
    <2>1. stage' \in {"aborted", "crashed"} /\ UNCHANGED opened
      BY <1>9 DEF AreaAssertionFails, NoGeometry, loading
    <2> QED BY <1>1, <2>1 DEF LoadInv, Loading
  <1>10. CASE RasterPixel \/ WritePixel
    <2>1. /\ stage \in {"raster", "query"} /\ stage' \in {"raster", "query"}
          /\ UNCHANGED <<opened, column, row, asked>>
      BY <1>10 DEF RasterPixel, WritePixel, loading
    <2>2. \A c, r \in Int : Passed(c, r)' <=> Passed(c, r)
      BY <2>1, BoundsStay DEF Passed, InBox
    <2> QED BY <2>1, <2>2, PassedStay DEF LoadInv, Loading
  <1>11. CASE UNCHANGED osmVars
    BY <1>2, <1>11 DEF osmVars, vars, database, loading
  <1> QED BY <1>4, <1>5, <1>6, <1>7, <1>8, <1>9, <1>10, <1>11, BeginKeeps, OpenedKeeps,
             ReleaseKeeps, RequestKeeps DEF OSMNext, OSMStep

LEMMA LoadInvariance == OSMSpec => []LoadInv
PROOF
  <1>1. OSMInit => LoadInv
    <2> SUFFICES ASSUME OSMInit PROVE LoadInv
      OBVIOUS
    <2>1. opened = <<>> /\ stage = "new"
      BY DEF OSMInit
    <2>2. DOMAIN opened = {} /\ IsSeq(opened)
      BY <2>1 DEF IsSeq, Elements
    <2> QED BY <2>1, <2>2 DEF LoadInv, PlacesDiffer, Loading
  <1>2. TableInv /\ LoadInv /\ [OSMNext]_osmVars => LoadInv'
    BY LoadKept
  <1> QED BY <1>1, <1>2, TableInvariance, PTL DEF OSMSpec

\* The quotient of what is below a multiple is below its factor, and so is that of
\* what is not.
LEMMA DivBelow ==
  ASSUME NEW d \in Nat \ {0}, NEW v \in Int, NEW c \in Int
  PROVE  /\ v < (c + 1) * d => v \div d <= c
         /\ v < -(c * d) => v \div d < -c
PROOF
  <1>1. /\ v \div d \in Int
        /\ v = d * (v \div d) + (v % d)
        /\ v % d \in 0 .. d - 1
    OBVIOUS
  <1> DEFINE q == v \div d
  <1>2. ASSUME v < (c + 1) * d, q > c PROVE FALSE
    <2>1. d * q >= d * (c + 1)
      BY <1>1, <1>2
    <2> QED BY <1>1, <1>2, <2>1
  <1>3. ASSUME v < -(c * d), q >= -c PROVE FALSE
    <2>1. d * q >= d * (-c)
      BY <1>1, <1>3
    <2> QED BY <1>1, <1>3, <2>1
  <1> QED BY <1>1, <1>2, <1>3

\* What is less stays so, n times.
LEMMA TimesLess ==
  ASSUME NEW n \in Nat \ {0}, NEW a \in Int, NEW b \in Int, a < b
  PROVE  a * n < b * n
PROOF
  OBVIOUS

\* A tile that a box overlaps in one direction is one of those that are opened.
LEMMA TileWithin ==
  ASSUME NEW n \in Nat \ {0}, NEW c \in 0 .. n - 1, MapWidth % n = 0,
         NEW least \in Int, NEW most \in Int,
         least < MapLeft + (c + 1) * (MapWidth \div n), MapLeft + c * (MapWidth \div n) < most
  PROVE  /\ ((least - MapLeft) * n) \div MapWidth <= c
         /\ -(((MapLeft - most) * n) \div MapWidth) > c
PROOF
  <1> DEFINE side == MapWidth \div n
  <1>1. MapWidth \in Nat \ {0} /\ MapLeft \in Int
    BY OSMAssumption, TilesAssumption DEF MapLeft
  <1>2. side \in Int /\ MapWidth = n * side
    BY <1>1
  <1>3. ((least - MapLeft) * n) < (c + 1) * MapWidth
    <2>1. least - MapLeft < (c + 1) * side
      BY <1>1, <1>2
    <2>2. (least - MapLeft) * n < ((c + 1) * side) * n
      BY <1>1, <1>2, <2>1, TimesLess
    <2>3. ((c + 1) * side) * n = (c + 1) * MapWidth
      BY <1>2
    <2> QED BY <2>2, <2>3
  <1>4. ((MapLeft - most) * n) < -(c * MapWidth)
    <2>1. MapLeft - most < -(c * side)
      BY <1>1, <1>2
    <2>2. (MapLeft - most) * n < (-(c * side)) * n
      BY <1>1, <1>2, <2>1, TimesLess
    <2>3. (-(c * side)) * n = -(c * MapWidth)
      BY <1>2
    <2> QED BY <2>2, <2>3
  <1>5. ((least - MapLeft) * n) \div MapWidth <= c
    BY <1>1, <1>3, DivBelow
  <1>6. ((MapLeft - most) * n) \div MapWidth \in Int /\ ((MapLeft - most) * n) \div MapWidth < -c
    BY <1>1, <1>4, DivBelow
  <1> QED BY <1>5, <1>6

\* The loops from begin to end leave out no tile that the box overlaps.
LEMMA OverlapInBox ==
  ASSUME zoomLevel \in 0 .. MaxOSMZoomLevel, osmBBox \in BoxType,
         NEW c \in 0 .. 2 ^ zoomLevel - 1, NEW r \in 0 .. 2 ^ zoomLevel - 1,
         Overlap(TileSquare(<<zoomLevel, c, r>>), osmBBox)
  PROVE  InBox(c, r)
PROOF
  <1> DEFINE n == 2 ^ zoomLevel
             side == MapWidth \div n
  <1>1. n \in Nat \ {0} /\ MapWidth % n = 0
    BY OSMAssumption
  <1>2. /\ osmBBox.minX \in Int /\ osmBBox.maxX \in Int
        /\ osmBBox.minY \in Int /\ osmBBox.maxY \in Int
    BY DEF BoxType
  <1>3. /\ MapLeft + c * side < osmBBox.maxX /\ osmBBox.minX < MapLeft + (c + 1) * side
        /\ MapLeft + r * side < osmBBox.maxY /\ osmBBox.minY < MapLeft + (r + 1) * side
    BY DEF Overlap, TileSquare, MapBottom
  <1>4. TileBelow(osmBBox.minX) <= c /\ TileAbove(osmBBox.maxX) > c
    BY <1>1, <1>2, <1>3, TileWithin DEF TileBelow, TileAbove
  <1>5. TileBelow(osmBBox.minY) <= r /\ TileAbove(osmBBox.maxY) > r
    BY <1>1, <1>2, <1>3, TileWithin DEF TileBelow, TileAbove
  <1>6. Left \in Int /\ Right \in Int /\ Bottom \in Int /\ Top \in Int
    BY BoundsAreNumbers
  <1>7. \A v \in Int : TileBelow(v) \in Int /\ TileAbove(v) \in Int
    <2>1. MapWidth \in Nat \ {0} /\ MapLeft \in Int
      BY OSMAssumption, TilesAssumption DEF MapLeft
    <2> QED BY <1>1, <2>1 DEF TileBelow, TileAbove
  <1>8. Left <= c /\ c < Right
    BY <1>1, <1>2, <1>4, <1>6, <1>7 DEF Left, Right
  <1>9. Bottom <= r /\ r < Top
    BY <1>1, <1>2, <1>5, <1>6, <1>7 DEF Bottom, Top
  <1> QED BY <1>1, <1>6, <1>8, <1>9 DEF InBox

\* For every box, every level and every map: all tiles that the box overlaps are
\* opened before the pixels are computed, each of them once.
THEOREM TilesCovered == OSMSpec => []BoxCovered
PROOF
  <1>1. LoadInv => BoxCovered
    <2> SUFFICES ASSUME LoadInv, stage \in {"raster", "query"}
                 PROVE  LET places == {opened[i].place : i \in DOMAIN opened}
                            level == 0 .. 2 ^ zoomLevel - 1
                        IN  /\ PlacesDiffer
                            /\ \A at \in {zoomLevel} \X level \X level :
                                 Overlap(TileSquare(at), osmBBox) => at \in places
      BY DEF BoxCovered, PlacesDiffer
    <2>1. PlacesDiffer
      BY DEF LoadInv
    <2>2. ASSUME NEW c \in 0 .. 2 ^ zoomLevel - 1, NEW r \in 0 .. 2 ^ zoomLevel - 1,
                 Overlap(TileSquare(<<zoomLevel, c, r>>), osmBBox)
          PROVE  <<zoomLevel, c, r>> \in {opened[i].place : i \in DOMAIN opened}
      <3>1. zoomLevel \in 0 .. MaxOSMZoomLevel /\ osmBBox \in BoxType /\ PlacesPassed
        BY DEF LoadInv, Loading
      <3>2. Passed(c, r)
        BY <2>2, <3>1, OverlapInBox DEF Passed
      <3>3. c \in Int /\ r \in Int
        BY <3>1, OSMAssumption
      <3> QED BY <3>1, <3>2, <3>3 DEF PlacesPassed
    <2> QED BY <2>1, <2>2
  <1> QED BY <1>1, LoadInvariance, PTL

-----------------------------------------------------------------------------
(* The conversion of tiles, and the types of the variables.                *)

\* Every step of the layer is one of VectorTiles, or leaves that alone.
LEMMA LayerStep ==
  ASSUME LoadInv, [OSMNext]_osmVars
  PROVE  [AnyStep]_vars
PROOF
  <1>1. CASE OpenDataSet
    <2>1. zoomLevel \in 0 .. MaxOSMZoomLevel /\ osmBBox \in BoxType /\ InBox(column, row)
      BY <1>1 DEF OpenDataSet, LoadInv, Loading
    <2>2. Left \in Int /\ Right \in Int /\ Bottom \in Int /\ Top \in Int
      BY <2>1, BoundsAreNumbers
    <2>3. Left >= 0 /\ Bottom >= 0
      BY <2>2 DEF Left, Bottom
    <2>4. column \in Nat /\ row \in Nat /\ zoomLevel \in Nat
      BY <2>1, <2>2, <2>3 DEF InBox
    <2>5. Open(<<zoomLevel, column, row>>)
      BY <1>1 DEF OpenDataSet
    <2> QED BY <2>4, <2>5 DEF AnyStep
  <1>2. CASE Opening \/ LoadFails \/ ReleaseDataSet \/ DestroyLayer
    BY <1>2 DEF Opening, LoadFails, ReleaseDataSet, DestroyLayer, AnyStep
  <1>3. CASE InitBase \/ InitBaseFails \/ InitLayer \/ BeginLoading \/ Opened \/ LoadShape
             \/ LeaveShapeOut \/ AreaAssertionFails \/ NoGeometry \/ RasterPixel \/ LookAt
             \/ WritePixel \/ AnswerOK \/ Refuse \/ HandleGetMapRequest
    BY <1>3 DEF InitBase, InitBaseFails, InitLayer, BeginLoading, Opened, LoadShape,
       LeaveShapeOut, AreaAssertionFails, NoGeometry, RasterPixel, LookAt, WritePixel, AnswerOK,
       Refuse, HandleGetMapRequest
  <1>4. CASE UNCHANGED osmVars
    BY <1>4 DEF osmVars
  <1> QED BY <1>1, <1>2, <1>3, <1>4 DEF OSMNext, OSMStep

LEMMA LayerTileInvariance == OSMSpec => []TileInv
PROOF
  <1>1. OSMInit => TileInv
    BY TileInvInit DEF OSMInit
  <1>2. LoadInv /\ TileInv /\ [OSMNext]_osmVars => TileInv'
    BY LayerStep, TileInvKept
  <1> QED BY <1>1, <1>2, LoadInvariance, PTL DEF OSMSpec

LEMMA LayerReadInvariance == OSMSpec => [](ReadInv /\ GroupedInv)
PROOF
  <1>1. OSMInit => ReadInv /\ GroupedInv
    BY ReadInvInit DEF OSMInit, Init, GroupedInv
  <1>2. /\ LoadInv /\ TileInv /\ TileInv' /\ ReadInv /\ GroupedInv /\ [OSMNext]_osmVars
        => ReadInv' /\ GroupedInv'
    BY LayerStep, ReadInvKept, GroupedKept
  <1> QED BY <1>1, <1>2, LoadInvariance, LayerTileInvariance, PTL DEF OSMSpec

LEMMA LayerRingInvariance == OSMSpec => []RingInv
PROOF
  <1>1. OSMInit => RingInv
    BY RingInvInit DEF OSMInit
  <1>2. LoadInv /\ TileInv /\ ReadInv /\ GroupedInv /\ RingInv /\ [OSMNext]_osmVars => RingInv'
    BY LayerStep, RingInvKept
  <1> QED BY <1>1, <1>2, LoadInvariance, LayerTileInvariance, LayerReadInvariance, PTL DEF OSMSpec

\* Whatever the tiles that the layer opens: their rings are grouped as the tile says, and
\* the water polygons it gets have the orientation it asserts of them, if only the first
\* polygon of a feature starts with an exterior.
THEOREM RingsGrouped == OSMSpec => []RingsWellMade
PROOF
  BY RingInvMeans, LayerRingInvariance, PTL

\* Whatever the tiles that the layer opens: what it gets of one are all its features, in
\* their order, with the shapes that were encoded, at their place on the map.
THEOREM ShapesReachLayer == OSMSpec => []ShapesKept
PROOF
  BY DatasetKept, LayerTileInvariance, LayerRingInvariance, PTL

\* Whatever the tiles that the layer opens: the fields of a feature tell its attributes.
THEOREM AttributesReachLayer == OSMSpec => []AttributesKept
PROOF
  BY DatasetKept, LayerTileInvariance, LayerRingInvariance, PTL

\* Besides the reference of VectorTiles itself, there is one to emptyTile exactly
\* while the layer holds it.
THEOREM EmptyTileCounted == OSMSpec => []ReferencesCounted
PROOF
  <1>1. TileInv => ReferencesCounted
    BY DEF TileInv
  <1> QED BY <1>1, LayerTileInvariance, PTL

\* The types, and what the pixels are while none is computed.
PixelInv ==
  /\ imported \subseteq supportedCRS
  /\ request \in Requests \union {NoRequest}
  /\ zoomLevel \in 0 .. MaxOSMZoomLevel
  /\ feature \in Nat \ {0}
  /\ result \in {"", "OK", "InvalidSRS", "InvalidFormat", "InvalidBBox", "InternalError"}
  /\ stage \in {"new", "based", "ready", "failed", "destroyed", "begin", "load", "opening", "shapes",
               "raster", "query", "undefined", "aborted", "crashed"}
  /\ stage \notin {"raster", "query"} => x = 0 /\ y = 0 /\ img = NoPixels
  /\ stage # "query" => candidates = {}
  /\ candidates \subseteq DOMAIN waterPolygons
  /\ x \in 0 .. request.width - 1 /\ y \in 0 .. request.height
  /\ stage = "query" => y # request.height
  /\ DOMAIN img \subseteq (0 .. request.width - 1) \X (0 .. request.height - 1)

LEMMA RequestSize ==
  ASSUME NEW r \in Requests \union {NoRequest}
  PROVE  r.width \in Nat \ {0} /\ r.height \in Nat \ {0}
PROOF
  <1>1. CASE r \in Requests
    BY <1>1, OSMAssumption
  <1>2. CASE r = NoRequest
    <2>1. NoRequest.width = 1 /\ NoRequest.height = 1
      BY DEF NoRequest
    <2> QED BY <1>2, <2>1
  <1> QED BY <1>1, <1>2

\* While no pixel is computed there is none.
LEMMA NoPixelYet ==
  ASSUME x = 0, y = 0, img = NoPixels, candidates = {}, request \in Requests \union {NoRequest}
  PROVE  /\ candidates \subseteq DOMAIN waterPolygons
         /\ x \in 0 .. request.width - 1 /\ y \in 0 .. request.height /\ y # request.height
         /\ DOMAIN img \subseteq (0 .. request.width - 1) \X (0 .. request.height - 1)
PROOF
  <1>1. request.width \in Nat \ {0} /\ request.height \in Nat \ {0}
    BY RequestSize
  <1>2. DOMAIN img = {}
    BY EmptyIsSeq DEF NoPixels
  <1> QED BY <1>1, <1>2

LEMMA PixelKept ==
  ASSUME PixelInv, [OSMNext]_osmVars
  PROVE  PixelInv'
PROOF
  <1>1. CASE UNCHANGED osmVars
    BY <1>1 DEF PixelInv, osmVars, setup, asked, loading, pixel
  <1>2. ASSUME stage' \in {"new", "based", "ready", "failed", "destroyed", "begin", "load", "opening",
                           "shapes", "raster", "undefined", "aborted", "crashed"},
               x' = 0, y' = 0, img' = NoPixels, candidates' = {},
               request' \in Requests \union {NoRequest}, imported' \subseteq supportedCRS',
               zoomLevel' \in 0 .. MaxOSMZoomLevel, feature' \in Nat \ {0},
               result' \in {"", "OK", "InvalidSRS", "InvalidFormat", "InvalidBBox", "InternalError"}
        PROVE  PixelInv'
    <2>1. /\ candidates' \subseteq DOMAIN waterPolygons'
          /\ x' \in 0 .. request'.width - 1 /\ y' \in 0 .. request'.height
          /\ DOMAIN img' \subseteq (0 .. request'.width - 1) \X (0 .. request'.height - 1)
      <3>1. request'.width \in Nat \ {0} /\ request'.height \in Nat \ {0}
        BY <1>2, RequestSize
      <3>2. DOMAIN img' = {} /\ candidates' = {}
        BY <1>2, EmptyIsSeq DEF NoPixels
      <3>3. 0 \in 0 .. request'.width - 1 /\ 0 \in 0 .. request'.height
        BY <3>1
      <3>4. x' = 0 /\ y' = 0
        BY <1>2
      <3> QED BY <3>2, <3>3, <3>4
    <2> QED BY <1>2, <2>1 DEF PixelInv
  <1>3. CASE stage \notin {"raster", "query"} /\ UNCHANGED <<setup, pixel>>
             /\ UNCHANGED <<request, zoomLevel, feature, result>>
             /\ stage' \in {"new", "based", "ready", "failed", "destroyed", "begin", "load", "opening",
                            "shapes", "raster", "undefined", "aborted", "crashed"}
    <2>1. x' = 0 /\ y' = 0 /\ img' = NoPixels /\ candidates' = {} /\ imported' \subseteq supportedCRS'
      BY <1>3 DEF PixelInv, pixel, setup
    <2> QED BY <1>2, <1>3, <2>1 DEF PixelInv
  <1>4. CASE InitBaseFails \/ InitLayer \/ DestroyLayer
    BY <1>3, <1>4 DEF InitBaseFails, InitLayer, DestroyLayer, asked, loading
  <1>5. CASE InitBase
    <2>1. /\ stage = "new" /\ stage' = "based" /\ imported' \subseteq supportedCRS'
          /\ UNCHANGED <<asked, loading, pixel, result>>
      BY <1>5 DEF InitBase
    <2>2. x' = 0 /\ y' = 0 /\ img' = NoPixels /\ candidates' = {}
      BY <2>1 DEF PixelInv, pixel
    <2> QED BY <1>2, <2>1, <2>2 DEF PixelInv, asked, loading
  <1>6. CASE BeginLoading \/ OpenDataSet \/ Opening \/ AreaAssertionFails \/ NoGeometry
    <2>1. /\ stage \in {"begin", "load", "opening", "shapes"}
          /\ stage' \in {"load", "opening", "raster", "aborted", "crashed"}
          /\ UNCHANGED <<setup, pixel, request, zoomLevel, feature, result>>
      BY <1>6 DEF BeginLoading, OpenDataSet, Opening, AreaAssertionFails, NoGeometry, GoTo, FirstTile,
         LoadingShapes, asked, loading
    <2> QED BY <1>3, <2>1
  <1>7. CASE Opened \/ LoadShape \/ LeaveShapeOut \/ ReleaseDataSet
    <2>1. /\ stage \in {"opening", "shapes"} /\ stage' \in {"shapes", "load", "raster"}
          /\ UNCHANGED <<setup, pixel, request, zoomLevel, result>>
          /\ feature' = 1 \/ feature' = feature + 1
      BY <1>7 DEF Opened, LoadShape, LeaveShapeOut, ReleaseDataSet, GoTo, TileAfter, LoadingShapes, asked
    <2>2. x' = 0 /\ y' = 0 /\ img' = NoPixels /\ candidates' = {} /\ imported' \subseteq supportedCRS'
      BY <2>1 DEF PixelInv, pixel, setup
    <2>3. feature' \in Nat \ {0}
      <3>1. feature \in Nat \ {0}
        BY DEF PixelInv
      <3> QED BY <2>1, <3>1
    <2>4. /\ request' \in Requests \union {NoRequest} /\ zoomLevel' \in 0 .. MaxOSMZoomLevel
          /\ result' \in {"", "OK", "InvalidSRS", "InvalidFormat", "InvalidBBox", "InternalError"}
      BY <2>1 DEF PixelInv
    <2>5. stage' \in {"new", "based", "ready", "failed", "destroyed", "begin", "load", "opening",
                     "shapes", "raster", "undefined", "aborted", "crashed"}
      BY <2>1
    <2> QED BY <1>2, <2>2, <2>3, <2>4, <2>5
  <1>8. CASE LoadFails \/ AnswerOK \/ Refuse
    <2>1. UNCHANGED setup /\ \E what \in {"OK", "InvalidSRS", "InvalidFormat", "InvalidBBox", "InternalError"} :
                               Answer(what)
      BY <1>8 DEF LoadFails, AnswerOK, Refuse
    <2>2. 0 \in 0 .. MaxOSMZoomLevel
      BY OSMAssumption
    <2>3. /\ stage' = "ready" /\ x' = 0 /\ y' = 0 /\ img' = NoPixels /\ candidates' = {}
          /\ request' = NoRequest /\ zoomLevel' = 0 /\ feature' = 1
          /\ result' \in {"", "OK", "InvalidSRS", "InvalidFormat", "InvalidBBox", "InternalError"}
      BY <2>1 DEF Answer
    <2>4. imported' \subseteq supportedCRS'
      BY <2>1 DEF PixelInv, setup
    <2>5. stage' \in {"new", "based", "ready", "failed", "destroyed", "begin", "load", "opening",
                     "shapes", "raster", "undefined", "aborted", "crashed"}
      BY <2>3
    <2>6. 1 \in Nat \ {0}
      OBVIOUS
    <2> QED BY <1>2, <2>2, <2>3, <2>4, <2>5, <2>6
  <1>9. CASE HandleGetMapRequest
    <2>1. PICK r \in Requests :
            /\ request' = r
            /\ IF Missing(<<r.crs, OSM>>) \/ Missing(<<OSM, r.crs>>)
                 THEN stage' = "undefined" /\ UNCHANGED <<osmBBox, zoomLevel>>
                 ELSE LET bbox == TransformBBox(r.bbox, r.crs, OSM)
                      IN  /\ osmBBox' = bbox
                          /\ IF Undefined(r, bbox)
                               THEN stage' = "undefined" /\ UNCHANGED zoomLevel
                               ELSE stage' = "begin" /\ zoomLevel' = ZoomLevel(r, bbox)
      BY <1>9 DEF HandleGetMapRequest
    <2>2. zoomLevel' \in 0 .. MaxOSMZoomLevel /\ stage' \in {"undefined", "begin"}
      <3>1. zoomLevel \in 0 .. MaxOSMZoomLevel
        BY DEF PixelInv
      <3>2. \A bbox : ZoomLevel(r, bbox) \in 0 .. MaxOSMZoomLevel
        BY ZoomLevelExists
      <3>3. /\ stage' \in {"undefined", "begin"}
            /\ zoomLevel' = zoomLevel \/ \E bbox : zoomLevel' = ZoomLevel(r, bbox)
        BY <2>1
      <3> QED BY <3>1, <3>2, <3>3
    <2>3. stage = "ready" /\ result' = "" /\ UNCHANGED <<setup, loading, pixel>>
      BY <1>9 DEF HandleGetMapRequest
    <2>4. x' = 0 /\ y' = 0 /\ img' = NoPixels /\ candidates' = {}
      BY <2>3 DEF PixelInv, pixel
    <2> QED BY <1>2, <2>1, <2>2, <2>3, <2>4 DEF PixelInv, setup, loading
  <1>10. CASE RasterPixel
    <2>1. /\ stage = "raster" /\ y < request.height /\ stage' = "query"
          /\ candidates' = QueryIntersectsRegion /\ UNCHANGED <<setup, asked, loading, x, y, img, result>>
      BY <1>10 DEF RasterPixel
    <2>2. candidates' \subseteq DOMAIN waterPolygons'
      BY <2>1 DEF QueryIntersectsRegion, loading
    <2>3. y' # request'.height
      <3>1. y \in 0 .. request.height /\ request.height \in Nat /\ y < request.height
        BY <2>1, RequestSize DEF PixelInv
      <3>2. y # request.height
        BY <3>1
      <3>3. y' = y /\ request' = request
        BY <2>1 DEF asked
      <3> QED BY <3>2, <3>3
    <2> QED BY <2>1, <2>2, <2>3 DEF PixelInv, setup, asked, loading
  <1>11. CASE LookAt
    <2>1. /\ stage = "query" /\ UNCHANGED <<stage, setup, asked, loading, x, y, img, result>>
          /\ candidates' \subseteq candidates
      BY <1>11 DEF LookAt
    <2> QED BY <2>1 DEF PixelInv, setup, asked, loading
  <1>12. CASE WritePixel
    <2>1. /\ stage = "query" /\ candidates = {} /\ stage' = "raster"
          /\ img' = WithPixel(<<x, request.height - y - 1>>, Shade(minSqrDistance))
          /\ \/ x + 1 < request.width /\ x' = x + 1 /\ y' = y
             \/ ~(x + 1 < request.width) /\ x' = 0 /\ y' = y + 1
          /\ UNCHANGED <<setup, asked, loading, candidates, result>>
      BY <1>12 DEF WritePixel
    <2>2. request.width \in Nat \ {0} /\ request.height \in Nat \ {0}
      BY RequestSize DEF PixelInv
    <2>3. x \in 0 .. request.width - 1 /\ y \in 0 .. request.height /\ y # request.height
      BY <2>1 DEF PixelInv
    <2>4. <<x, request.height - y - 1>> \in (0 .. request.width - 1) \X (0 .. request.height - 1)
      BY <2>2, <2>3
    <2>5. DOMAIN img' = DOMAIN img \union {<<x, request.height - y - 1>>}
      BY <2>1 DEF WithPixel
    <2>6. x' \in 0 .. request.width - 1 /\ y' \in 0 .. request.height
      BY <2>1, <2>2, <2>3
    <2> QED BY <2>1, <2>4, <2>5, <2>6 DEF PixelInv, setup, asked, loading
  <1> QED BY <1>1, <1>4, <1>5, <1>6, <1>7, <1>8, <1>9, <1>10, <1>11, <1>12 DEF OSMNext, OSMStep

LEMMA PixelInvariance == OSMSpec => []PixelInv
PROOF
  <1>1. OSMInit => PixelInv
    <2> SUFFICES ASSUME OSMInit PROVE PixelInv
      OBVIOUS
    <2>1. 0 \in 0 .. MaxOSMZoomLevel
      BY OSMAssumption
    <2>2. /\ x = 0 /\ y = 0 /\ img = NoPixels /\ candidates = {} /\ request = NoRequest
          /\ stage = "new" /\ zoomLevel = 0 /\ feature = 1 /\ result = "" /\ imported = {}
      BY DEF OSMInit
    <2>3. /\ candidates \subseteq DOMAIN waterPolygons
          /\ x \in 0 .. request.width - 1 /\ y \in 0 .. request.height
          /\ DOMAIN img \subseteq (0 .. request.width - 1) \X (0 .. request.height - 1)
      BY <2>2, NoPixelYet
    <2>4. zoomLevel \in 0 .. MaxOSMZoomLevel /\ feature \in Nat \ {0}
      <3>1. zoomLevel = 0 /\ feature = 1
        BY DEF OSMInit
      <3> QED BY <2>1, <3>1
    <2>5. /\ imported \subseteq supportedCRS /\ request \in Requests \union {NoRequest}
          /\ result \in {"", "OK", "InvalidSRS", "InvalidFormat", "InvalidBBox", "InternalError"}
          /\ stage \in {"new", "based", "ready", "failed", "destroyed", "begin", "load", "opening", "shapes",
                        "raster", "query", "undefined", "aborted", "crashed"}
          /\ stage \notin {"raster", "query"} => x = 0 /\ y = 0 /\ img = NoPixels
          /\ stage # "query" => candidates = {}
          /\ stage = "query" => y # request.height
      BY <2>2
    <2> QED BY <2>3, <2>4, <2>5, Zenon DEF PixelInv
  <1>2. PixelInv /\ [OSMNext]_osmVars => PixelInv'
    BY PixelKept
  <1> QED BY <1>1, <1>2, PTL DEF OSMSpec

\* The tiles that are loaded are those of the box, and the pixels that are written
\* those of the image, for every configuration, database and request.
THEOREM OSMTypes == OSMSpec => []OSMTypeOK
PROOF
  <1>1. LoadInv /\ TileInv /\ PixelInv => OSMTypeOK
    BY DEF LoadInv, TileInv, PixelInv, OSMTypeOK, InBox
  <1> QED BY <1>1, LoadInvariance, LayerTileInvariance, PixelInvariance, PTL

-----------------------------------------------------------------------------
(* The features of a tile.                                                 *)

\* The parts of a polygon are a sequence of polygons, and those of rings.
Made(f) ==
  f.type = "POLYGON" =>
    /\ IsSeq(f.parts)
    /\ \A i \in DOMAIN f.parts :
         f.parts[i] = [j \in DOMAIN f.parts[i] |-> [v \in DOMAIN f.parts[i][j] |-> f.parts[i][j][v]]]
AllMade(features) == IsSeq(features) /\ \A i \in DOMAIN features : Made(features[i])

DataInv ==
  /\ IsSeq(polygons)
  /\ \A name \in DOMAIN dataset : AllMade(dataset[name])

LEMMA ShortIsSeq ==
  /\ IsSeq(<<>>) /\ DOMAIN <<>> = {} /\ AllMade(<<>>)
  /\ \A e : IsSeq(<<e>>)
PROOF
  <1>1. IsSeq(<<>>) /\ DOMAIN <<>> = {}
    BY DEF IsSeq, Elements
  <1>2. ASSUME NEW e PROVE IsSeq(<<e>>)
    <2>1. <<e>> \in Seq({e})
      OBVIOUS
    <2> QED BY <2>1, SeqIsSeq
  <1> QED BY <1>1, <1>2 DEF AllMade

\* A shape on the map has the parts that it is made of.
LEMMA ShapeIsMade ==
  ASSUME NEW f, NEW parts, f.type = "POLYGON" => IsSeq(parts), f.parts = ShapeOnMap(parts)
  PROVE  Made(f)
PROOF
  <1> SUFFICES ASSUME IsSeq(parts)
               PROVE  /\ IsSeq(f.parts)
                      /\ \A i \in DOMAIN f.parts :
                           f.parts[i] = [j \in DOMAIN f.parts[i] |->
                                           [v \in DOMAIN f.parts[i][j] |-> f.parts[i][j][v]]]
    BY DEF Made
  <1>1. DOMAIN parts = 1 .. Len(parts) /\ Len(parts) \in Nat
    BY IsSeqDomain
  <1>2. f.parts = [i \in 1 .. Len(parts) |-> [j \in DOMAIN parts[i] |-> PathOnMap(parts[i][j])]]
    BY <1>1 DEF ShapeOnMap
  <1>3. f.parts \in [1 .. Len(parts) -> {f.parts[i] : i \in 1 .. Len(parts)}]
    BY <1>2
  <1>4. IsSeq(f.parts)
    BY <1>1, <1>3, CountedIsSeq
  <1>5. ASSUME NEW i \in DOMAIN f.parts
        PROVE  f.parts[i] = [j \in DOMAIN f.parts[i] |->
                               [v \in DOMAIN f.parts[i][j] |-> f.parts[i][j][v]]]
    <2>1. f.parts[i] = [j \in DOMAIN parts[i] |-> PathOnMap(parts[i][j])]
      BY <1>2
    <2>2. ASSUME NEW j \in DOMAIN parts[i]
          PROVE  f.parts[i][j] = [v \in DOMAIN f.parts[i][j] |-> f.parts[i][j][v]]
      <3>1. f.parts[i][j] = [v \in DOMAIN parts[i][j] |-> OnMap(parts[i][j][v])]
        BY <2>1 DEF PathOnMap
      <3> QED BY <3>1
    <2>3. f.parts[i] = [j \in DOMAIN parts[i] |-> f.parts[i][j]]
      BY <2>1
    <2>4. DOMAIN f.parts[i] = DOMAIN parts[i]
      BY <2>1
    <2> QED BY <2>2, <2>3, <2>4
  <1> QED BY <1>4, <1>5

\* A feature is added to those of its layer.
LEMMA CreateKeeps ==
  ASSUME DataInv, NEW parts, Feature.type = "POLYGON" => IsSeq(parts), CreateFeature(parts)
  PROVE  DataInv'
PROOF
  <1> DEFINE f == [type |-> Feature.type, parts |-> ShapeOnMap(parts), fields |-> Fields]
  <1>1. /\ dataset' = [dataset EXCEPT ![Layer.name] = Append(@, f)]
        /\ polygons' = <<>>
    BY DEF CreateFeature, NewFeature
  <1>2. Made(f)
    <2>1. f.type = Feature.type /\ f.parts = ShapeOnMap(parts)
      OBVIOUS
    <2> HIDE DEF f
    <2> QED BY <2>1, ShapeIsMade
  <1> HIDE DEF f
  <1>3. ASSUME NEW name \in DOMAIN dataset'
        PROVE  AllMade(dataset'[name])
    <2>1. name \in DOMAIN dataset /\ AllMade(dataset[name])
      BY <1>1, <1>3 DEF DataInv
    <2>2. CASE name = Layer.name
      <3>1. dataset'[name] = Append(dataset[name], f)
        BY <1>1, <2>1, <2>2
      <3>2. IsSeq(dataset[name])
        BY <2>1 DEF AllMade
      <3>3. /\ IsSeq(Append(dataset[name], f))
            /\ DOMAIN Append(dataset[name], f) = DOMAIN dataset[name] \union {Len(dataset[name]) + 1}
            /\ \A i \in DOMAIN dataset[name] : Append(dataset[name], f)[i] = dataset[name][i]
            /\ Append(dataset[name], f)[Len(dataset[name]) + 1] = f
        BY <3>2, AppendIsSeq
      <3> QED BY <1>2, <2>1, <3>1, <3>3 DEF AllMade
    <2>3. CASE name # Layer.name
      BY <1>1, <2>1, <2>3
    <2> QED BY <2>2, <2>3
  <1> QED BY <1>1, <1>3, ShortIsSeq DEF DataInv

\* The polygon that a ring ends is one or none.
LEMMA PolygonIsSeq ==
  ASSUME NEW end
  PROVE  IsSeq(PolygonUntil(end))
PROOF
  BY ShortIsSeq DEF PolygonUntil, CreateOGRPolygon

LEMMA ConvertingKeepsData ==
  ASSUME DataInv, Converting
  PROVE  DataInv'
PROOF
  <1>1. CASE UNCHANGED <<polygons, dataset>>
    BY <1>1 DEF DataInv, IsSeq, Elements
  <1>2. CASE dataset' = <<>> /\ UNCHANGED polygons
    BY <1>2, ShortIsSeq DEF DataInv, IsSeq, Elements
  <1>3. CASE UnknownCommand \/ UnknownType \/ CreateFeatureFails
    BY <1>2, <1>3 DEF UnknownCommand, UnknownType, CreateFeatureFails, Fail, rings
  <1>4. CASE NoTile \/ EmptyTile \/ OpenTile \/ InflateBlock \/ UnpackFails \/ ParseTile
             \/ Converted \/ ReadNothing \/ ReadVertex \/ ReadBeyond \/ ReadClose \/ ReadTags
             \/ ReadTagsBeyond \/ AddNoLine \/ BeginRings
    BY <1>1, <1>4 DEF NoTile, EmptyTile, OpenTile, InflateBlock, UnpackFails, ParseTile,
       Converted, ReadNothing, ReadVertex, ReadBeyond, ReadClose, ReadTags, ReadTagsBeyond,
       AddNoLine, BeginRings, rings
  <1>5. CASE BeginLayer
    <2>1. /\ dataset' = [name \in DOMAIN dataset \union {tile[layerIndex].name} |->
                          IF name \in DOMAIN dataset THEN dataset[name] ELSE <<>>]
          /\ UNCHANGED polygons
      BY <1>5 DEF BeginLayer, rings
    <2>2. \A name \in DOMAIN dataset' :
            \/ name \in DOMAIN dataset /\ dataset'[name] = dataset[name]
            \/ dataset'[name] = <<>>
      BY <2>1
    <2>3. \A name \in DOMAIN dataset' : AllMade(dataset'[name])
      BY <2>2, ShortIsSeq DEF DataInv
    <2>4. IsSeq(polygons')
      BY <2>1 DEF DataInv
    <2> QED BY <2>3, <2>4 DEF DataInv
  <1>6. CASE ConvertPoints
    BY <1>6, CreateKeeps DEF ConvertPoints
  <1>7. CASE ConvertLines
    <2>1. Feature.type # "POLYGON"
      BY <1>7 DEF ConvertLines
    <2>2. PICK parts : CreateFeature(parts)
      BY <1>7 DEF ConvertLines
    <2> QED BY <2>1, <2>2, CreateKeeps
  <1>8. CASE NextRing
    <2>1. \/ UNCHANGED <<polygons, dataset>>
          \/ polygons' = polygons \o PolygonUntil(p - 1) /\ UNCHANGED dataset
      BY <1>8 DEF NextRing
    <2>2. IsSeq(polygons \o PolygonUntil(p - 1))
      BY PolygonIsSeq, ConcatIsSeq DEF DataInv
    <2> QED BY <1>1, <2>1, <2>2 DEF DataInv
  <1>9. CASE ConvertPolygons
    <2> DEFINE parts == IF polyStart <= Len(vtPolys) THEN polygons \o PolygonUntil(Len(vtPolys))
                                                   ELSE polygons
    <2>1. CreateFeature(parts)
      BY <1>9 DEF ConvertPolygons
    <2>2. IsSeq(parts)
      BY PolygonIsSeq, ConcatIsSeq DEF DataInv
    <2> HIDE DEF parts
    <2> QED BY <2>1, <2>2, CreateKeeps
  <1> QED BY <1>3, <1>4, <1>5, <1>6, <1>7, <1>8, <1>9 DEF Converting

-----------------------------------------------------------------------------
(* The water of the tiles.                                                 *)

\* a part of a feature, in the reference system of the request
Moved(part) ==
  [j \in DOMAIN part |-> [v \in DOMAIN part[j] |->
     IF Transforms THEN Reproject(part[j][v], OSM, request.crs) ELSE part[j][v]]]

WaterFound(t, f) ==
  opened[t].water[f].type = "POLYGON" /\ <<t, f>> \notin untransformed =>
    \A i \in DOMAIN opened[t].water[f].parts :
      Moved(opened[t].water[f].parts[i]) \in Elements(waterPolygons)

\* the feature is one the layer has yet to look at
ToLookAt(t, f) == stage = "shapes" /\ t = Len(opened) /\ f >= feature

WaterInv ==
  /\ IsSeq(waterPolygons) /\ IsSeq(opened)
  /\ \A t \in DOMAIN opened : AllMade(opened[t].water)
  /\ stage = "shapes" => /\ Len(opened) \in DOMAIN opened
                         /\ opened[Len(opened)].water = waterLayer
                         /\ feature \in Nat \ {0}
  /\ stage \in Loading =>
       \A t \in DOMAIN opened : \A f \in DOMAIN opened[t].water : ToLookAt(t, f) \/ WaterFound(t, f)
  /\ stage \in {"new", "based", "ready"} => opened = <<>> /\ waterPolygons = <<>>

\* What LoadShape adds for a polygon are its parts, each moved.
LEMMA PolygonsAreMoved ==
  ASSUME NEW f, Made(f)
  PROVE  /\ IsSeq(PolygonsOf(f))
         /\ f.type = "POLYGON" => \A i \in DOMAIN f.parts : Moved(f.parts[i]) \in Elements(PolygonsOf(f))
PROOF
  <1>1. CASE f.type # "POLYGON"
    BY <1>1, ShortIsSeq DEF PolygonsOf
  <1>2. CASE f.type = "POLYGON" /\ ~Transforms
    <2>1. PolygonsOf(f) = f.parts /\ IsSeq(f.parts)
      BY <1>2 DEF PolygonsOf, Made
    <2>2. ASSUME NEW i \in DOMAIN f.parts
          PROVE  Moved(f.parts[i]) = f.parts[i]
      <3>1. f.parts[i] = [j \in DOMAIN f.parts[i] |->
                            [v \in DOMAIN f.parts[i][j] |-> f.parts[i][j][v]]]
        BY <1>2 DEF Made
      <3>2. Moved(f.parts[i]) = [j \in DOMAIN f.parts[i] |->
                                   [v \in DOMAIN f.parts[i][j] |-> f.parts[i][j][v]]]
        BY <1>2 DEF Moved
      <3> QED BY <3>1, <3>2
    <2> QED BY <2>1, <2>2 DEF Elements
  <1>3. CASE f.type = "POLYGON" /\ Transforms
    <2>1. PolygonsOf(f) = ReprojectParts(f.parts) /\ IsSeq(f.parts)
      BY <1>3 DEF PolygonsOf, Made
    <2>2. DOMAIN f.parts = 1 .. Len(f.parts) /\ Len(f.parts) \in Nat
      BY <2>1, IsSeqDomain
    <2>3. PolygonsOf(f) = [i \in 1 .. Len(f.parts) |-> Moved(f.parts[i])]
      BY <1>3, <2>1, <2>2 DEF ReprojectParts, Moved
    <2>4. PolygonsOf(f) \in [1 .. Len(f.parts) -> {Moved(f.parts[i]) : i \in 1 .. Len(f.parts)}]
      BY <2>3
    <2>5. IsSeq(PolygonsOf(f))
      BY <2>2, <2>4, CountedIsSeq
    <2>6. ASSUME NEW i \in DOMAIN f.parts
          PROVE  Moved(f.parts[i]) \in Elements(PolygonsOf(f))
      <3>1. i \in DOMAIN PolygonsOf(f) /\ PolygonsOf(f)[i] = Moved(f.parts[i])
        BY <2>2, <2>3
      <3> QED BY <3>1 DEF Elements
    <2> QED BY <2>5, <2>6
  <1> QED BY <1>1, <1>2, <1>3

\* What has been found stays found while the request is the same.
LEMMA FoundStays ==
  ASSUME NEW t, NEW f, WaterFound(t, f), UNCHANGED <<setup, request>>,
         opened'[t].water = opened[t].water, untransformed \subseteq untransformed',
         Elements(waterPolygons) \subseteq Elements(waterPolygons')
  PROVE  WaterFound(t, f)'
PROOF
  <1>1. Transforms' = Transforms
    BY DEF Transforms, setup
  <1>2. \A part : Moved(part)' = Moved(part)
    BY <1>1 DEF Moved, Reproject
  <1> QED BY <1>2 DEF WaterFound, Elements

LEMMA WaterLayerIsMade ==
  ASSUME DataInv
  PROVE  AllMade(waterLayer)
PROOF
  BY ShortIsSeq DEF waterLayer, DataInv

\* The invariant in the next state, by its parts.
LEMMA WaterInvNext ==
  ASSUME IsSeq(waterPolygons'), IsSeq(opened'),
         \A t \in DOMAIN opened' : AllMade(opened'[t].water),
         stage' = "shapes" => /\ Len(opened') \in DOMAIN opened'
                              /\ opened'[Len(opened')].water = waterLayer'
                              /\ feature' \in Nat \ {0},
         stage' \in Loading =>
           \A t \in DOMAIN opened' : \A f \in DOMAIN opened'[t].water :
             ToLookAt(t, f)' \/ WaterFound(t, f)',
         stage' \in {"new", "based", "ready"} => opened' = <<>> /\ waterPolygons' = <<>>
  PROVE  WaterInv'
PROOF
  <1>1. IsSeq(waterPolygons)' /\ IsSeq(opened)'
    BY DEF IsSeq, Elements
  <1>2. ASSUME NEW t \in DOMAIN opened'
        PROVE  AllMade(opened[t].water)'
    <2>1. AllMade(opened'[t].water)
      OBVIOUS
    <2> QED BY <2>1 DEF AllMade, Made, IsSeq, Elements
  <1> QED BY <1>1, <1>2 DEF WaterInv

\* A feature that is looked at is found, left out, or has no polygons.
LEMMA LoadShapeKeeps ==
  ASSUME WaterInv, LoadShape
  PROVE  WaterInv'
PROOF
  <1> DEFINE f == waterLayer[feature]
             n == Len(opened)
  <1> PICK number : number = feature
    OBVIOUS
  <1>1. /\ stage = "shapes" /\ stage' = "shapes" /\ feature <= Len(waterLayer)
        /\ waterPolygons' = waterPolygons \o PolygonsOf(f) /\ feature' = feature + 1
        /\ UNCHANGED <<vars, setup, asked, opened, untransformed>>
    BY DEF LoadShape, LoadingShapes
  <1>2. /\ n \in DOMAIN opened /\ opened[n].water = waterLayer /\ feature \in Nat \ {0}
        /\ AllMade(waterLayer) /\ IsSeq(waterPolygons) /\ IsSeq(opened)
    BY <1>1 DEF WaterInv
  <1>3. feature \in DOMAIN waterLayer /\ Made(f)
    BY <1>1, <1>2, IsSeqDomain DEF AllMade
  <1>4. /\ IsSeq(PolygonsOf(f))
        /\ f.type = "POLYGON" => \A i \in DOMAIN f.parts : Moved(f.parts[i]) \in Elements(PolygonsOf(f))
    BY <1>3, PolygonsAreMoved
  <1>5. /\ IsSeq(waterPolygons')
        /\ Elements(waterPolygons') = Elements(waterPolygons) \union Elements(PolygonsOf(f))
    <2> HIDE DEF f
    <2> QED BY <1>1, <1>2, <1>4, ConcatIsSeq
  <1>6. ASSUME NEW t \in DOMAIN opened, NEW g \in DOMAIN opened[t].water, WaterFound(t, g)
        PROVE  WaterFound(t, g)'
    BY <1>1, <1>5, <1>6, FoundStays DEF asked
  <1>7. WaterFound(n, number)'
    <2>1. Transforms' = Transforms
      BY <1>1 DEF Transforms, setup, asked
    <2>2. \A part : Moved(part)' = Moved(part)
      BY <1>1, <2>1 DEF Moved, Reproject, asked
    <2> QED BY <1>1, <1>2, <1>4, <1>5, <2>2 DEF WaterFound, Elements
  <1>8. ASSUME NEW t \in DOMAIN opened, NEW g \in DOMAIN opened[t].water
        PROVE  ToLookAt(t, g)' \/ WaterFound(t, g)'
    <2>1. CASE WaterFound(t, g)
      BY <1>6, <2>1
    <2>2. CASE ToLookAt(t, g) /\ g = feature
      BY <1>1, <1>7, <2>2 DEF ToLookAt
    <2>3. CASE ToLookAt(t, g) /\ g # feature
      <3>1. g \in Nat
        BY <1>2, <2>3, IsSeqDomain DEF ToLookAt, AllMade
      <3> QED BY <1>1, <1>2, <2>3, <3>1 DEF ToLookAt
    <2> QED BY <1>1, <2>1, <2>2, <2>3 DEF WaterInv, Loading
  <1>9. waterLayer' = waterLayer
    BY <1>1 DEF waterLayer, vars
  <1> HIDE DEF f
  <1> QED BY <1>1, <1>2, <1>5, <1>8, <1>9, WaterInvNext DEF WaterInv

LEMMA LeaveShapeOutKeeps ==
  ASSUME WaterInv, LeaveShapeOut
  PROVE  WaterInv'
PROOF
  <1>1. /\ stage = "shapes" /\ stage' = "shapes" /\ feature' = feature + 1
        /\ untransformed' = untransformed \union {<<Len(opened), feature>>}
        /\ UNCHANGED <<vars, setup, asked, opened, waterPolygons>>
    BY DEF LeaveShapeOut, LoadingShapes
  <1>2. /\ Len(opened) \in DOMAIN opened /\ opened[Len(opened)].water = waterLayer
        /\ feature \in Nat \ {0} /\ AllMade(waterLayer) /\ IsSeq(waterPolygons) /\ IsSeq(opened)
    BY <1>1 DEF WaterInv
  <1>3. ASSUME NEW t \in DOMAIN opened, NEW g \in DOMAIN opened[t].water
        PROVE  ToLookAt(t, g)' \/ WaterFound(t, g)'
    <2>1. CASE WaterFound(t, g)
      BY <1>1, <2>1, FoundStays DEF asked, Elements
    <2>2. CASE ToLookAt(t, g) /\ g = feature
      BY <1>1, <2>2 DEF ToLookAt, WaterFound
    <2>3. CASE ToLookAt(t, g) /\ g # feature
      <3>1. g \in Nat
        BY <1>2, <2>3, IsSeqDomain DEF ToLookAt, AllMade
      <3> QED BY <1>1, <1>2, <2>3, <3>1 DEF ToLookAt
    <2> QED BY <1>1, <2>1, <2>2, <2>3 DEF WaterInv, Loading
  <1>4. waterLayer' = waterLayer
    BY <1>1 DEF waterLayer, vars
  <1> QED BY <1>1, <1>2, <1>3, <1>4, WaterInvNext DEF WaterInv

\* The features of the next tile are yet to be looked at.
LEMMA OpenedKeepsWater ==
  ASSUME WaterInv, DataInv, Opened
  PROVE  WaterInv'
PROOF
  <1> DEFINE n == Len(opened) + 1
             e == [place |-> place, water |-> waterLayer]
  <1>1. /\ stage = "opening" /\ stage' = "shapes" /\ feature' = 1
        /\ opened' = Append(opened, e)
        /\ UNCHANGED <<vars, setup, asked, waterPolygons, untransformed>>
    BY DEF Opened
  <1>2. IsSeq(opened) /\ IsSeq(waterPolygons) /\ AllMade(waterLayer)
    BY WaterLayerIsMade DEF WaterInv
  <1>3. e.water = waterLayer
    OBVIOUS
  <1> HIDE DEF e
  <1>4. /\ IsSeq(opened') /\ Len(opened') = n /\ DOMAIN opened' = DOMAIN opened \union {n}
        /\ \A t \in DOMAIN opened : opened'[t] = opened[t]
        /\ opened'[n] = e
    BY <1>1, <1>2, AppendIsSeq
  <1>5. ASSUME NEW t \in DOMAIN opened'
        PROVE  AllMade(opened'[t].water)
    BY <1>2, <1>3, <1>4 DEF WaterInv
  <1>6. ASSUME NEW t \in DOMAIN opened', NEW g \in DOMAIN opened'[t].water
        PROVE  ToLookAt(t, g)' \/ WaterFound(t, g)'
    <2>1. CASE t = n
      <3>1. g \in Nat \ {0}
        BY <1>2, <1>3, <1>4, <2>1, IsSeqDomain DEF AllMade
      <3> QED BY <1>1, <1>4, <2>1, <3>1 DEF ToLookAt
    <2>2. CASE t \in DOMAIN opened
      <3>1. WaterFound(t, g)
        BY <1>1, <1>4, <2>2 DEF WaterInv, Loading, ToLookAt
      <3> QED BY <1>1, <1>4, <2>2, <3>1, FoundStays DEF asked, Elements
    <2> QED BY <1>4, <2>1, <2>2
  <1>7. waterLayer' = waterLayer
    BY <1>1 DEF waterLayer, vars
  <1> QED BY <1>1, <1>2, <1>3, <1>4, <1>5, <1>6, <1>7, WaterInvNext

\* Steps that change nothing the invariant is about.
LEMMA WaterSteady ==
  ASSUME WaterInv, UNCHANGED <<setup, request, opened, untransformed, waterPolygons>>,
         \/ stage \in Loading \ {"shapes"} /\ stage' \in Loading \ {"shapes"}
         \/ stage' \notin Loading \union {"new", "based", "ready"}
         \/ UNCHANGED <<stage, dataset, feature>>
  PROVE  WaterInv'
PROOF
  <1>1. ASSUME NEW t \in DOMAIN opened, NEW f \in DOMAIN opened[t].water, WaterFound(t, f)
        PROVE  WaterFound(t, f)'
    BY <1>1, FoundStays DEF Elements
  <1>2. IsSeq(waterPolygons') /\ IsSeq(opened') /\ \A t \in DOMAIN opened' : AllMade(opened'[t].water)
    BY DEF WaterInv
  <1>3. CASE stage \in Loading \ {"shapes"} /\ stage' \in Loading \ {"shapes"}
    BY <1>1, <1>2, <1>3, WaterInvNext DEF WaterInv, ToLookAt, Loading
  <1>4. CASE stage' \notin Loading \union {"new", "based", "ready"}
    BY <1>2, <1>4, WaterInvNext DEF Loading
  <1>5. CASE UNCHANGED <<stage, dataset, feature>>
    <2>1. waterLayer' = waterLayer
      BY <1>5 DEF waterLayer
    <2>2. \A t, f : ToLookAt(t, f)' <=> ToLookAt(t, f)
      BY <1>5 DEF ToLookAt
    <2> QED BY <1>1, <1>2, <1>5, <2>1, <2>2, WaterInvNext DEF WaterInv
  <1> QED BY <1>3, <1>4, <1>5

\* The tile is given back when all its features have been looked at.
LEMMA ReleaseKeepsWater ==
  ASSUME WaterInv, ReleaseDataSet
  PROVE  WaterInv'
PROOF
  <1>1. /\ stage = "shapes" /\ feature > Len(waterLayer)
        /\ UNCHANGED <<setup, asked, opened, untransformed, waterPolygons>>
    BY DEF ReleaseDataSet
  <1>2. stage' \in {"load", "raster"}
    BY DEF ReleaseDataSet, GoTo, TileAfter
  <1>3. /\ Len(opened) \in DOMAIN opened /\ opened[Len(opened)].water = waterLayer
        /\ feature \in Nat \ {0} /\ AllMade(waterLayer)
    BY <1>1 DEF WaterInv
  <1>4. ASSUME NEW t \in DOMAIN opened, NEW f \in DOMAIN opened[t].water
        PROVE  WaterFound(t, f)'
    <2>1. ~ToLookAt(t, f)
      BY <1>1, <1>3, IsSeqDomain DEF ToLookAt, AllMade
    <2>2. WaterFound(t, f)
      BY <1>1, <2>1 DEF WaterInv, Loading
    <2> QED BY <1>1, <2>2, FoundStays DEF asked, Elements
  <1> QED BY <1>1, <1>2, <1>4, WaterInvNext DEF WaterInv

\* A request starts and ends without water.
LEMMA NoWater ==
  ASSUME opened' = <<>>, waterPolygons' = <<>>, stage' # "shapes"
  PROVE  WaterInv'
PROOF
  <1>1. IsSeq(opened') /\ IsSeq(waterPolygons') /\ DOMAIN opened' = {}
    BY ShortIsSeq
  <1> QED BY <1>1, WaterInvNext

LEMMA WaterKept ==
  ASSUME WaterInv, DataInv, [OSMNext]_osmVars
  PROVE  WaterInv'
PROOF
  <1>1. CASE InitBase \/ InitBaseFails \/ InitLayer \/ HandleGetMapRequest
    <2>1. /\ stage \in {"new", "based", "ready"} /\ UNCHANGED loading /\ stage' # "shapes"
      BY <1>1 DEF InitBase, InitBaseFails, InitLayer, HandleGetMapRequest
    <2>2. opened' = <<>> /\ waterPolygons' = <<>>
      BY <2>1 DEF WaterInv, loading
    <2> QED BY <2>1, <2>2, NoWater
  <1>2. CASE Refuse \/ LoadFails \/ AnswerOK
    BY <1>2, NoWater DEF Refuse, LoadFails, AnswerOK, Answer
  <1>3. CASE BeginLoading \/ OpenDataSet \/ Opening \/ RasterPixel \/ LookAt \/ WritePixel
    <2>1. stage \in Loading \ {"shapes"} /\ stage' \in Loading \ {"shapes"}
      BY <1>3 DEF BeginLoading, OpenDataSet, Opening, RasterPixel, LookAt, WritePixel, Loading,
         GoTo, FirstTile
    <2>2. UNCHANGED <<setup, request, opened, untransformed, waterPolygons>>
      BY <1>3 DEF BeginLoading, OpenDataSet, Opening, RasterPixel, LookAt, WritePixel, loading, asked
    <2> QED BY <2>1, <2>2, WaterSteady
  <1>4. CASE AreaAssertionFails \/ NoGeometry \/ DestroyLayer
    <2>1. stage' \notin Loading \union {"new", "based", "ready"}
      BY <1>4 DEF AreaAssertionFails, NoGeometry, DestroyLayer, Loading
    <2>2. UNCHANGED <<setup, request, opened, untransformed, waterPolygons>>
      BY <1>4 DEF AreaAssertionFails, NoGeometry, DestroyLayer, loading, asked
    <2> QED BY <2>1, <2>2, WaterSteady
  <1>5. CASE UNCHANGED osmVars
    BY <1>5, WaterSteady DEF osmVars, vars, loading, asked
  <1> QED BY <1>1, <1>2, <1>3, <1>4, <1>5, LoadShapeKeeps, LeaveShapeOutKeeps, OpenedKeepsWater,
             ReleaseKeepsWater DEF OSMNext, OSMStep

LEMMA DataKept ==
  ASSUME DataInv, [OSMNext]_osmVars
  PROVE  DataInv'
PROOF
  <1>1. CASE UNCHANGED <<polygons, dataset>>
    BY <1>1 DEF DataInv, IsSeq, Elements
  <1>2. CASE Opening
    BY <1>2, ConvertingKeepsData DEF Opening
  <1>3. CASE LoadFails \/ ReleaseDataSet
    <2>1. polygons' = <<>> /\ dataset' = <<>>
      BY <1>3 DEF LoadFails, ReleaseDataSet, Release, NewFeature
    <2>2. IsSeq(polygons') /\ DOMAIN dataset' = {}
      BY <2>1, ShortIsSeq
    <2> QED BY <2>2 DEF DataInv, IsSeq, Elements
  <1>4. CASE OpenDataSet \/ DestroyLayer
    BY <1>1, <1>4 DEF OpenDataSet, Open, DestroyLayer, Destroy, rings
  <1>5. CASE InitBase \/ InitBaseFails \/ InitLayer \/ BeginLoading \/ Opened \/ LoadShape
             \/ LeaveShapeOut \/ AreaAssertionFails \/ NoGeometry \/ RasterPixel \/ LookAt
             \/ WritePixel \/ AnswerOK \/ Refuse \/ HandleGetMapRequest
    BY <1>1, <1>5 DEF InitBase, InitBaseFails, InitLayer, BeginLoading, Opened, LoadShape,
       LeaveShapeOut, AreaAssertionFails, NoGeometry, RasterPixel, LookAt, WritePixel,
       AnswerOK, Refuse, HandleGetMapRequest, vars, rings
  <1>6. CASE UNCHANGED osmVars
    BY <1>1, <1>6 DEF osmVars, vars, rings
  <1> QED BY <1>2, <1>3, <1>4, <1>5, <1>6 DEF OSMNext, OSMStep

LEMMA DataInvariance == OSMSpec => [](DataInv /\ WaterInv)
PROOF
  <1>1. OSMInit => DataInv
    BY ShortIsSeq DEF OSMInit, Init, DataInv
  <1>2. OSMInit => WaterInv
    <2> SUFFICES ASSUME OSMInit PROVE WaterInv
      OBVIOUS
    <2>1. opened = <<>> /\ waterPolygons = <<>> /\ stage = "new"
      BY DEF OSMInit
    <2>2. IsSeq(opened) /\ IsSeq(waterPolygons) /\ DOMAIN opened = {}
      BY <2>1, ShortIsSeq
    <2> QED BY <2>1, <2>2 DEF WaterInv, Loading
  <1> QED BY <1>1, <1>2, DataKept, WaterKept, PTL DEF OSMSpec

\* No water polygon of an opened tile is lost on the way to the tree, whatever the
\* tiles hold and however many there are.
THEOREM WaterKeptToTree == OSMSpec => []WaterLoaded
PROOF
  <1>1. WaterInv => WaterLoaded
    <2> SUFFICES ASSUME WaterInv, stage \in {"raster", "query"},
                        NEW t \in DOMAIN opened, NEW f \in DOMAIN opened[t].water,
                        opened[t].water[f].type = "POLYGON", <<t, f>> \notin untransformed,
                        NEW i \in DOMAIN opened[t].water[f].parts
                 PROVE  Moved(opened[t].water[f].parts[i]) \in {waterPolygons[n] : n \in DOMAIN waterPolygons}
      BY DEF WaterLoaded, Moved
    <2>1. WaterFound(t, f)
      BY DEF WaterInv, Loading, ToLookAt
    <2> QED BY <2>1 DEF WaterFound, Elements
  <1> QED BY <1>1, DataInvariance, PTL

-----------------------------------------------------------------------------
(* What stops the layer.                                                   *)

Broken == \E l \in DOMAIN tile : \E i \in DOMAIN tile[l].features : tile[l].features[i].shape = NoShape

\* A tile is looked at when it is converted, an empty one holds nothing, and the layer has
\* stopped at a tile that no encoder writes.
StopInv ==
  /\ stage \in Loading => request.crs \in supportedCRS
  /\ stage = "shapes" => pc \in {"emptyTile", "dataset"}
  /\ pc = "emptyTile" => dataset = <<>>
  /\ stage \in {"aborted", "crashed"} => Broken

\* A ring that is only moved keeps its area: it is turned over twice.
LEMMA AreaMoved ==
  ASSUME NEW ring \in Ring, NEW left \in Int, NEW top \in Int
  PROVE  Area([v \in DOMAIN ring |-> <<ring[v][1] + left, ring[v][2] + top>>]) = Area(ring)
PROOF
  <1> DEFINE over == Scaled(ring, 0, 0, 1)
             back == Scaled(over, left, top, 1)
             moved == [v \in DOMAIN ring |-> <<ring[v][1] + left, ring[v][2] + top>>]
  <1>1. DOMAIN ring = 1 .. Len(ring) /\ Len(ring) \in Nat
    BY SeqIsSeq DEF Ring
  <1>2. \A v \in DOMAIN ring : ring[v][1] \in Int /\ ring[v][2] \in Int
    <2>1. \A v \in DOMAIN ring : ring[v] \in Int \X Int
      BY <1>1, ElementOfSeq DEF Ring
    <2> QED BY <2>1
  <1>3. DOMAIN over = DOMAIN ring /\ \A v \in DOMAIN ring : over[v] = <<ring[v][1], -ring[v][2]>>
    <2>1. \A v \in DOMAIN ring : <<0 + ring[v][1] * 1, 0 - ring[v][2] * 1>> = <<ring[v][1], -ring[v][2]>>
      BY <1>2
    <2> QED BY <2>1 DEF Scaled
  <1>4. over \in Ring
    <2>1. \A v \in DOMAIN ring : <<ring[v][1], -ring[v][2]>> \in Int \X Int
      BY <1>2
    <2>2. over = [v \in 1 .. Len(ring) |-> over[v]]
      BY <1>1 DEF Scaled
    <2> HIDE DEF over
    <2>3. over \in [1 .. Len(ring) -> Int \X Int]
      BY <1>1, <1>3, <2>1, <2>2
    <2> QED BY <1>1, <2>3, CountedIn DEF Ring
  <1>5. back = moved
    <2>1. \A v \in DOMAIN ring : <<left + over[v][1] * 1, top - over[v][2] * 1>> = <<ring[v][1] + left, ring[v][2] + top>>
      <3> TAKE v \in DOMAIN ring
      <3>1. over[v][1] = ring[v][1] /\ over[v][2] = -ring[v][2] /\ ring[v][1] \in Int /\ ring[v][2] \in Int
        BY <1>2, <1>3
      <3> HIDE DEF over
      <3>2. left + over[v][1] * 1 = ring[v][1] + left /\ top - over[v][2] * 1 = ring[v][2] + top
        BY <3>1
      <3> QED BY <3>2
    <2> HIDE DEF over
    <2>2. back = [v \in DOMAIN ring |-> <<left + over[v][1] * 1, top - over[v][2] * 1>>]
      BY <1>3 DEF Scaled
    <2> QED BY <2>1, <2>2
  <1>6. Area(over) \in Int /\ Area(back) = -((1 * 1) * Area(over))
    <2> HIDE DEF over
    <2> QED BY <1>4, AreaTurned
  <1>7. Area(ring) \in Int /\ Area(over) = -((1 * 1) * Area(ring))
    BY AreaTurned
  <1> HIDE DEF over, back, moved
  <1>8. Area(back) = Area(ring)
    BY <1>6, <1>7
  <1> QED BY <1>5, <1>8 DEF moved

\* Reprojection keeps a polygon turned the right way.
LEMMA ReprojectedFits ==
  ASSUME NEW parts, Outlined(parts), request.crs \in DOMAIN Offset, NEW i \in DOMAIN parts
  PROVE  /\ AreasFit(parts[i])
         /\ i \in DOMAIN ReprojectParts(parts) /\ AreasFit(ReprojectParts(parts)[i])
PROOF
  <1> DEFINE poly == parts[i]
             made == ReprojectParts(parts)[i]
             moved(path) == [v \in DOMAIN path |-> Reproject(path[v], OSM, request.crs)]
  <1>1. /\ poly \in Seq(Ring) /\ poly # <<>> /\ Area(poly[1]) >= 0
        /\ \A n \in DOMAIN poly \ {1} : Area(poly[n]) <= 0
    <2>1. parts \in Seq(Seq(Ring)) /\ poly # <<>> /\ Area(poly[1]) >= 0
          /\ \A n \in DOMAIN poly \ {1} : Area(poly[n]) <= 0
      BY DEF Outlined
    <2> QED BY <2>1, SeqIsSeq, ElementOfSeq
  <1>2. DOMAIN poly = 1 .. Len(poly) /\ Len(poly) \in Nat /\ Len(poly) # 0
    <2> HIDE DEF poly
    <2> QED BY <1>1, SeqIsSeq, EmptySeq
  <1>3. \A n \in DOMAIN poly : poly[n] \in Ring
    BY <1>1, <1>2, ElementOfSeq
  <1>4. ASSUME NEW path \in Ring PROVE Area(moved(path)) = Area(path)
    <2> DEFINE left == Offset[request.crs][1] - Offset[OSM][1]
               top == Offset[request.crs][2] - Offset[OSM][2]
    <2>1. Offset[OSM] \in Int \X Int /\ Offset[request.crs] \in Int \X Int
      BY OSMAssumption
    <2>2. left \in Int /\ top \in Int
      BY <2>1
    <2>3. DOMAIN path = 1 .. Len(path)
      BY SeqIsSeq DEF Ring
    <2>4. \A v \in DOMAIN path : path[v] \in Int \X Int
      BY <2>3, SeqIsSeq, ElementOfSeq DEF Ring
    <2>5. \A v \in DOMAIN path : Reproject(path[v], OSM, request.crs) = <<path[v][1] + left, path[v][2] + top>>
      <3> TAKE v \in DOMAIN path
      <3>1. PICK point \in Int \X Int : point = path[v]
        BY <2>4
      <3>2. PICK a \in Int \X Int : a = Offset[OSM]
        BY <2>1
      <3>3. PICK b \in Int \X Int : b = Offset[request.crs]
        BY <2>1
      <3>4. Reproject(path[v], OSM, request.crs) = <<point[1] - a[1] + b[1], point[2] - a[2] + b[2]>>
        BY <3>1, <3>2, <3>3 DEF Reproject
      <3>5. point[1] - a[1] + b[1] = point[1] + (b[1] - a[1]) /\ point[2] - a[2] + b[2] = point[2] + (b[2] - a[2])
        OBVIOUS
      <3> QED BY <3>1, <3>2, <3>3, <3>4, <3>5
    <2> HIDE DEF left, top
    <2>6. moved(path) = [v \in DOMAIN path |-> <<path[v][1] + left, path[v][2] + top>>]
      BY <2>5
    <2> QED BY <2>2, <2>6, AreaMoved
  <1>5. /\ i \in DOMAIN ReprojectParts(parts) /\ DOMAIN made = DOMAIN poly
        /\ \A n \in DOMAIN poly : made[n] = moved(poly[n])
    BY DEF ReprojectParts
  <1>6. made = [n \in DOMAIN poly |-> moved(poly[n])]
    BY DEF ReprojectParts
  <1>7. made \in [1 .. Len(poly) -> {moved(poly[n]) : n \in DOMAIN poly}]
    <2> HIDE DEF moved, made, poly
    <2> QED BY <1>2, <1>6
  <1> HIDE DEF made, moved, poly
  <1>8. Len(made) = Len(poly)
    BY <1>2, <1>7, CountedIsSeq
  <1>9. \A n \in DOMAIN poly : Area(made[n]) = Area(poly[n])
    BY <1>3, <1>4, <1>5
  <1>10. 1 \in DOMAIN poly /\ \A n \in 2 .. Len(poly) : n \in DOMAIN poly /\ n # 1
    BY <1>2
  <1>11. AreasFit(poly)
    BY <1>1, <1>10 DEF AreasFit
  <1>12. AreasFit(made)
    BY <1>1, <1>8, <1>9, <1>10 DEF AreasFit
  <1> QED BY <1>5, <1>11, <1>12 DEF made, poly

\* The features of a name are features of the tile.
LEMMA NamedAreThere ==
  ASSUME TileInv, NEW name, NEW i \in DOMAIN FeaturesNamed(name)
  PROVE  \E l \in DOMAIN tile : \E n \in DOMAIN tile[l].features :
           FeaturesNamed(name)[i] = <<tile[l], tile[l].features[n]>>
PROOF
  <1> DEFINE named == NamedIn(tile, name)
             S == UNION {{<<tile[l], tile[l].features[n]>> : n \in DOMAIN tile[l].features} : l \in DOMAIN tile}
  <1>1. TileIsSeq(tile)
    BY TileHere
  <1>2. AllSeqs(named) /\ DOMAIN named = DOMAIN tile
    <2>1. DOMAIN named = DOMAIN tile
      BY DEF NamedIn
    <2>2. AllSeqs(named)
      <3> HIDE DEF named
      <3>1. AllSeqs(NamedIn(tile, name))
        BY <1>1, NamedTyped
      <3> QED BY <3>1 DEF named
    <2> HIDE DEF named
    <2> QED BY <2>1, <2>2
  <1>3. ASSUME NEW l \in DOMAIN named PROVE named[l] \in Seq(S)
    <2>1. IsSeq(named[l])
      BY <1>2 DEF AllSeqs
    <2>2. \A n \in DOMAIN named[l] : named[l][n] \in S
      <3>1. CASE tile[l].name # name
        <4>1. Len(named[l]) = 0
          BY <1>1, <1>2, <3>1, NamedTyped
        <4>2. DOMAIN named[l] = {}
          BY <2>1, <4>1, IsSeqDomain
        <4> QED BY <4>2
      <3>2. CASE tile[l].name = name
        <4>1. /\ DOMAIN named[l] = DOMAIN tile[l].features
              /\ \A n \in DOMAIN tile[l].features : named[l][n] = <<tile[l], tile[l].features[n]>>
          BY <1>1, <1>2, <3>2, NamedTyped
        <4> QED BY <1>2, <4>1
      <3> QED BY <3>1, <3>2
    <2> HIDE DEF S, named
    <2>3. named[l] \in Seq(Elements(named[l])) /\ DOMAIN named[l] = 1 .. Len(named[l]) /\ Len(named[l]) \in Nat
      BY <2>1, IsSeqDomain DEF IsSeq
    <2>4. named[l] \in [1 .. Len(named[l]) -> S]
      BY <2>2, <2>3, LenProperties
    <2> QED BY <2>3, <2>4, CountedIn
  <1>4. FeaturesNamed(name) = FlattenSeq(named)
    BY DEF FeaturesNamed, NamedIn
  <1>5. FlattenSeq(named) \in Seq(S)
    <2> HIDE DEF S, named
    <2> QED BY <1>2, <1>3, FlattenTyped DEF AllSeqs
  <1>6. FeaturesNamed(name)[i] \in S
    <2> HIDE DEF S, named
    <2> QED BY <1>4, <1>5, SeqIsSeq, ElementOfSeq
  <1> QED BY <1>6

\* The water of a tile that an encoder wrote has a geometry, and passes the assertion.
LEMMA WaterFits ==
  ASSUME TileInv, RingInv, PixelInv, TableInv, StopInv, LoadingShapes, ~Broken
  PROVE  ~AreaAssertionFails /\ ~NoGeometry
PROOF
  <1>1. pc \in {"emptyTile", "dataset"} /\ feature \in Nat \ {0} /\ feature <= Len(waterLayer)
        /\ request.crs \in DOMAIN Offset
    BY DEF StopInv, LoadingShapes, PixelInv, TableInv, Loading
  <1>2. "water" \in DOMAIN dataset /\ waterLayer = dataset["water"]
    <2> SUFFICES ASSUME "water" \notin DOMAIN dataset PROVE FALSE
      BY DEF waterLayer
    <2>1. Len(waterLayer) = 0
      BY EmptyIsSeq DEF waterLayer
    <2> QED BY <1>1, <2>1
  <1>3. pc = "dataset"
    BY <1>1, <1>2, EmptyIsSeq DEF StopInv
  <1>4. Lists(place, tile, layerIndex, featureIndex, dataset)
    BY <1>3 DEF RingInv, ListInv
  <1>5. PICK l \in DOMAIN tile : tile[l].name = "water"
    BY <1>2, <1>4 DEF Lists
  <1> DEFINE found == FeaturesNamed("water")
             made == waterLayer[feature]
  <1>6. /\ Len(waterLayer) = Len(found)
        /\ \A i \in DOMAIN found : MadeOf(place, found[i], waterLayer[i])
    BY <1>2, <1>3, <1>5, DatasetMade
  <1>7. feature \in DOMAIN found
    <2>1. IsSeq(found)
      <3>1. FeaturesNamed("water") = FlattenSeq(NamedIn(tile, "water"))
        BY DEF FeaturesNamed, NamedIn
      <3> QED BY <3>1, TileHere, NamedTyped, FlattenAt
    <2>2. DOMAIN found = 1 .. Len(found) /\ Len(found) \in Nat
      BY <2>1, IsSeqDomain
    <2> HIDE DEF found
    <2> QED BY <1>1, <1>6, <2>2
  <1>8. found[feature][2].shape # NoShape
    <2>1. PICK m \in DOMAIN tile : \E n \in DOMAIN tile[m].features :
            found[feature] = <<tile[m], tile[m].features[n]>>
      BY <1>7, NamedAreThere
    <2> QED BY <2>1 DEF Broken
  <1>9. /\ made.parts # <<>> /\ made.type = found[feature][2].type
        /\ found[feature][2].type = "POLYGON" => Outlined(made.parts)
    BY <1>6, <1>7, <1>8 DEF MadeOf
  <1>10. ~NoGeometry
    BY <1>9 DEF NoGeometry
  <1>11. \A i \in DOMAIN PolygonsOf(made) : AreasFit(PolygonsOf(made)[i])
    <2> HIDE DEF made, found
    <2>1. CASE made.type # "POLYGON"
      BY <2>1, EmptyIsSeq DEF PolygonsOf
    <2>2. CASE made.type = "POLYGON" /\ ~Transforms
      <3>1. PolygonsOf(made) = made.parts
        BY <2>2 DEF PolygonsOf
      <3> QED BY <1>1, <1>9, <2>2, <3>1, ReprojectedFits
    <2>3. CASE made.type = "POLYGON" /\ Transforms
      <3>1. PolygonsOf(made) = ReprojectParts(made.parts)
        BY <2>3 DEF PolygonsOf
      <3>2. DOMAIN ReprojectParts(made.parts) = DOMAIN made.parts
        BY DEF ReprojectParts
      <3> QED BY <1>1, <1>9, <2>3, <3>1, <3>2, ReprojectedFits
    <2> QED BY <2>1, <2>2, <2>3
  <1>12. ~AreaAssertionFails
    BY <1>11 DEF AreaAssertionFails
  <1> QED BY <1>10, <1>12

LEMMA StopKept ==
  ASSUME TileInv, RingInv, PixelInv, TableInv, StopInv, [OSMNext]_osmVars
  PROVE  StopInv'
PROOF
  <1>1. CASE AreaAssertionFails \/ NoGeometry
    <2>1. Broken
      <3>1. LoadingShapes
        BY <1>1 DEF AreaAssertionFails, NoGeometry
      <3> QED BY <1>1, <3>1, WaterFits
    <2>2. UNCHANGED <<pc, tile, dataset>> /\ stage' \in {"aborted", "crashed"} /\ stage' \notin Loading
      BY <1>1 DEF AreaAssertionFails, NoGeometry, vars, Loading
    <2>3. Broken'
      BY <2>1, <2>2 DEF Broken
    <2> QED BY <2>2, <2>3 DEF StopInv, Loading
  <1>2. CASE UNCHANGED osmVars
    BY <1>2 DEF osmVars, vars, asked, setup, StopInv, Broken
  <1>3. CASE HandleGetMapRequest
    BY <1>3 DEF HandleGetMapRequest, StopInv, vars, setup, Loading
  <1>4. CASE Opening
    <2>1. stage = "opening" /\ UNCHANGED <<stage, setup, request>>
      BY <1>4 DEF Opening, asked
    <2>2. pc' = "emptyTile" => dataset' = <<>>
      BY <1>4 DEF Opening, Converting, NoTile, EmptyTile, OpenTile, InflateBlock, UnpackFails, ParseTile,
         BeginLayer, Converted, ReadNothing, ReadVertex, ReadBeyond, ReadClose, UnknownCommand, Reading, Drawing,
         ReadAll, ReadTags, ReadTagsBeyond, UnknownType, CreateFeatureFails, ConvertPoints, ConvertLines, AddNoLine,
         BeginRings, NextRing, ConvertPolygons, CreateFeature, Fail, TileInv
    <2> QED BY <2>1, <2>2 DEF StopInv, setup
  <1>5. CASE OpenDataSet \/ LoadFails \/ ReleaseDataSet \/ DestroyLayer
    <2>1. pc' # "emptyTile" /\ stage' \notin {"shapes", "aborted", "crashed"}
      BY <1>5 DEF OpenDataSet, Open, LoadFails, Release, Answer, ReleaseDataSet, DestroyLayer, Destroy,
         GoTo, TileAfter
    <2>2. stage' \in Loading => stage \in Loading /\ UNCHANGED <<request, setup>>
      BY <1>5 DEF OpenDataSet, LoadFails, Answer, ReleaseDataSet, DestroyLayer, asked, Loading
    <2> QED BY <2>1, <2>2 DEF StopInv, setup
  <1>6. CASE Opened
    BY <1>6 DEF Opened, StopInv, vars, asked, setup, Loading
  <1>7. CASE InitBase \/ InitBaseFails \/ InitLayer \/ BeginLoading \/ LoadShape
             \/ LeaveShapeOut \/ RasterPixel \/ LookAt \/ WritePixel \/ AnswerOK \/ Refuse
    <2>1. /\ UNCHANGED <<pc, dataset>> /\ stage' \notin {"aborted", "crashed"}
          /\ stage' = "shapes" => stage = "shapes"
      BY <1>7 DEF InitBase, InitBaseFails, InitLayer, BeginLoading, GoTo, FirstTile, LoadShape, LeaveShapeOut,
         LoadingShapes, RasterPixel, LookAt, WritePixel, AnswerOK, Refuse, Answer, vars
    <2>2. stage' \in Loading => stage \in Loading /\ UNCHANGED <<request, setup>>
      BY <1>7 DEF InitBase, InitBaseFails, InitLayer, BeginLoading, GoTo, FirstTile, LoadShape, LeaveShapeOut,
         LoadingShapes, RasterPixel, LookAt, WritePixel, AnswerOK, Refuse, Answer, asked, Loading
    <2> QED BY <2>1, <2>2 DEF StopInv, setup
  <1> QED BY <1>1, <1>2, <1>3, <1>4, <1>5, <1>6, <1>7 DEF OSMNext, OSMStep

LEMMA StopInvariance == OSMSpec => []StopInv
PROOF
  <1>1. OSMInit => StopInv
    BY DEF OSMInit, Init, StopInv, Loading
  <1> QED BY <1>1, StopKept, LayerTileInvariance, LayerRingInvariance, PixelInvariance, TableInvariance,
             PTL DEF OSMSpec

\* Whatever the tiles that the layer opens and whatever is asked of it: only at a tile that
\* no encoder writes does the conversion read behind the end or crash, does the assertion
\* about areas fail, or is a feature without a geometry used.
THEOREM StopsAtBrokenTiles == OSMSpec => []OnlyBrokenTilesStop
PROOF
  <1>1. ReadInv /\ StopInv => OnlyBrokenTilesStop
    BY DEF ReadInv, StopInv, OnlyBrokenTilesStop, Broken
  <1> QED BY <1>1, LayerReadInvariance, StopInvariance, PTL
-----------------------------------------------------------------------------
(* Distances.                                                              *)

\* What is further away in a direction is further away by its square.
LEMMA SquareGrows ==
  ASSUME NEW m \in Nat, NEW n \in Int, n >= m \/ -n >= m
  PROVE  n * n >= m * m
PROOF
  <1>1. CASE n >= m
    <2>1. n * n >= n * m /\ n * m >= m * m
      BY <1>1
    <2> QED BY <2>1
  <1>2. CASE -n >= m
    <2>1. PICK o \in Int : o = -n
      OBVIOUS
    <2>2. o * o >= o * m /\ o * m >= m * m
      BY <1>2, <2>1
    <2>3. n * n = o * o
      BY <2>1
    <2> QED BY <2>2, <2>3
  <1> QED BY <1>1, <1>2

\* one side of a box, or within it
Clear(d, u, v) == d = 0 \/ (u >= d /\ v >= d) \/ (-u >= d /\ -v >= d)

\* Between two points that are further away on one side, so is every point.
LEMMA ClearBetween ==
  ASSUME NEW d \in Nat, NEW u \in Int, NEW v \in Int, Clear(d, u, v),
         NEW s \in Nat, NEW t \in Nat
  PROVE  LET w == s * u + t * v
         IN  w * w >= ((s + t) * d) * ((s + t) * d)
PROOF
  <1> DEFINE w == s * u + t * v
             m == (s + t) * d
  <1>1. w \in Int /\ m \in Nat
    <2>1. s * u \in Int /\ t * v \in Int
      OBVIOUS
    <2>2. s + t \in Nat
      OBVIOUS
    <2>3. \A a, b \in Nat : a * b \in Nat
      OBVIOUS
    <2> QED BY <2>1, <2>2, <2>3
  <1>2. w >= m \/ -w >= m
    <2>1. m = s * d + t * d
      OBVIOUS
    <2>2. CASE u >= d /\ v >= d
      <3>1. s * u >= s * d /\ t * v >= t * d
        BY <2>2
      <3> QED BY <2>1, <3>1
    <2>3. CASE -u >= d /\ -v >= d
      <3>1. s * (-u) >= s * d /\ t * (-v) >= t * d
        BY <2>3
      <3>2. s * (-u) = -(s * u) /\ t * (-v) = -(t * v)
        OBVIOUS
      <3>3. -w = -(s * u) + -(t * v)
        OBVIOUS
      <3> QED BY <2>1, <3>1, <3>2, <3>3
    <2>4. CASE d = 0
      <3>1. m = 0
        BY <2>4
      <3> QED BY <1>1, <3>1
    <2> QED BY <2>2, <2>3, <2>4 DEF Clear
  <1> HIDE DEF w, m
  <1>3. w * w >= m * m
    BY <1>1, <1>2, SquareGrows
  <1> QED BY <1>3 DEF w, m

\* What a sum of squares is worth, rounded up.
LEMMA QuotientUp ==
  ASSUME NEW n \in Int, NEW d \in Nat \ {0}, NEW least \in Int, n >= d * least
  PROVE  -((-n) \div d) \in Int /\ -((-n) \div d) >= least
PROOF
  <1>1. /\ (-n) \div d \in Int
        /\ -n = d * ((-n) \div d) + ((-n) % d)
        /\ (-n) % d \in 0 .. d - 1
    OBVIOUS
  <1> DEFINE q == (-n) \div d
  <1>2. ASSUME -q < least PROVE FALSE
    <2>1. -q \in Int /\ -q + 1 <= least
      BY <1>1, <1>2
    <2>2. d * (-q + 1) <= d * least
      <3> HIDE DEF q
      <3> QED BY <1>1, <2>1
    <2>3. d * (-q + 1) = -(d * q) + d
      BY <1>1
    <2> QED BY <1>1, <2>2, <2>3
  <1> QED BY <1>1, <1>2

\* A segment is no nearer than a box around both of its ends.
LEMMA SegmentBeyond ==
  ASSUME NEW a \in Int \X Int, NEW b \in Int \X Int, NEW q \in Int \X Int,
         NEW dx \in Nat, NEW dy \in Nat,
         Clear(dx, q[1] - a[1], q[1] - b[1]), Clear(dy, q[2] - a[2], q[2] - b[2])
  PROVE  /\ SegmentSqrDistance(a, b, q) \in Nat
         /\ SegmentSqrDistance(a, b, q) >= Unit * (dx * dx + dy * dy)
PROOF
  <1> DEFINE d1 == b[1] - a[1]
             d2 == b[2] - a[2]
             e1 == q[1] - a[1]
             e2 == q[2] - a[2]
             f1 == q[1] - b[1]
             f2 == q[2] - b[2]
             along == e1 * d1 + e2 * d2
             across == e1 * d2 - e2 * d1
             size == d1 * d1 + d2 * d2
             box == dx * dx + dy * dy
  <1>1. /\ d1 \in Int /\ d2 \in Int /\ e1 \in Int /\ e2 \in Int /\ f1 \in Int /\ f2 \in Int
        /\ f1 = e1 - d1 /\ f2 = e2 - d2
    OBVIOUS
  <1>2. SegmentSqrDistance(a, b, q) =
          IF along <= 0 THEN Unit * (e1 * e1 + e2 * e2)
          ELSE IF along >= size THEN Unit * (f1 * f1 + f2 * f2)
          ELSE -((-(across * across * Unit)) \div size)
    BY DEF SegmentSqrDistance
  <1>3. Clear(dx, e1, f1) /\ Clear(dy, e2, f2)
    OBVIOUS
  <1> HIDE DEF d1, d2, e1, e2, f1, f2
  <1>4. along \in Int /\ across \in Int /\ size \in Int /\ box \in Nat
    <2>1. \A m, n \in Int : m * n \in Int
      OBVIOUS
    <2>2. \A m, n \in Nat : m * n \in Nat
      OBVIOUS
    <2> QED BY <1>1, <2>1, <2>2
  <1>5. e1 * e1 + e2 * e2 >= box /\ f1 * f1 + f2 * f2 >= box
    <2>1. e1 * e1 >= dx * dx /\ f1 * f1 >= dx * dx
      BY <1>1, <1>3, SquareGrows DEF Clear
    <2>2. e2 * e2 >= dy * dy /\ f2 * f2 >= dy * dy
      BY <1>1, <1>3, SquareGrows DEF Clear
    <2> QED BY <1>1, <2>1, <2>2
  <1>6. \A n \in Int : n >= box => Unit * n \in Nat /\ Unit * n >= Unit * box
    BY <1>4 DEF Unit
  <1>7. CASE along <= 0
    <2>1. e1 * e1 + e2 * e2 \in Int
      BY <1>1
    <2> HIDE DEF along, box
    <2>2. SegmentSqrDistance(a, b, q) = Unit * (e1 * e1 + e2 * e2)
      BY <1>2, <1>7
    <2>3. Unit * (e1 * e1 + e2 * e2) \in Nat /\ Unit * (e1 * e1 + e2 * e2) >= Unit * box
      <3> DEFINE n == e1 * e1 + e2 * e2
      <3>1. n \in Int /\ n >= box
        BY <1>5, <2>1
      <3> HIDE DEF n
      <3>2. Unit * n \in Nat /\ Unit * n >= Unit * box
        BY <1>6, <3>1
      <3> QED BY <3>2 DEF n
    <2> QED BY <2>2, <2>3 DEF box
  <1>8. CASE ~(along <= 0) /\ along >= size
    <2>1. f1 * f1 + f2 * f2 \in Int
      BY <1>1
    <2> HIDE DEF along, box, size
    <2>2. SegmentSqrDistance(a, b, q) = Unit * (f1 * f1 + f2 * f2)
      BY <1>2, <1>8
    <2>3. Unit * (f1 * f1 + f2 * f2) \in Nat /\ Unit * (f1 * f1 + f2 * f2) >= Unit * box
      <3> DEFINE n == f1 * f1 + f2 * f2
      <3>1. n \in Int /\ n >= box
        BY <1>5, <2>1
      <3> HIDE DEF n
      <3>2. Unit * n \in Nat /\ Unit * n >= Unit * box
        BY <1>6, <3>1
      <3> QED BY <3>2 DEF n
    <2> QED BY <2>2, <2>3 DEF box
  <1>9. CASE ~(along <= 0) /\ ~(along >= size)
    <2> DEFINE rest == size - along
               w1 == rest * e1 + along * f1
               w2 == rest * e2 + along * f2
    <2>1. along \in Nat /\ rest \in Nat /\ rest + along = size /\ size \in Nat \ {0}
      <3> HIDE DEF along, size
      <3> QED BY <1>4, <1>9
    <2>2. /\ w1 * w1 >= (size * dx) * (size * dx)
          /\ w2 * w2 >= (size * dy) * (size * dy)
      <3> HIDE DEF along, size, rest
      <3>1. /\ w1 * w1 >= ((rest + along) * dx) * ((rest + along) * dx)
            /\ w2 * w2 >= ((rest + along) * dy) * ((rest + along) * dy)
        BY <1>1, <1>3, <2>1, ClearBetween
      <3> QED BY <2>1, <3>1
    <2>3. w1 = d2 * across /\ w2 = -(d1 * across)
      <3>1. w1 = size * e1 - along * d1 /\ w2 = size * e2 - along * d2
        <4> HIDE DEF along, size
        <4>1. rest * e1 = size * e1 - along * e1 /\ rest * e2 = size * e2 - along * e2
          BY <1>1, <1>4
        <4>2. along * f1 = along * e1 - along * d1 /\ along * f2 = along * e2 - along * d2
          BY <1>1, <1>4
        <4> HIDE DEF rest
        <4> QED BY <1>1, <1>4, <4>1, <4>2
      <3>2. /\ size * e1 = (d1 * d1) * e1 + (d2 * d2) * e1
            /\ size * e2 = (d1 * d1) * e2 + (d2 * d2) * e2
        BY <1>1
      <3>3. /\ along * d1 = (e1 * d1) * d1 + (e2 * d2) * d1
            /\ along * d2 = (e1 * d1) * d2 + (e2 * d2) * d2
        BY <1>1
      <3>4. /\ d2 * across = d2 * (e1 * d2) - d2 * (e2 * d1)
            /\ d1 * across = d1 * (e1 * d2) - d1 * (e2 * d1)
        BY <1>1
      <3>5. /\ (d1 * d1) * e1 = (e1 * d1) * d1 /\ (d2 * d2) * e1 = d2 * (e1 * d2)
            /\ (e2 * d2) * d1 = d2 * (e2 * d1) /\ (d2 * d2) * e2 = (e2 * d2) * d2
            /\ (d1 * d1) * e2 = d1 * (e2 * d1) /\ (e1 * d1) * d2 = d1 * (e1 * d2)
        BY <1>1
      <3> HIDE DEF w1, w2, along, size, across, rest
      <3> QED BY <1>1, <1>4, <3>1, <3>2, <3>3, <3>4, <3>5
    <2>4. across * across >= size * box
      <3> HIDE DEF along, across, rest, w1, w2
      <3>1. w1 * w1 + w2 * w2 = size * (across * across)
        <4>1. w1 * w1 = (d2 * d2) * (across * across)
          BY <1>1, <1>4, <2>3
        <4>2. w2 * w2 = (d1 * d1) * (across * across)
          BY <1>1, <1>4, <2>3
        <4>3. size * (across * across) = (d1 * d1) * (across * across) + (d2 * d2) * (across * across)
          BY <1>1, <1>4
        <4> QED BY <1>1, <1>4, <4>1, <4>2, <4>3
      <3>2. (size * dx) * (size * dx) + (size * dy) * (size * dy) = size * (size * box)
        <4> HIDE DEF size
        <4> QED BY <1>4
      <3> DEFINE m == across * across
                 n == size * box
      <3>3. m \in Int /\ n \in Int
        <4> HIDE DEF size, box
        <4> QED BY <1>4
      <3>4. size * m >= size * n
        <4>1. /\ (size * dx) * (size * dx) \in Int /\ (size * dy) * (size * dy) \in Int
              /\ w1 * w1 \in Int /\ w2 * w2 \in Int
          <5>1. w1 \in Int /\ w2 \in Int
            BY <1>1, <1>4, <2>3
          <5> HIDE DEF size
          <5> QED BY <1>4, <5>1
        <4> HIDE DEF size, box
        <4> QED BY <2>2, <3>1, <3>2, <4>1
      <3> HIDE DEF m, n, size, box
      <3>5. m >= n
        BY <2>1, <3>3, <3>4
      <3> QED BY <3>5 DEF m, n
    <2> HIDE DEF along, across, size, rest, w1, w2, box
    <2>5. across * across * Unit >= size * (Unit * box) /\ across * across * Unit \in Int
      <3>1. PICK m \in Int : m = across * across
        BY <1>4
      <3>2. PICK n \in Int : n = size * box
        BY <1>4
      <3>3. size * (Unit * box) = Unit * n
        BY <1>4, <3>2 DEF Unit
      <3> QED BY <2>4, <3>1, <3>2, <3>3 DEF Unit
    <2>6. SegmentSqrDistance(a, b, q) = -((-(across * across * Unit)) \div size)
      BY <1>2, <1>9
    <2>7. Unit * box \in Nat
      BY <1>4 DEF Unit
    <2>8. /\ SegmentSqrDistance(a, b, q) \in Int
          /\ SegmentSqrDistance(a, b, q) >= Unit * box
      BY <2>1, <2>5, <2>6, <2>7, QuotientUp
    <2>9. SegmentSqrDistance(a, b, q) \in Nat
      BY <2>7, <2>8
    <2> QED BY <2>8, <2>9 DEF box
  <1> QED BY <1>7, <1>8, <1>9
-----------------------------------------------------------------------------
(* The least and the most of some numbers.                                 *)

\* The least of some numbers is one of them, if there is one.
LEMMA LeastIsOne ==
  ASSUME NEW S, \E a \in S : \A b \in S : a <= b
  PROVE  LeastOf(S) \in S /\ \A b \in S : LeastOf(S) <= b
PROOF
  BY DEF LeastOf

LEMMA LeastOfNumbers ==
  ASSUME NEW S, S \subseteq Nat, S # {}
  PROVE  LeastOf(S) \in S /\ \A b \in S : LeastOf(S) <= b
PROOF
  BY HasFirst, LeastIsOne

\* Numbers that can be counted have a least one.
LEMMA CountedHaveLeast ==
  ASSUME NEW n \in Nat \ {0}, NEW g, \A i \in 1 .. n : g[i] \in Int
  PROVE  \E j \in 1 .. n : \A i \in 1 .. n : g[j] <= g[i]
PROOF
  <1> DEFINE T == {m \in 0 .. n : m = 0 \/ \E j \in 1 .. m : \A i \in 1 .. m : g[j] <= g[i]}
  <1>1. 0 \in T
    OBVIOUS
  <1>2. ASSUME NEW m \in 1 .. n, m - 1 \in T PROVE m \in T
    <2>1. m \in 1 .. m /\ \A i \in 1 .. m : i \in 1 .. n /\ (i = m \/ i \in 1 .. m - 1)
      OBVIOUS
    <2>2. CASE m = 1
      <3>1. \A i \in 1 .. m : i = m
        BY <2>2
      <3>2. g[m] \in Int
        OBVIOUS
      <3>3. \A i \in 1 .. m : g[m] <= g[i]
        BY <3>1, <3>2
      <3> QED BY <2>1, <3>3
    <2>3. CASE m # 1
      <3>1. PICK j \in 1 .. m - 1 : \A i \in 1 .. m - 1 : g[j] <= g[i]
        BY <1>2, <2>3
      <3>2. j \in 1 .. m /\ g[j] \in Int /\ g[m] \in Int
        OBVIOUS
      <3>3. CASE g[j] <= g[m]
        <4>1. \A i \in 1 .. m : g[j] <= g[i]
          BY <2>1, <3>1, <3>3
        <4> QED BY <3>2, <4>1
      <3>4. CASE g[m] < g[j]
        <4>1. ASSUME NEW i \in 1 .. m PROVE g[m] <= g[i]
          <5>1. CASE i = m
            BY <3>2, <5>1
          <5>2. CASE i \in 1 .. m - 1
            <6>1. g[j] <= g[i] /\ g[i] \in Int
              BY <3>1, <5>2
            <6> QED BY <3>2, <3>4, <6>1
          <5> QED BY <2>1, <5>1, <5>2
        <4> QED BY <2>1, <4>1
      <3> QED BY <3>2, <3>3, <3>4
    <2> QED BY <2>2, <2>3
  <1>3. n \in T
    <2> HIDE DEF T
    <2>1. \A i \in 0 .. n : i \in T
      BY <1>1, <1>2, OneByOne
    <2> QED BY <2>1
  <1> QED BY <1>3

\* They have a greatest one as well.
LEMMA CountedHaveMost ==
  ASSUME NEW n \in Nat \ {0}, NEW g, \A i \in 1 .. n : g[i] \in Int
  PROVE  \E j \in 1 .. n : \A i \in 1 .. n : g[i] <= g[j]
PROOF
  <1> DEFINE h == [i \in 1 .. n |-> -g[i]]
  <1>1. \A i \in 1 .. n : h[i] \in Int /\ h[i] = -g[i]
    OBVIOUS
  <1>2. PICK j \in 1 .. n : \A i \in 1 .. n : h[j] <= h[i]
    <2> HIDE DEF h
    <2> QED BY <1>1, CountedHaveLeast
  <1> HIDE DEF h
  <1>3. ASSUME NEW i \in 1 .. n PROVE g[i] <= g[j]
    <2>1. h[j] <= h[i] /\ h[j] = -g[j] /\ h[i] = -g[i] /\ g[i] \in Int /\ g[j] \in Int
      BY <1>1, <1>2
    <2> QED BY <2>1
  <1> QED BY <1>3

-----------------------------------------------------------------------------
(* A polygon and its box.                                                  *)

\* rings with a vertex, and polygons of them with an exterior
Solid(ring) == ring \in Ring /\ Len(ring) \in Nat \ {0}
Polygonal(poly) ==
  /\ IsSeq(poly) /\ Len(poly) \in Nat \ {0} /\ DOMAIN poly = 1 .. Len(poly)
  /\ \A i \in DOMAIN poly : Solid(poly[i])

Point == Int \X Int

LEMMA DoubledVertices ==
  ASSUME NEW ring, Solid(ring)
  PROVE  /\ DOMAIN ring = 1 .. Len(ring)
         /\ \A v \in 1 .. Len(ring) : /\ ring[v][1] \in Int /\ ring[v][2] \in Int
                                      /\ Doubled(ring)[v] = <<2 * ring[v][1], 2 * ring[v][2]>>
                                      /\ Doubled(ring)[v] \in Int \X Int
                                      /\ (v % Len(ring)) + 1 \in 1 .. Len(ring)
         /\ DOMAIN Doubled(ring) = 1 .. Len(ring)
         /\ Len(Doubled(ring)) = Len(ring)
PROOF
  <1>1. DOMAIN ring = 1 .. Len(ring) /\ \A v \in 1 .. Len(ring) : ring[v] \in Int \X Int
    BY SeqIsSeq, ElementOfSeq DEF Solid, Ring
  <1>2. \A v \in 1 .. Len(ring) : ring[v][1] \in Int /\ ring[v][2] \in Int
    BY <1>1
  <1>3. \A v \in 1 .. Len(ring) : /\ Doubled(ring)[v] = <<2 * ring[v][1], 2 * ring[v][2]>>
                                  /\ Doubled(ring)[v] \in Int \X Int
    BY <1>1, <1>2 DEF Doubled
  <1>4. \A v \in 1 .. Len(ring) : (v % Len(ring)) + 1 \in 1 .. Len(ring)
    BY AfterIn DEF Solid
  <1>5. DOMAIN Doubled(ring) = 1 .. Len(ring) /\ Len(Doubled(ring)) = Len(ring)
    <2>1. Doubled(ring) \in [1 .. Len(ring) -> Int \X Int]
      <3> DEFINE d == Doubled(ring)
      <3>1. d = [v \in 1 .. Len(ring) |-> d[v]]
        BY <1>1 DEF Doubled
      <3> HIDE DEF d
      <3>2. \A v \in 1 .. Len(ring) : d[v] \in Int \X Int
        BY <1>3 DEF d
      <3>3. d \in [1 .. Len(ring) -> Int \X Int]
        BY <3>1, <3>2
      <3> QED BY <3>3 DEF d
    <2> QED BY <2>1, CountedIsSeq DEF Solid
  <1> QED BY <1>1, <1>2, <1>3, <1>4, <1>5

\* The box reaches as far as the vertices of the exterior do.
LEMMA BoxAround ==
  ASSUME NEW poly, Polygonal(poly)
  PROVE  LET box == Box(poly)
             ring == Doubled(poly[1])
         IN  /\ box.left \in Int /\ box.right \in Int /\ box.bottom \in Int /\ box.top \in Int
             /\ \A v \in 1 .. Len(poly[1]) : /\ box.left <= ring[v][1] /\ ring[v][1] <= box.right
                                             /\ box.bottom <= ring[v][2] /\ ring[v][2] <= box.top
             /\ box.left <= box.right /\ box.bottom <= box.top
PROOF
  <1> DEFINE n == Len(poly[1])
             d == Doubled(poly[1])
             xs == {2 * poly[1][v][1] : v \in DOMAIN poly[1]}
             ys == {2 * poly[1][v][2] : v \in DOMAIN poly[1]}
             most(set) == CHOOSE a \in set : \A b \in set : b <= a
  <1>1. Solid(poly[1]) /\ n \in Nat \ {0}
    <2>1. 1 \in DOMAIN poly
      BY DEF Polygonal
    <2> QED BY <2>1 DEF Polygonal, Solid
  <1>2. /\ DOMAIN poly[1] = 1 .. n
        /\ \A v \in 1 .. n : /\ d[v] = <<2 * poly[1][v][1], 2 * poly[1][v][2]>>
                             /\ 2 * poly[1][v][1] \in Int /\ 2 * poly[1][v][2] \in Int
    <2>1. /\ DOMAIN poly[1] = 1 .. Len(poly[1])
          /\ \A v \in 1 .. Len(poly[1]) : /\ poly[1][v][1] \in Int /\ poly[1][v][2] \in Int
                                          /\ Doubled(poly[1])[v] = <<2 * poly[1][v][1], 2 * poly[1][v][2]>>
      BY <1>1, DoubledVertices
    <2> QED BY <2>1
  <1>3. \A v \in 1 .. n : /\ d[v][1] \in Int /\ d[v][1] = 2 * poly[1][v][1]
                          /\ d[v][2] \in Int /\ d[v][2] = 2 * poly[1][v][2]
    BY <1>2
  <1>4. xs = {d[v][1] : v \in 1 .. n} /\ ys = {d[v][2] : v \in 1 .. n}
    <2> HIDE DEF d
    <2>1. xs = {2 * poly[1][v][1] : v \in 1 .. n} /\ ys = {2 * poly[1][v][2] : v \in 1 .. n}
      BY <1>2
    <2> HIDE DEF n, xs, ys
    <2> QED BY <1>3, <2>1
  <1>5. Box(poly) = [left |-> LeastOf(xs), right |-> most(xs), bottom |-> LeastOf(ys), top |-> most(ys)]
    BY DEF Box
  <1> HIDE DEF xs, ys, d, n
  <1>6. ASSUME NEW c \in {1, 2}, NEW S, S = {d[v][c] : v \in 1 .. n}
        PROVE  /\ LeastOf(S) \in Int /\ most(S) \in Int /\ LeastOf(S) <= most(S)
               /\ \A v \in 1 .. n : LeastOf(S) <= d[v][c] /\ d[v][c] <= most(S)
    <2> DEFINE g == [v \in 1 .. n |-> d[v][c]]
    <2>1. \A v \in 1 .. n : g[v] = d[v][c] /\ g[v] \in Int
      BY <1>3, <1>6
    <2> HIDE DEF g
    <2>2. PICK j \in 1 .. n : \A v \in 1 .. n : g[j] <= g[v]
      BY <1>1, <2>1, CountedHaveLeast
    <2>3. PICK l \in 1 .. n : \A v \in 1 .. n : g[v] <= g[l]
      BY <1>1, <2>1, CountedHaveMost
    <2>4. \A a \in S : \E v \in 1 .. n : a = g[v]
      BY <1>6, <2>1
    <2>5. \A v \in 1 .. n : g[v] \in S
      BY <1>6, <2>1
    <2>6. \E a \in S : \A b \in S : a <= b
      BY <2>2, <2>4, <2>5
    <2>7. \E a \in S : \A b \in S : b <= a
      BY <2>3, <2>4, <2>5
    <2>8. LeastOf(S) \in S /\ \A b \in S : LeastOf(S) <= b
      BY <2>6, LeastIsOne
    <2>9. most(S) \in S /\ \A b \in S : b <= most(S)
      BY <2>7
    <2> HIDE DEF most
    <2>10. \A b \in S : b \in Int
      BY <2>1, <2>4
    <2> QED BY <2>1, <2>5, <2>8, <2>9, <2>10
  <1> HIDE DEF most
  <1>7. /\ LeastOf(xs) \in Int /\ most(xs) \in Int /\ LeastOf(xs) <= most(xs)
        /\ \A v \in 1 .. n : LeastOf(xs) <= d[v][1] /\ d[v][1] <= most(xs)
    BY <1>4, <1>6
  <1>8. /\ LeastOf(ys) \in Int /\ most(ys) \in Int /\ LeastOf(ys) <= most(ys)
        /\ \A v \in 1 .. n : LeastOf(ys) <= d[v][2] /\ d[v][2] <= most(ys)
    BY <1>4, <1>6
  <1>9. /\ Box(poly).left = LeastOf(xs) /\ Box(poly).right = most(xs)
        /\ Box(poly).bottom = LeastOf(ys) /\ Box(poly).top = most(ys)
    BY <1>5
  <1> QED BY <1>7, <1>8, <1>9 DEF n, d

\* How far beyond an interval a value is.
LEMMA BeyondInterval ==
  ASSUME NEW v \in Int, NEW least \in Int, NEW most \in Int, least <= most
  PROVE  /\ Beyond(v, least, most) \in Nat
         /\ least <= v /\ v <= most => Beyond(v, least, most) = 0
         /\ \A a, b \in Int : least <= a /\ a <= most /\ least <= b /\ b <= most =>
              Clear(Beyond(v, least, most), v - a, v - b)
PROOF
  BY DEF Beyond, Clear

\* A ring is no nearer than a box around its vertices.
LEMMA RingBeyond ==
  ASSUME NEW ring, Solid(ring), NEW q \in Point, NEW dx \in Nat, NEW dy \in Nat,
         \A v, w \in 1 .. Len(ring) :
           /\ Clear(dx, q[1] - Doubled(ring)[v][1], q[1] - Doubled(ring)[w][1])
           /\ Clear(dy, q[2] - Doubled(ring)[v][2], q[2] - Doubled(ring)[w][2])
  PROVE  RingSqrDistance(ring, q) \in Nat /\ RingSqrDistance(ring, q) >= Unit * (dx * dx + dy * dy)
PROOF
  <1> DEFINE d == Doubled(ring)
             S == {SegmentSqrDistance(e[1], e[2], q) : e \in Edges(d)}
             n == Len(ring)
             bound == Unit * (dx * dx + dy * dy)
  <1>1. /\ DOMAIN d = 1 .. n /\ Len(d) = n /\ n \in Nat \ {0}
        /\ \A v \in 1 .. n : d[v] \in Int \X Int /\ (v % n) + 1 \in 1 .. n
    BY DoubledVertices DEF Solid
  <1>2. \A v, w \in 1 .. n : /\ Clear(dx, q[1] - d[v][1], q[1] - d[w][1])
                             /\ Clear(dy, q[2] - d[v][2], q[2] - d[w][2])
    OBVIOUS
  <1> HIDE DEF d, n
  <1>3. \A e \in Edges(d) : \E v, w \in 1 .. n : e = <<d[v], d[w]>>
    BY <1>1 DEF Edges
  <1>4. \E e : e \in Edges(d)
    <2>1. 1 \in DOMAIN d
      BY <1>1
    <2>2. <<d[1], d[(1 % Len(d)) + 1]>> \in Edges(d)
      BY <2>1, Zenon DEF Edges
    <2> QED BY <2>2
  <1>5. ASSUME NEW e \in Edges(d)
        PROVE  SegmentSqrDistance(e[1], e[2], q) \in Nat /\ SegmentSqrDistance(e[1], e[2], q) >= bound
    <2>1. PICK v \in 1 .. n, w \in 1 .. n : e = <<d[v], d[w]>>
      BY <1>3
    <2>2. PICK a \in Int \X Int : a = d[v]
      BY <1>1
    <2>3. PICK b \in Int \X Int : b = d[w]
      BY <1>1
    <2>4. Clear(dx, q[1] - a[1], q[1] - b[1]) /\ Clear(dy, q[2] - a[2], q[2] - b[2])
      BY <1>2, <2>2, <2>3
    <2>5. SegmentSqrDistance(a, b, q) \in Nat /\ SegmentSqrDistance(a, b, q) >= bound
      BY <2>4, SegmentBeyond DEF Point
    <2>6. e[1] = a /\ e[2] = b
      BY <2>1, <2>2, <2>3
    <2> QED BY <2>5, <2>6
  <1> HIDE DEF bound
  <1>6. S \subseteq Nat /\ S # {} /\ \A a \in S : a >= bound
    BY <1>4, <1>5
  <1>7. RingSqrDistance(ring, q) = LeastOf(S)
    BY DEF RingSqrDistance, d
  <1> HIDE DEF S
  <1>8. LeastOf(S) \in S
    BY <1>6, LeastOfNumbers
  <1> QED BY <1>6, <1>7, <1>8 DEF bound

LEMMA RingDistance ==
  ASSUME NEW ring, Solid(ring), NEW q \in Point
  PROVE  RingSqrDistance(ring, q) \in Nat
PROOF
  <1>1. \A u, v : Clear(0, u, v)
    BY DEF Clear
  <1> QED BY <1>1, RingBeyond

\* The exterior of a polygon is no nearer than its box.
LEMMA BoxIsNearer ==
  ASSUME NEW poly, Polygonal(poly), NEW q \in Point
  PROVE  /\ SqrDistanceToBoundingBox(Box(poly), q) \in Nat
         /\ SqrDistanceToBoundingBox(Box(poly), q) <= RingSqrDistance(poly[1], q)
PROOF
  <1> DEFINE dx == Beyond(q[1], Box(poly).left, Box(poly).right)
             dy == Beyond(q[2], Box(poly).bottom, Box(poly).top)
             d == Doubled(poly[1])
             n == Len(poly[1])
  <1>1. Solid(poly[1]) /\ q[1] \in Int /\ q[2] \in Int
    BY DEF Polygonal, Point
  <1>2. \A v \in 1 .. n : d[v][1] \in Int /\ d[v][2] \in Int
    <2>1. \A v \in 1 .. Len(poly[1]) : Doubled(poly[1])[v] \in Int \X Int
      BY <1>1, DoubledVertices
    <2> QED BY <2>1
  <1>3. LET box == Box(poly)
        IN  /\ box.left \in Int /\ box.right \in Int /\ box.bottom \in Int /\ box.top \in Int
            /\ \A v \in 1 .. n : /\ box.left <= d[v][1] /\ d[v][1] <= box.right
                                 /\ box.bottom <= d[v][2] /\ d[v][2] <= box.top
            /\ box.left <= box.right /\ box.bottom <= box.top
    BY BoxAround
  <1> HIDE DEF d, n
  <1>4. dx \in Nat /\ dy \in Nat
    BY <1>1, <1>3, BeyondInterval
  <1>5. \A v, w \in 1 .. n : Clear(dx, q[1] - d[v][1], q[1] - d[w][1])
    BY <1>1, <1>2, <1>3, BeyondInterval
  <1>6. \A v, w \in 1 .. n : Clear(dy, q[2] - d[v][2], q[2] - d[w][2])
    BY <1>1, <1>2, <1>3, BeyondInterval
  <1> HIDE DEF dx, dy
  <1>7. /\ RingSqrDistance(poly[1], q) \in Nat
        /\ RingSqrDistance(poly[1], q) >= Unit * (dx * dx + dy * dy)
    BY <1>1, <1>4, <1>5, <1>6, RingBeyond DEF d, n
  <1>8. SqrDistanceToBoundingBox(Box(poly), q) = Unit * (dx * dx + dy * dy)
    BY DEF SqrDistanceToBoundingBox, dx, dy
  <1>9. Unit * (dx * dx + dy * dy) \in Nat
    <2>1. dx * dx \in Nat /\ dy * dy \in Nat
      BY <1>4
    <2> QED BY <2>1 DEF Unit
  <1> QED BY <1>7, <1>8, <1>9
-----------------------------------------------------------------------------
(* The inside of a ring.                                                   *)

\* whether an edge crosses the ray to the east of a point
Straddles(a, b, q) == (a[2] > q[2]) # (b[2] > q[2])
Crosses(a, b, q) ==
  /\ (a[2] > q[2]) # (b[2] > q[2])
  /\ LET d == (b[1] - a[1]) * (q[2] - a[2]) - (q[1] - a[1]) * (b[2] - a[2])
     IN  IF b[2] > a[2] THEN d > 0 ELSE d < 0

\* To the west of an edge the ray meets it, to the east it does not.
LEMMA CrossesByPlace ==
  ASSUME NEW a \in Int \X Int, NEW b \in Int \X Int, NEW q \in Point
  PROVE  /\ q[1] < a[1] /\ q[1] < b[1] => (Crosses(a, b, q) <=> Straddles(a, b, q))
         /\ q[1] > a[1] /\ q[1] > b[1] => ~Crosses(a, b, q)
PROOF
  <1> DEFINE w == b[1] - a[1]
             h == b[2] - a[2]
             u == q[1] - a[1]
             v == q[2] - a[2]
             d == w * v - u * h
  <1>1. /\ w \in Int /\ h \in Int /\ u \in Int /\ v \in Int
        /\ q[1] < a[1] <=> u < 0
        /\ q[1] > a[1] <=> u > 0
        /\ q[1] < b[1] <=> u < w
        /\ q[1] > b[1] <=> u > w
        /\ b[2] > a[2] <=> h > 0
        /\ a[2] > q[2] <=> v < 0
        /\ b[2] > q[2] <=> v < h
    BY DEF Point
  <1>2. Crosses(a, b, q) <=> Straddles(a, b, q) /\ (IF b[2] > a[2] THEN d > 0 ELSE d < 0)
    BY DEF Crosses, Straddles
  <1>3. Straddles(a, b, q) <=> (v >= 0 /\ v < h) \/ (v < 0 /\ v >= h)
    BY <1>1 DEF Straddles
  <1> HIDE DEF w, h, u, v
  <1>4. d \in Int /\ w * v \in Int /\ u * h \in Int
    BY <1>1
  <1>5. ASSUME v >= 0, v < h
        PROVE  /\ u < 0 /\ u < w => d > 0
               /\ u > 0 /\ u > w => d < 0
    <2>1. CASE u < 0 /\ u < w
      <3>1. w * v >= u * v
        BY <1>1, <1>5, <2>1
      <3>2. u * v > u * h
        BY <1>1, <1>5, <2>1
      <3>3. u * v \in Int
        BY <1>1
      <3> QED BY <1>1, <1>4, <2>1, <3>1, <3>2, <3>3
    <2>2. CASE u > 0 /\ u > w
      <3>1. w * v <= u * v
        BY <1>1, <1>5, <2>2
      <3>2. u * v < u * h
        BY <1>1, <1>5, <2>2
      <3>3. u * v \in Int
        BY <1>1
      <3> QED BY <1>1, <1>4, <2>2, <3>1, <3>2, <3>3
    <2> HIDE DEF d
    <2> QED BY <2>1, <2>2
  <1>6. ASSUME v < 0, v >= h
        PROVE  /\ u < 0 /\ u < w => d < 0
               /\ u > 0 /\ u > w => d > 0
    <2>1. CASE u < 0 /\ u < w
      <3>1. w * v < u * v
        BY <1>1, <1>6, <2>1
      <3>2. u * v <= u * h
        BY <1>1, <1>6, <2>1
      <3>3. u * v \in Int
        BY <1>1
      <3> QED BY <1>1, <1>4, <2>1, <3>1, <3>2, <3>3
    <2>2. CASE u > 0 /\ u > w
      <3>1. w * v > u * v
        BY <1>1, <1>6, <2>2
      <3>2. u * v >= u * h
        BY <1>1, <1>6, <2>2
      <3>3. u * v \in Int
        BY <1>1
      <3> QED BY <1>1, <1>4, <2>2, <3>1, <3>2, <3>3
    <2> HIDE DEF d
    <2> QED BY <2>1, <2>2
  <1> HIDE DEF d
  <1>7. /\ b[2] > a[2] => (Straddles(a, b, q) => v >= 0 /\ v < h)
        /\ ~(b[2] > a[2]) => (Straddles(a, b, q) => v < 0 /\ v >= h)
    BY <1>1, <1>3
  <1>8. /\ u < 0 /\ u < w => (Crosses(a, b, q) <=> Straddles(a, b, q))
        /\ u > 0 /\ u > w => ~Crosses(a, b, q)
    <2>1. CASE ~Straddles(a, b, q)
      BY <1>2, <2>1
    <2>2. CASE Straddles(a, b, q) /\ b[2] > a[2]
      BY <1>2, <1>4, <1>5, <1>7, <2>2
    <2>3. CASE Straddles(a, b, q) /\ ~(b[2] > a[2])
      BY <1>2, <1>4, <1>6, <1>7, <2>3
    <2> QED BY <2>1, <2>2, <2>3
  <1> QED BY <1>1, <1>8

\* Counting crossings, even or odd, can be done for any number of edges.
LEMMA ParityExists ==
  ASSUME NEW n \in Nat, NEW g
  PROVE  \E f : f = [i \in 0 .. n |-> IF i = 0 THEN FALSE ELSE f[i - 1] # g[i]]
PROOF
  <1> DEFINE Is(f, m) == f = [i \in 0 .. m |-> IF i = 0 THEN FALSE ELSE f[i - 1] # g[i]]
             T == {m \in 0 .. n : \E f : Is(f, m)}
  <1>1. 0 \in T
    <2>1. Is([i \in 0 .. 0 |-> FALSE], 0)
      OBVIOUS
    <2>2. \E f : Is(f, 0)
      <3> HIDE DEF Is
      <3> QED BY <2>1
    <2>3. 0 \in 0 .. n
      OBVIOUS
    <2> QED BY <2>2, <2>3
  <1>2. ASSUME NEW m \in 1 .. n, m - 1 \in T PROVE m \in T
    <2>1. PICK f : Is(f, m - 1)
      BY <1>2
    <2> DEFINE e == f[m - 1] # g[m]
               h == [i \in 0 .. m |-> IF i = m THEN e ELSE f[i]]
    <2>2. \A i \in 0 .. m - 1 : i \in 0 .. m /\ i # m
      OBVIOUS
    <2>3. \A i \in 0 .. m - 1 : h[i] = f[i]
      BY <2>2
    <2>4. m \in 0 .. m /\ m - 1 \in 0 .. m - 1 /\ m # 0
      OBVIOUS
    <2>5. h[m] = e
      BY <2>4
    <2>6. \A i \in 0 .. m - 1 : f[i] = IF i = 0 THEN FALSE ELSE f[i - 1] # g[i]
      BY <2>1
    <2>7. \A i \in 0 .. m : i = m \/ i \in 0 .. m - 1
      OBVIOUS
    <2>8. \A i \in 0 .. m - 1 : i = 0 \/ (i \in 1 .. m - 1 /\ i - 1 \in 0 .. m - 1 /\ i # 0)
      OBVIOUS
    <2>9. h = [i \in 0 .. m |-> h[i]]
      OBVIOUS
    <2>10. h[m - 1] = f[m - 1]
      BY <2>3, <2>4
    <2> HIDE DEF h
    <2>11. \A i \in 0 .. m : h[i] = IF i = 0 THEN FALSE ELSE h[i - 1] # g[i]
      <3> TAKE i \in 0 .. m
      <3>1. CASE i = m
        <4>1. h[m] = (h[m - 1] # g[m])
          BY <2>5, <2>10, Zenon
        <4> QED BY <2>4, <3>1, <4>1, Zenon
      <3>2. CASE i = 0
        <4>1. 0 # m /\ 0 \in 0 .. m - 1
          OBVIOUS
        <4>2. h[0] = f[0] /\ f[0] = FALSE
          BY <2>3, <2>6, <4>1, Zenon
        <4> QED BY <3>2, <4>2, Zenon
      <3>3. CASE i \in 0 .. m - 1 /\ i - 1 \in 0 .. m - 1 /\ i # 0
        <4>1. h[i] = f[i] /\ h[i - 1] = f[i - 1] /\ f[i] = (f[i - 1] # g[i])
          BY <2>3, <2>6, <3>3, Zenon
        <4> QED BY <3>3, <4>1, Zenon
      <3> QED BY <2>7, <2>8, <3>1, <3>2, <3>3
    <2>12. Is(h, m)
      BY <2>9, <2>11, Zenon
    <2>13. m \in 0 .. n
      OBVIOUS
    <2> HIDE DEF Is, h
    <2> QED BY <2>12, <2>13
  <1>3. n \in T
    <2> HIDE DEF T
    <2>1. \A i \in 0 .. n : i \in T
      BY <1>1, <1>2, OneByOne
    <2> QED BY <2>1
  <1> QED BY <1>3

\* the crossings that lead to the inside
CrossingOf(ring, q, v) == Crosses(Doubled(ring)[v], Doubled(ring)[(v % Len(ring)) + 1], q)
IsParity(f, ring, q) ==
  f = [v \in 0 .. Len(ring) |-> IF v = 0 THEN FALSE ELSE f[v - 1] # CrossingOf(ring, q, v)]
Parity(ring, q) == CHOOSE f : IsParity(f, ring, q)

LEMMA InRingCounted ==
  ASSUME NEW ring, Len(ring) \in Nat, NEW q
  PROVE  /\ InRing(ring, q) = Parity(ring, q)[Len(ring)]
         /\ Parity(ring, q)[0] = FALSE
         /\ \A v \in 1 .. Len(ring) :
              Parity(ring, q)[v] = (Parity(ring, q)[v - 1] # CrossingOf(ring, q, v))
PROOF
  <1> DEFINE l == Len(ring)
             g == [v \in 1 .. l |-> CrossingOf(ring, q, v)]
  <1>1. \E f : IsParity(f, ring, q)
    <2>1. PICK f : f = [v \in 0 .. l |-> IF v = 0 THEN FALSE ELSE f[v - 1] # g[v]]
      <3> HIDE DEF g
      <3> QED BY ParityExists
    <2>2. \A v \in 0 .. l : v = 0 \/ v \in 1 .. l
      OBVIOUS
    <2>3. \A v \in 1 .. l : g[v] = CrossingOf(ring, q, v)
      OBVIOUS
    <2> HIDE DEF g
    <2>4. \A v \in 0 .. l : (IF v = 0 THEN FALSE ELSE f[v - 1] # g[v])
                              = (IF v = 0 THEN FALSE ELSE f[v - 1] # CrossingOf(ring, q, v))
      BY <2>2, <2>3, Zenon
    <2>5. IsParity(f, ring, q)
      <3> HIDE DEF l
      <3>1. [v \in 0 .. l |-> IF v = 0 THEN FALSE ELSE f[v - 1] # g[v]]
              = [v \in 0 .. l |-> IF v = 0 THEN FALSE ELSE f[v - 1] # CrossingOf(ring, q, v)]
        BY <2>4, Zenon
      <3> QED BY <2>1, <3>1, Zenon DEF IsParity, l
    <2> QED BY <2>5
  <1>2. IsParity(Parity(ring, q), ring, q)
    BY <1>1, Zenon DEF Parity
  <1>3. InRing(ring, q) = Parity(ring, q)[Len(ring)]
    BY Zenon DEF InRing, Parity, IsParity, CrossingOf, Crosses
  <1> DEFINE s == Parity(ring, q)
  <1>4. s = [v \in 0 .. l |-> IF v = 0 THEN FALSE ELSE s[v - 1] # CrossingOf(ring, q, v)]
    BY <1>2, Zenon DEF IsParity
  <1> HIDE DEF s, l
  <1>5. l \in Nat
    BY DEF l
  <1>6. s[0] = FALSE /\ \A v \in 1 .. l : s[v] = (s[v - 1] # CrossingOf(ring, q, v))
    <2>1. 0 \in 0 .. l /\ \A v \in 1 .. l : v \in 0 .. l /\ v # 0
      BY <1>5
    <2> QED BY <1>4, <2>1, Zenon
  <1> QED BY <1>3, <1>6, Zenon DEF s, l

\* A point with an even number of crossings, none or as many as there are edges
\* from one side of it to the other, is not in the ring.
LEMMA EvenCrossings ==
  ASSUME NEW ring, Solid(ring), NEW q \in Point,
         \/ \A v \in 1 .. Len(ring) : CrossingOf(ring, q, v) = FALSE
         \/ \A v \in 1 .. Len(ring) :
              CrossingOf(ring, q, v)
                = Straddles(Doubled(ring)[v], Doubled(ring)[(v % Len(ring)) + 1], q)
  PROVE  InRing(ring, q) = FALSE
PROOF
  <1> DEFINE n == Len(ring)
             s == Parity(ring, q)
             above(v) == Doubled(ring)[v][2] > q[2]
             c(v) == CrossingOf(ring, q, v)
  <1>1. n \in Nat \ {0}
    BY DEF Solid
  <1>2. /\ InRing(ring, q) = s[n] /\ s[0] = FALSE
        /\ \A v \in 1 .. n : s[v] = (s[v - 1] # c(v))
    BY <1>1, InRingCounted, Zenon
  <1> HIDE DEF s
  <1>3. CASE \A v \in 1 .. n : c(v) = FALSE
    <2> HIDE DEF n, c
    <2> DEFINE T == {i \in 0 .. n : s[i] = FALSE}
    <2>1. 0 \in T
      BY <1>1, <1>2
    <2>2. ASSUME NEW m \in 1 .. n, m - 1 \in T PROVE m \in T
      <3>1. s[m - 1] = FALSE /\ c(m) = FALSE /\ s[m] = (s[m - 1] # c(m))
        BY <1>2, <1>3, <2>2
      <3>2. s[m] = FALSE
        BY <3>1
      <3> QED BY <1>1, <3>2
    <2>3. n \in T
      <3> HIDE DEF T
      <3>1. \A i \in 0 .. n : i \in T
        BY <1>1, <2>1, <2>2, OneByOne
      <3> QED BY <1>1, <3>1
    <2> QED BY <1>2, <2>3
  <1>4. CASE \A v \in 1 .. n : c(v) = (above(v) # above((v % n) + 1))
    <2> HIDE DEF n, c, above
    <2> DEFINE T == {i \in 0 .. n : s[i] = (above(1) # above((i % n) + 1))}
    <2>1. 0 \in T
      <3>1. (0 % n) + 1 = 1 /\ 0 \in 0 .. n
        BY <1>1
      <3>2. s[0] = (above(1) # above(1))
        BY <1>2
      <3> QED BY <3>1, <3>2, Zenon
    <2>2. ASSUME NEW m \in 1 .. n, m - 1 \in T PROVE m \in T
      <3>1. ((m - 1) % n) + 1 = m /\ m \in 0 .. n
        BY <1>1
      <3>2. s[m - 1] = (above(1) # above(m))
        BY <2>2, <3>1
      <3>3. c(m) = (above(m) # above((m % n) + 1)) /\ s[m] = (s[m - 1] # c(m))
        BY <1>2, <1>4
      <3>4. s[m] = (above(1) # above((m % n) + 1))
        <4> DEFINE e == above((m % n) + 1)
        <4>1. above(1) \in BOOLEAN /\ above(m) \in BOOLEAN /\ e \in BOOLEAN
          BY DEF above
        <4> HIDE DEF e
        <4>2. s[m] = ((above(1) # above(m)) # (above(m) # e))
          BY <3>2, <3>3 DEF e
        <4>3. ((above(1) # above(m)) # (above(m) # e)) = (above(1) # e)
          BY <4>1
        <4> QED BY <4>2, <4>3 DEF e
      <3> QED BY <3>1, <3>4
    <2>3. n \in T
      <3> HIDE DEF T
      <3>1. \A i \in 0 .. n : i \in T
        BY <1>1, <2>1, <2>2, OneByOne
      <3> QED BY <1>1, <3>1
    <2>4. (n % n) + 1 = 1
      BY <1>1
    <2> QED BY <1>2, <2>3, <2>4
  <1> QED BY <1>3, <1>4 DEF Straddles

\* A point in a ring is within every box around its vertices.
LEMMA InRingInBox ==
  ASSUME NEW ring, Solid(ring), NEW q \in Point, InRing(ring, q),
         NEW left \in Int, NEW right \in Int, NEW bottom \in Int, NEW top \in Int,
         \A v \in 1 .. Len(ring) :
           LET d == Doubled(ring)[v]
           IN  left <= d[1] /\ d[1] <= right /\ bottom <= d[2] /\ d[2] <= top
  PROVE  left <= q[1] /\ q[1] <= right /\ bottom <= q[2] /\ q[2] <= top
PROOF
  <1> DEFINE n == Len(ring)
             d == Doubled(ring)
             after(v) == (v % n) + 1
  <1>1. /\ \A v \in 1 .. n : d[v] \in Int \X Int /\ after(v) \in 1 .. n
        /\ q[1] \in Int /\ q[2] \in Int
    BY DoubledVertices DEF Point
  <1>2. \A v \in 1 .. n : left <= d[v][1] /\ d[v][1] <= right /\ bottom <= d[v][2] /\ d[v][2] <= top
    OBVIOUS
  <1>3. \A v : CrossingOf(ring, q, v) = Crosses(d[v], d[after(v)], q)
    BY Zenon DEF CrossingOf
  <1>4. ~\A v \in 1 .. n : CrossingOf(ring, q, v) = FALSE
    BY EvenCrossings
  <1>5. ~\A v \in 1 .. n : CrossingOf(ring, q, v) = Straddles(d[v], d[after(v)], q)
    BY EvenCrossings
  <1> HIDE DEF n, d, after
  <1>6. left <= q[1]
    <2> SUFFICES ASSUME q[1] < left PROVE FALSE
      BY <1>1
    <2>1. ASSUME NEW v \in 1 .. n
          PROVE  CrossingOf(ring, q, v) = Straddles(d[v], d[after(v)], q)
      <3>1. PICK a \in Int \X Int : a = d[v]
        BY <1>1
      <3>2. PICK b \in Int \X Int : b = d[after(v)]
        BY <1>1
      <3>3. q[1] < a[1] /\ q[1] < b[1]
        <4>1. left <= a[1] /\ left <= b[1]
          BY <1>1, <1>2, <3>1, <3>2
        <4> QED BY <1>1, <4>1
      <3>4. Crosses(a, b, q) <=> Straddles(a, b, q)
        BY <3>3, CrossesByPlace
      <3>5. Crosses(a, b, q) \in BOOLEAN /\ Straddles(a, b, q) \in BOOLEAN
        BY DEF Crosses, Straddles
      <3>6. CrossingOf(ring, q, v) = Crosses(a, b, q)
        BY <1>3, <3>1, <3>2
      <3> QED BY <3>1, <3>2, <3>4, <3>5, <3>6
    <2> QED BY <1>5, <2>1
  <1>7. ASSUME ~(q[1] <= right) \/ ~(bottom <= q[2]) \/ ~(q[2] <= top)
        PROVE  FALSE
    <2>1. ASSUME NEW v \in 1 .. n
          PROVE  CrossingOf(ring, q, v) = FALSE
      <3>1. PICK a \in Int \X Int : a = d[v]
        BY <1>1
      <3>2. PICK b \in Int \X Int : b = d[after(v)]
        BY <1>1
      <3>3. /\ a[1] <= right /\ b[1] <= right /\ bottom <= a[2] /\ a[2] <= top
            /\ bottom <= b[2] /\ b[2] <= top
        BY <1>1, <1>2, <3>1, <3>2
      <3>4. CASE ~(q[1] <= right)
        <4>1. q[1] > a[1] /\ q[1] > b[1]
          BY <1>1, <3>3, <3>4
        <4>2. ~Crosses(a, b, q)
          BY <4>1, CrossesByPlace
        <4>3. CrossingOf(ring, q, v) = Crosses(a, b, q) /\ Crosses(a, b, q) \in BOOLEAN
          BY <1>3, <3>1, <3>2 DEF Crosses
        <4> QED BY <4>2, <4>3
      <3>5. CASE ~(bottom <= q[2]) \/ ~(q[2] <= top)
        <4>1. (a[2] > q[2]) = (b[2] > q[2])
          BY <1>1, <3>3, <3>5
        <4>2. ~Crosses(a, b, q)
          BY <4>1 DEF Crosses
        <4>3. CrossingOf(ring, q, v) = Crosses(a, b, q) /\ Crosses(a, b, q) \in BOOLEAN
          BY <1>3, <3>1, <3>2 DEF Crosses
        <4> QED BY <4>2, <4>3
      <3> QED BY <1>7, <3>4, <3>5
    <2> QED BY <1>4, <2>1
  <1> QED BY <1>6, <1>7
-----------------------------------------------------------------------------
(* The distance to a polygon.                                              *)

\* the nearest up to each of some rings, from their distances
IsSearch(f, n, first, h) ==
  f = [i \in 1 .. n |->
         IF i = 1 THEN first
         ELSE IF h[i].sqr < f[i - 1].sqr THEN [sqr |-> h[i].sqr, inside |-> ~h[i].inside] ELSE f[i - 1]]

\* The nearest ring can be found among any number of them.
LEMMA NearestExists ==
  ASSUME NEW n \in Nat \ {0}, NEW first, NEW h
  PROVE  \E f : IsSearch(f, n, first, h)
PROOF
  <1> DEFINE After1(i, last) == IF h[i].sqr < last.sqr THEN [sqr |-> h[i].sqr, inside |-> ~h[i].inside]
                                                       ELSE last
             Is(f, m) == f = [i \in 1 .. m |-> IF i = 1 THEN first ELSE After1(i, f[i - 1])]
             T == {m \in 0 .. n : m = 0 \/ \E f : Is(f, m)}
  <1>1. 0 \in T
    OBVIOUS
  <1>2. ASSUME NEW m \in 1 .. n, m - 1 \in T PROVE m \in T
    <2>1. CASE m = 1
      <3>1. \A i \in 1 .. m : i = 1
        BY <2>1
      <3>2. Is([i \in 1 .. m |-> first], m)
        BY <3>1
      <3> HIDE DEF Is
      <3> QED BY <3>2
    <2>2. CASE m # 1
      <3> HIDE DEF After1
      <3>1. PICK f : Is(f, m - 1)
        BY <1>2, <2>2
      <3> DEFINE e == After1(m, f[m - 1])
                 g == [i \in 1 .. m |-> IF i = m THEN e ELSE f[i]]
      <3>2. \A i \in 1 .. m - 1 : i \in 1 .. m /\ i # m
        OBVIOUS
      <3>3. \A i \in 1 .. m - 1 : g[i] = f[i]
        BY <3>2
      <3>4. m \in 1 .. m /\ m - 1 \in 1 .. m - 1 /\ 1 \in 1 .. m - 1
        BY <2>2
      <3>5. g[m] = e
        BY <3>4
      <3>6. \A i \in 1 .. m - 1 : f[i] = IF i = 1 THEN first ELSE After1(i, f[i - 1])
        BY <3>1
      <3>7. \A i \in 1 .. m : i = m \/ i \in 1 .. m - 1
        OBVIOUS
      <3>8. \A i \in 1 .. m - 1 : i = 1 \/ (i - 1 \in 1 .. m - 1 /\ i # 1)
        OBVIOUS
      <3>9. g = [i \in 1 .. m |-> g[i]]
        OBVIOUS
      <3>10. g[m - 1] = f[m - 1]
        BY <3>3, <3>4
      <3> HIDE DEF g
      <3>11. \A i \in 1 .. m : g[i] = IF i = 1 THEN first ELSE After1(i, g[i - 1])
        <4> TAKE i \in 1 .. m
        <4>1. CASE i = m
          BY <2>2, <3>5, <3>10, <4>1, Zenon
        <4>2. CASE i \in 1 .. m - 1 /\ i = 1
          BY <3>3, <3>6, <4>2, Zenon
        <4>3. CASE i \in 1 .. m - 1 /\ i - 1 \in 1 .. m - 1 /\ i # 1
          <5>1. g[i] = f[i] /\ g[i - 1] = f[i - 1] /\ f[i] = After1(i, f[i - 1])
            BY <3>3, <3>6, <4>3, Zenon
          <5> QED BY <4>3, <5>1, Zenon
        <4> QED BY <3>7, <3>8, <4>1, <4>2, <4>3
      <3>12. Is(g, m)
        BY <3>9, <3>11, Zenon
      <3> HIDE DEF Is, g
      <3> QED BY <3>12
    <2> QED BY <2>1, <2>2
  <1>3. n \in T
    <2> HIDE DEF T
    <2>1. \A i \in 0 .. n : i \in T
      BY <1>1, <1>2, OneByOne
    <2> QED BY <2>1
  <1>4. PICK f : Is(f, n)
    BY <1>3
  <1>5. IsSearch(f, n, first, h)
    BY <1>4, Zenon DEF IsSearch
  <1> QED BY <1>5

\* the nearest of the rings of a polygon up to each of them
IsNearest(f, poly, q) ==
  f = [i \in 1 .. Len(poly) |->
         IF i = 1 THEN Distance(poly[1], q)
         ELSE IF Distance(poly[i], q).sqr < f[i - 1].sqr
                THEN [sqr |-> Distance(poly[i], q).sqr, inside |-> ~Distance(poly[i], q).inside]
                ELSE f[i - 1]]
Nearest(poly, q) == CHOOSE f : IsNearest(f, poly, q)

LEMMA NearestCounted ==
  ASSUME NEW poly, Len(poly) \in Nat \ {0}, NEW q
  PROVE  /\ ComputeSignedSquareDistance(poly, q) =
              LET found == IF Distance(poly[1], q).inside THEN Nearest(poly, q)[Len(poly)]
                                                          ELSE Distance(poly[1], q)
              IN  IF found.inside THEN -found.sqr ELSE found.sqr
         /\ Nearest(poly, q)[1] = Distance(poly[1], q)
         /\ \A i \in 2 .. Len(poly) :
              Nearest(poly, q)[i] =
                IF Distance(poly[i], q).sqr < Nearest(poly, q)[i - 1].sqr
                  THEN [sqr |-> Distance(poly[i], q).sqr, inside |-> ~Distance(poly[i], q).inside]
                  ELSE Nearest(poly, q)[i - 1]
PROOF
  <1> DEFINE n == Len(poly)
             h == [i \in 1 .. n |-> Distance(poly[i], q)]
  <1>1. \E f : IsNearest(f, poly, q)
    <2>1. PICK f : f = [i \in 1 .. n |->
                          IF i = 1 THEN Distance(poly[1], q)
                          ELSE IF h[i].sqr < f[i - 1].sqr THEN [sqr |-> h[i].sqr, inside |-> ~h[i].inside]
                                                          ELSE f[i - 1]]
      <3> DEFINE first == Distance(poly[1], q)
      <3>1. n \in Nat \ {0}
        OBVIOUS
      <3> HIDE DEF h, first, n
      <3>2. PICK f : IsSearch(f, n, first, h)
        BY <3>1, NearestExists
      <3> QED BY <3>2, Zenon DEF IsSearch, first
    <2>2. \A i \in 1 .. n : h[i] = Distance(poly[i], q)
      OBVIOUS
    <2> HIDE DEF h
    <2>3. IsNearest(f, poly, q)
      <3> HIDE DEF n
      <3>1. [i \in 1 .. n |->
               IF i = 1 THEN Distance(poly[1], q)
               ELSE IF h[i].sqr < f[i - 1].sqr THEN [sqr |-> h[i].sqr, inside |-> ~h[i].inside]
                                               ELSE f[i - 1]]
            = [i \in 1 .. n |->
               IF i = 1 THEN Distance(poly[1], q)
               ELSE IF Distance(poly[i], q).sqr < f[i - 1].sqr
                      THEN [sqr |-> Distance(poly[i], q).sqr, inside |-> ~Distance(poly[i], q).inside]
                      ELSE f[i - 1]]
        BY <2>2, Zenon
      <3> QED BY <2>1, <3>1, Zenon DEF IsNearest, n
    <2> QED BY <2>3
  <1>2. IsNearest(Nearest(poly, q), poly, q)
    BY <1>1, Zenon DEF Nearest
  <1>3. ComputeSignedSquareDistance(poly, q) =
          LET found == IF Distance(poly[1], q).inside THEN Nearest(poly, q)[Len(poly)]
                                                      ELSE Distance(poly[1], q)
          IN  IF found.inside THEN -found.sqr ELSE found.sqr
    BY Zenon DEF ComputeSignedSquareDistance, Nearest, IsNearest
  <1> DEFINE s == Nearest(poly, q)
             D(i) == Distance(poly[i], q)
  <1>4. s = [i \in 1 .. n |->
               IF i = 1 THEN D(1)
               ELSE IF D(i).sqr < s[i - 1].sqr THEN [sqr |-> D(i).sqr, inside |-> ~D(i).inside]
                                               ELSE s[i - 1]]
    BY <1>2, Zenon DEF IsNearest
  <1> HIDE DEF s, n, D
  <1>5. n \in Nat \ {0}
    BY DEF n
  <1>6. /\ s[1] = D(1)
        /\ \A i \in 2 .. n : s[i] = IF D(i).sqr < s[i - 1].sqr THEN [sqr |-> D(i).sqr, inside |-> ~D(i).inside]
                                                              ELSE s[i - 1]
    <2>1. 1 \in 1 .. n /\ \A i \in 2 .. n : i \in 1 .. n /\ i # 1
      BY <1>5
    <2> QED BY <1>4, <2>1, Zenon
  <1> QED BY <1>3, <1>6, Zenon DEF s, n, D

\* What the search among the rings of a polygon has found: the first of the nearest
\* ones, and on which side of it the point is.
LEMMA NearestFound ==
  ASSUME NEW poly, Polygonal(poly), NEW q \in Point
  PROVE  \E j \in 1 .. Len(poly) :
           /\ Nearest(poly, q)[Len(poly)].sqr = RingSqrDistance(poly[j], q)
           /\ \A i \in 1 .. Len(poly) : RingSqrDistance(poly[j], q) <= RingSqrDistance(poly[i], q)
           /\ Nearest(poly, q)[Len(poly)].inside =
                IF j = 1 THEN InRing(poly[1], q) ELSE ~InRing(poly[j], q)
PROOF
  <1> DEFINE n == Len(poly)
             s == Nearest(poly, q)
             D(i) == RingSqrDistance(poly[i], q)
             inside(j) == IF j = 1 THEN InRing(poly[1], q) ELSE ~InRing(poly[j], q)
             P(m, j) == /\ s[m].sqr = D(j) /\ s[m].inside = inside(j)
                        /\ \A i \in 1 .. m : D(j) <= D(i)
             T == {m \in 0 .. n : m = 0 \/ \E j \in 1 .. m : P(m, j)}
  <1>1. n \in Nat \ {0}
    BY DEF Polygonal
  <1>2. \A i \in 1 .. n : D(i) \in Nat
    BY RingDistance DEF Polygonal
  <1>3. \A i : Distance(poly[i], q).sqr = D(i) /\ Distance(poly[i], q).inside = InRing(poly[i], q)
    BY DEF Distance
  <1>4. s[1].sqr = D(1) /\ s[1].inside = inside(1)
    <2>1. s[1] = Distance(poly[1], q)
      BY <1>1, NearestCounted
    <2> QED BY <1>3, <2>1
  <1>5. ASSUME NEW i \in 2 .. n
        PROVE  /\ D(i) < s[i - 1].sqr => s[i].sqr = D(i) /\ s[i].inside = inside(i)
               /\ ~(D(i) < s[i - 1].sqr) => s[i] = s[i - 1]
    <2>1. s[i] = IF Distance(poly[i], q).sqr < s[i - 1].sqr
                   THEN [sqr |-> Distance(poly[i], q).sqr, inside |-> ~Distance(poly[i], q).inside]
                   ELSE s[i - 1]
      BY <1>1, NearestCounted
    <2>2. i # 1
      OBVIOUS
    <2> HIDE DEF s, D
    <2>3. CASE D(i) < s[i - 1].sqr
      <3>1. s[i] = [sqr |-> D(i), inside |-> ~InRing(poly[i], q)]
        BY <1>3, <2>1, <2>3, Zenon
      <3> QED BY <2>2, <2>3, <3>1
    <2>4. CASE ~(D(i) < s[i - 1].sqr)
      BY <1>3, <2>1, <2>4, Zenon
    <2> QED BY <2>3, <2>4
  <1> HIDE DEF n, s, D, inside
  <1>6. 0 \in T
    BY <1>1
  <1>7. ASSUME NEW m \in 1 .. n, m - 1 \in T PROVE m \in T
    <2>1. m \in 1 .. m /\ m \in 0 .. n /\ \A i \in 1 .. m : i \in 1 .. n /\ (i = m \/ i \in 1 .. m - 1)
      BY <1>1
    <2>2. CASE m = 1
      <3>1. \A i \in 1 .. m : i = m
        BY <2>2
      <3>2. D(m) <= D(m)
        BY <1>2
      <3>3. P(m, m)
        BY <1>4, <2>2, <3>1, <3>2
      <3> HIDE DEF P
      <3> QED BY <2>1, <3>3
    <2>3. CASE m # 1
      <3>1. PICK j \in 1 .. m - 1 : P(m - 1, j)
        BY <1>7, <2>3
      <3>2. m \in 2 .. n /\ j \in 1 .. n /\ j \in 1 .. m
        BY <1>1, <2>3
      <3>3. D(j) \in Nat /\ D(m) \in Nat
        BY <1>2, <3>2
      <3>4. CASE D(m) < D(j)
        <4>1. s[m].sqr = D(m) /\ s[m].inside = inside(m)
          BY <1>5, <3>1, <3>2, <3>4
        <4>2. ASSUME NEW i \in 1 .. m PROVE D(m) <= D(i)
          <5>1. CASE i = m
            BY <3>3, <5>1
          <5>2. CASE i \in 1 .. m - 1
            <6>1. D(j) <= D(i) /\ D(i) \in Nat
              BY <1>2, <2>1, <3>1, <5>2
            <6> QED BY <3>3, <3>4, <6>1
          <5> QED BY <2>1, <5>1, <5>2
        <4>3. P(m, m)
          BY <4>1, <4>2
        <4> HIDE DEF P
        <4> QED BY <2>1, <4>3
      <3>5. CASE ~(D(m) < D(j))
        <4>1. s[m] = s[m - 1]
          BY <1>5, <3>1, <3>2, <3>5
        <4>2. ASSUME NEW i \in 1 .. m PROVE D(j) <= D(i)
          <5>1. CASE i = m
            BY <3>3, <3>5, <5>1
          <5>2. CASE i \in 1 .. m - 1
            BY <3>1, <5>2
          <5> QED BY <2>1, <5>1, <5>2
        <4>3. P(m, j)
          BY <3>1, <4>1, <4>2
        <4> HIDE DEF P
        <4> QED BY <2>1, <3>2, <4>3
      <3> QED BY <3>4, <3>5
    <2> QED BY <2>2, <2>3
  <1>8. n \in T
    <2> HIDE DEF T
    <2>1. \A i \in 0 .. n : i \in T
      BY <1>1, <1>6, <1>7, OneByOne
    <2> QED BY <1>1, <2>1
  <1>9. PICK j \in 1 .. n : P(n, j)
    BY <1>1, <1>8
  <1> QED BY <1>9 DEF n, s, D, inside

\* The distance with a sign is the one to the nearest shore, negative in water; and not
\* so elsewhere, where the holes are apart.  Outside of its exterior a polygon is no
\* nearer than its box.
LEMMA SignedTells ==
  ASSUME NEW poly, Polygonal(poly), NEW q \in Point
  PROVE  LET signed == ComputeSignedSquareDistance(poly, q)
             shore == ShoreSqrDistance(poly, q)
             box == SqrDistanceToBoundingBox(Box(poly), q)
         IN  /\ shore \in Nat
             /\ signed = shore \/ signed = -shore
             /\ InWater(poly, q) => signed = -shore
             /\ ~InWater(poly, q) /\ HolesApart(poly, q) => signed = shore
             /\ ~InRing(poly[1], q) => signed = shore /\ box <= shore
             /\ box \in Nat
PROOF
  <1> DEFINE n == Len(poly)
             D(i) == RingSqrDistance(poly[i], q)
             signed == ComputeSignedSquareDistance(poly, q)
             shore == ShoreSqrDistance(poly, q)
             box == SqrDistanceToBoundingBox(Box(poly), q)
             near == IF InRing(poly[1], q) THEN DOMAIN poly ELSE {1}
             S == {RingSqrDistance(poly[i], q) : i \in near}
  <1>1. n \in Nat \ {0} /\ DOMAIN poly = 1 .. n /\ 1 \in DOMAIN poly
    BY DEF Polygonal
  <1>2. \A i \in 1 .. n : D(i) \in Nat
    BY RingDistance DEF Polygonal
  <1>3. near \subseteq 1 .. n /\ 1 \in near
    BY <1>1
  <1>4. S \subseteq Nat /\ S # {}
    <2> HIDE DEF near, n
    <2> QED BY <1>2, <1>3
  <1>5. shore = LeastOf(S)
    BY Zenon DEF ShoreSqrDistance
  <1>6. shore \in S /\ \A a \in S : shore <= a
    <2> HIDE DEF S, shore
    <2> QED BY <1>4, <1>5, LeastOfNumbers
  <1>7. box \in Nat /\ box <= D(1)
    BY BoxIsNearer
  <1>8. InRing(poly[1], q) \in BOOLEAN
    <2>1. Len(poly[1]) \in Nat \ {0}
      BY <1>1 DEF Polygonal, Solid
    <2>2. Len(poly[1]) \in 1 .. Len(poly[1]) /\ Len(poly[1]) \in Nat
      BY <2>1
    <2>3. /\ InRing(poly[1], q) = Parity(poly[1], q)[Len(poly[1])]
          /\ Parity(poly[1], q)[Len(poly[1])]
               = (Parity(poly[1], q)[Len(poly[1]) - 1] # CrossingOf(poly[1], q, Len(poly[1])))
      BY <2>2, InRingCounted, Zenon
    <2> QED BY <2>3, Zenon
  <1>9. Distance(poly[1], q).sqr = D(1) /\ Distance(poly[1], q).inside = InRing(poly[1], q)
    BY DEF Distance
  <1>10. signed = LET found == IF Distance(poly[1], q).inside THEN Nearest(poly, q)[n]
                                                              ELSE Distance(poly[1], q)
                  IN  IF found.inside THEN -found.sqr ELSE found.sqr
    BY <1>1, NearestCounted, Zenon
  <1>11. CASE ~InRing(poly[1], q)
    <2>1. signed = D(1)
      BY <1>9, <1>10, <1>11, Zenon
    <2>2. S = {D(1)}
      BY <1>11
    <2>3. shore = D(1)
      BY <1>6, <2>2
    <2>4. ~InWater(poly, q)
      BY <1>11 DEF InWater
    <2>5. shore \in Nat
      BY <1>4, <1>6
    <2> HIDE DEF signed, shore, box, D
    <2>6. /\ shore \in Nat
          /\ signed = shore \/ signed = -shore
          /\ InWater(poly, q) => signed = -shore
          /\ ~InWater(poly, q) /\ HolesApart(poly, q) => signed = shore
          /\ ~InRing(poly[1], q) => signed = shore /\ box <= shore
          /\ box \in Nat
      BY <1>7, <1>11, <2>1, <2>3, <2>4, <2>5
    <2> QED BY <2>6 DEF signed, shore, box
  <1>12. CASE InRing(poly[1], q)
    <2>1. PICK j \in 1 .. n :
            /\ Nearest(poly, q)[n].sqr = D(j)
            /\ \A i \in 1 .. n : D(j) <= D(i)
            /\ Nearest(poly, q)[n].inside = IF j = 1 THEN InRing(poly[1], q) ELSE ~InRing(poly[j], q)
      BY NearestFound
    <2>2. S = {D(i) : i \in 1 .. n}
      BY <1>1, <1>12
    <2> HIDE DEF S, shore, n
    <2>3. shore = D(j) /\ shore \in Nat
      <3>1. PICK i \in 1 .. n : shore = D(i)
        BY <1>6, <2>2
      <3>2. shore <= D(j)
        BY <1>6, <2>2
      <3>3. D(j) <= D(i) /\ D(i) \in Nat /\ D(j) \in Nat
        BY <1>2, <2>1
      <3> HIDE DEF D
      <3> QED BY <3>1, <3>2, <3>3
    <2>4. signed = IF Nearest(poly, q)[n].inside THEN -D(j) ELSE D(j)
      BY <1>9, <1>10, <1>12, <2>1, Zenon
    <2> DEFINE dry == j # 1 /\ InRing(poly[j], q)
    <2>5. Nearest(poly, q)[n].inside <=> ~dry
      BY <1>12, <2>1
    <2> HIDE DEF signed, box, D, dry
    <2>6. (dry => signed = shore) /\ (~dry => signed = -shore)
      BY <2>3, <2>4, <2>5, Zenon
    <2>7. dry => HolesAround(poly, q) # {}
      BY <1>1, <2>1 DEF HolesAround, dry, n
    <2>8. InWater(poly, q) => signed = -shore
      BY <2>6, <2>7 DEF InWater
    <2>9. ASSUME ~InWater(poly, q), HolesApart(poly, q) PROVE signed = shore
      <3>1. PICK i \in HolesAround(poly, q) :
              \/ RingSqrDistance(poly[i], q) = 0
              \/ \A l \in DOMAIN poly \ HolesAround(poly, q) :
                   RingSqrDistance(poly[i], q) < RingSqrDistance(poly[l], q)
        BY <1>12, <2>9 DEF InWater, HolesApart
      <3>2. i \in 1 .. n
        BY <1>1, <3>1 DEF HolesAround, n
      <3>3. shore <= D(i) /\ D(i) \in Nat
        BY <1>2, <2>1, <2>3, <3>2
      <3>4. CASE D(i) = 0
        <4>1. shore = 0
          BY <2>3, <3>3, <3>4
        <4> QED BY <2>6, <4>1
      <3>5. CASE \A l \in DOMAIN poly \ HolesAround(poly, q) : D(i) < D(l)
        <4>1. j \in HolesAround(poly, q)
          <5> SUFFICES ASSUME j \notin HolesAround(poly, q) PROVE FALSE
            OBVIOUS
          <5>1. D(i) < D(j)
            BY <1>1, <2>1, <3>5 DEF n
          <5> QED BY <2>3, <3>3, <5>1
        <4>2. dry
          BY <4>1 DEF HolesAround, dry
        <4> QED BY <2>6, <4>2
      <3> QED BY <3>1, <3>4, <3>5 DEF D
    <2>10. /\ shore \in Nat
           /\ signed = shore \/ signed = -shore
           /\ InWater(poly, q) => signed = -shore
           /\ ~InWater(poly, q) /\ HolesApart(poly, q) => signed = shore
           /\ ~InRing(poly[1], q) => signed = shore /\ box <= shore
           /\ box \in Nat
      BY <1>7, <1>12, <2>3, <2>6, <2>8, <2>9
    <2> QED BY <2>10 DEF signed, shore, box
  <1> QED BY <1>8, <1>11, <1>12

\* Within the exterior of a polygon a point is within its box.
LEMMA InRingNear ==
  ASSUME NEW poly, Polygonal(poly), NEW q \in Point, InRing(poly[1], q)
  PROVE  /\ Beyond(q[1], Box(poly).left, Box(poly).right) = 0
         /\ Beyond(q[2], Box(poly).bottom, Box(poly).top) = 0
         /\ SqrDistanceToBoundingBox(Box(poly), q) = 0
PROOF
  <1>1. Solid(poly[1]) /\ q[1] \in Int /\ q[2] \in Int
    BY DEF Polygonal, Point
  <1> DEFINE box == Box(poly)
             d == Doubled(poly[1])
  <1>2. /\ box.left \in Int /\ box.right \in Int /\ box.bottom \in Int /\ box.top \in Int
        /\ box.left <= box.right /\ box.bottom <= box.top
    BY BoxAround
  <1>3. \A v \in 1 .. Len(poly[1]) :
          box.left <= d[v][1] /\ d[v][1] <= box.right /\ box.bottom <= d[v][2] /\ d[v][2] <= box.top
    BY BoxAround
  <1> HIDE DEF box
  <1>4. box.left <= q[1] /\ q[1] <= box.right /\ box.bottom <= q[2] /\ q[2] <= box.top
    BY <1>1, <1>2, <1>3, InRingInBox
  <1>5. Beyond(q[1], box.left, box.right) = 0 /\ Beyond(q[2], box.bottom, box.top) = 0
    BY <1>1, <1>2, <1>4, BeyondInterval
  <1>6. SqrDistanceToBoundingBox(box, q) = 0
    <2>1. Unit * (0 * 0 + 0 * 0) = 0
      BY DEF Unit
    <2> QED BY <1>5, <2>1 DEF SqrDistanceToBoundingBox
  <1> QED BY <1>5, <1>6 DEF box

-----------------------------------------------------------------------------
(* The search for the distance of a pixel.                                 *)

\* A number that is divided without a rest.
LEMMA DividesWhole ==
  ASSUME NEW n \in Nat \ {0}, NEW d \in Nat \ {0}, n % d = 0
  PROVE  n \div d \in Nat \ {0} /\ (n \div d) * d = n
PROOF
  <1>1. n \div d \in Int /\ n = d * (n \div d) + (n % d)
    OBVIOUS
  <1>2. PICK m \in Int : m = n \div d
    BY <1>1
  <1>3. n = d * m
    BY <1>1, <1>2
  <1>4. m > 0
    <2> SUFFICES ASSUME m <= 0 PROVE FALSE
      OBVIOUS
    <2>1. d * m <= 0
      OBVIOUS
    <2> QED BY <1>3, <2>1
  <1> QED BY <1>2, <1>3, <1>4

\* The pixels have a size, and there is an end to the distance that is told.
LEMMA CellIsNumber ==
  ASSUME request \in Requests, Width(request.bbox) # 0
  PROVE  /\ CellSize \in Nat \ {0} /\ CellSize * request.width = Width(request.bbox)
         /\ ScaledDistanceDomain \in Nat \ {0}
         /\ Farthest \in Nat \ {0} /\ NotFound \in Nat
         /\ Farthest = Unit * (ScaledDistanceDomain * ScaledDistanceDomain)
         /\ NotFound = Farthest + 1
PROOF
  <1> DEFINE width == Width(request.bbox)
             s == ScaledDistanceDomain
  <1>1. /\ request.width \in Nat \ {0} /\ width \in Nat \ {0} /\ width % request.width = 0
    <2>1. /\ request.width \in Nat \ {0} /\ request.bbox \in BoxType
          /\ request.bbox.minX <= request.bbox.maxX
          /\ (request.bbox.maxX - request.bbox.minX) % request.width = 0
      BY OSMAssumption DEF BoxType
    <2>2. request.bbox.minX \in Int /\ request.bbox.maxX \in Int
      BY <2>1 DEF BoxType
    <2> QED BY <2>1, <2>2 DEF Width
  <1>2. CellSize = width \div request.width
    BY DEF CellSize
  <1> HIDE DEF width
  <1>3. CellSize \in Nat \ {0} /\ CellSize * request.width = width
    <2>1. PICK w \in Nat \ {0} : w = request.width
      BY <1>1
    <2>2. width \div w \in Nat \ {0} /\ (width \div w) * w = width
      BY <1>1, <2>1, DividesWhole
    <2> QED BY <1>2, <2>1, <2>2
  <1>4. s \in Nat \ {0}
    <2>1. DistanceDomain \in Nat \ {0}
      BY OSMAssumption
    <2>2. \A a, b \in Nat \ {0} : 2 * a * b \in Nat \ {0}
      <3> TAKE a \in Nat \ {0}, b \in Nat \ {0}
      <3>1. a * b \in Nat
        OBVIOUS
      <3>2. a * b >= 1 * b
        OBVIOUS
      <3>3. 2 * a * b = 2 * (a * b)
        OBVIOUS
      <3> QED BY <3>1, <3>2, <3>3
    <2> QED BY <1>3, <2>1, <2>2 DEF ScaledDistanceDomain
  <1>5. Farthest = Unit * s * s
    BY DEF Farthest
  <1> HIDE DEF s
  <1>6. Farthest = Unit * (s * s) /\ Farthest \in Nat \ {0}
    <2>1. s * s \in Nat /\ s * s >= 1 * s
      BY <1>4
    <2>2. Unit * s * s = Unit * (s * s)
      BY <1>4 DEF Unit
    <2> QED BY <1>4, <1>5, <2>1, <2>2 DEF Unit
  <1>7. NotFound = Farthest + 1
    BY DEF NotFound
  <1> QED BY <1>3, <1>4, <1>6, <1>7 DEF width, s

AskedInv == stage \in Loading => request \in Requests /\ Width(request.bbox) # 0
PolygonsInv == \A i \in DOMAIN waterPolygons : Polygonal(waterPolygons[i])

LEMMA CenterIsPoint ==
  ASSUME request \in Requests, Width(request.bbox) # 0, PixelInv
  PROVE  Center \in Point
PROOF
  <1>1. x \in Int /\ y \in Int
    <2>1. PICK w \in Int : w = request.width
      BY OSMAssumption
    <2>2. PICK h \in Int : h = request.height
      BY OSMAssumption
    <2>3. x \in 0 .. w - 1 /\ y \in 0 .. h
      BY <2>1, <2>2 DEF PixelInv
    <2> QED BY <2>3
  <1>2. CellSize \in Int
    BY CellIsNumber
  <1>3. request.bbox.minX \in Int /\ request.bbox.minY \in Int
    BY OSMAssumption
  <1>4. (2 * x + 1) * CellSize \in Int /\ (2 * y + 1) * CellSize \in Int
    BY <1>1, <1>2
  <1> QED BY <1>3, <1>4 DEF Center, Point

\* What the query of the tree leaves out is further away than is told.
LEMMA OutOfRegion ==
  ASSUME request \in Requests, Width(request.bbox) # 0, PixelInv, PolygonsInv,
         NEW i \in DOMAIN waterPolygons, i \notin QueryIntersectsRegion
  PROVE  ComputeSignedSquareDistance(waterPolygons[i], Center) >= NotFound
PROOF
  <1> DEFINE poly == waterPolygons[i]
             q == Center
             dx == Beyond(q[1], Box(poly).left, Box(poly).right)
             dy == Beyond(q[2], Box(poly).bottom, Box(poly).top)
             s == ScaledDistanceDomain
             box == SqrDistanceToBoundingBox(Box(poly), q)
  <1>1. q \in Point /\ Polygonal(poly)
    BY CenterIsPoint DEF PolygonsInv
  <1>2. dx > CellSize + s \/ dy > CellSize + s
    <2>1. ~(dx <= CellSize + s /\ dy <= CellSize + s)
      BY DEF QueryIntersectsRegion
    <2>2. dx \in Nat /\ dy \in Nat
      <3> HIDE DEF poly, q
      <3> QED BY <1>1, BoxAround, BeyondInterval DEF Point
    <2>3. CellSize \in Nat /\ s \in Nat
      BY CellIsNumber
    <2> HIDE DEF dx, dy, s
    <2> QED BY <2>1, <2>2, <2>3
  <1>3. dx \in Nat /\ dy \in Nat
    <2> HIDE DEF poly, q
    <2> QED BY <1>1, BoxAround, BeyondInterval DEF Point
  <1>4. CellSize \in Nat \ {0} /\ s \in Nat \ {0} /\ NotFound = Unit * (s * s) + 1
    BY CellIsNumber
  <1>5. box = Unit * (dx * dx + dy * dy)
    BY DEF SqrDistanceToBoundingBox
  <1> HIDE DEF poly, q
  <1>6. ~InRing(poly[1], q)
    <2>1. dx # 0 \/ dy # 0
      <3> HIDE DEF dx, dy, s
      <3> QED BY <1>2, <1>3, <1>4
    <2> QED BY <1>1, <2>1, InRingNear
  <1>7. /\ ComputeSignedSquareDistance(poly, q) = ShoreSqrDistance(poly, q)
        /\ box <= ShoreSqrDistance(poly, q) /\ ShoreSqrDistance(poly, q) \in Nat /\ box \in Nat
    BY <1>1, <1>6, SignedTells
  <1> HIDE DEF dx, dy, s, box
  <1>8. dx * dx + dy * dy >= s * s + 1 /\ dx * dx + dy * dy \in Nat /\ s * s \in Nat
    <2>1. dx * dx \in Nat /\ dy * dy \in Nat /\ s * s \in Nat
      BY <1>3, <1>4
    <2>2. ASSUME NEW d \in Nat, d > CellSize + s PROVE d * d >= s * s + 1
      <3>1. d >= s + 1
        BY <1>4, <2>2
      <3>2. d * d >= (s + 1) * d
        BY <1>4, <3>1
      <3>3. (s + 1) * d >= (s + 1) * (s + 1)
        BY <1>4, <3>1
      <3>4. (s + 1) * (s + 1) = s * s + 2 * s + 1
        BY <1>4
      <3>5. d * d \in Nat /\ (s + 1) * d \in Nat
        BY <1>4
      <3> QED BY <1>4, <2>1, <3>2, <3>3, <3>4, <3>5
    <2>3. CASE dx > CellSize + s
      BY <1>3, <2>1, <2>2, <2>3
    <2>4. CASE dy > CellSize + s
      BY <1>3, <2>1, <2>2, <2>4
    <2> QED BY <1>2, <2>3, <2>4
  <1>9. box >= NotFound
    BY <1>4, <1>5, <1>8 DEF Unit
  <1>10. ComputeSignedSquareDistance(poly, q) >= NotFound
    <2>1. NotFound \in Nat
      BY CellIsNumber
    <2> QED BY <1>7, <1>9, <2>1
  <1> QED BY <1>10 DEF poly, q

\* what is told of the water at a pixel by this shade
ToldBy(at, shade) ==
  LET q == Middle(at)
      polys == {waterPolygons[i] : i \in DOMAIN waterPolygons}
      wet == {poly \in polys : InWater(poly, q)}
      shores == {ShoreSqrDistance(poly, q) : poly \in polys}
  IN  (\A poly \in polys : HolesApart(poly, q)) =>
        IF wet = {} THEN shade = Shade(LeastOf(shores \union {NotFound}))
        ELSE shade < 0 \/ (shade = 0 /\ 0 \in shores)

Signed(i) == ComputeSignedSquareDistance(waterPolygons[i], Center)

\* The distance found so far is that of a polygon, or none, and no more than those of the
\* polygons that need not be looked at any more, unless the search is over.
SearchInv ==
  stage = "query" =>
    /\ minSqrDistance \in Int /\ minSqrDistance <= NotFound
    /\ minSqrDistance = NotFound \/ \E i \in DOMAIN waterPolygons : minSqrDistance = Signed(i)
    /\ \A i \in DOMAIN waterPolygons \ candidates : minSqrDistance <= 0 \/ minSqrDistance <= Signed(i)

\* Each polygon has a distance with a sign.
LEMMA SignedIsNumber ==
  ASSUME request \in Requests, Width(request.bbox) # 0, PixelInv, PolygonsInv,
         NEW i \in DOMAIN waterPolygons
  PROVE  LET shore == ShoreSqrDistance(waterPolygons[i], Center)
         IN  /\ shore \in Nat /\ Signed(i) \in Int
             /\ Signed(i) = shore \/ Signed(i) = -shore
             /\ InWater(waterPolygons[i], Center) => Signed(i) = -shore
             /\ ~InWater(waterPolygons[i], Center) /\ HolesApart(waterPolygons[i], Center) => Signed(i) = shore
PROOF
  <1> DEFINE poly == waterPolygons[i]
             q == Center
             shore == ShoreSqrDistance(poly, q)
  <1>1. q \in Point /\ Polygonal(poly)
    BY CenterIsPoint DEF PolygonsInv
  <1>2. Signed(i) = ComputeSignedSquareDistance(poly, q)
    BY DEF Signed
  <1> HIDE DEF poly, q
  <1>3. /\ shore \in Nat
        /\ Signed(i) = shore \/ Signed(i) = -shore
        /\ InWater(poly, q) => Signed(i) = -shore
        /\ ~InWater(poly, q) /\ HolesApart(poly, q) => Signed(i) = shore
    BY <1>1, <1>2, SignedTells
  <1> HIDE DEF shore
  <1>4. Signed(i) \in Int
    BY <1>3
  <1> QED BY <1>3, <1>4 DEF poly, q, shore

\* Nothing has been found when the tree is asked.
LEMMA RasterPixelSearches ==
  ASSUME AskedInv, PixelInv, PolygonsInv, RasterPixel
  PROVE  SearchInv'
PROOF
  <1>1. /\ stage = "raster" /\ candidates' = QueryIntersectsRegion /\ minSqrDistance' = NotFound
        /\ UNCHANGED <<asked, waterPolygons, x, y>>
    BY DEF RasterPixel, loading
  <1>2. request \in Requests /\ Width(request.bbox) # 0
    BY <1>1 DEF AskedInv, Loading
  <1>3. NotFound' = NotFound /\ Center' = Center
    BY <1>1 DEF NotFound, Farthest, ScaledDistanceDomain, CellSize, Center, asked
  <1>4. \A i : Signed(i)' = Signed(i)
    BY <1>1, <1>3 DEF Signed
  <1>5. NotFound \in Nat
    BY <1>2, CellIsNumber
  <1>6. ASSUME NEW i \in DOMAIN waterPolygons, i \notin candidates'
        PROVE  NotFound <= Signed(i)
    <2>1. ComputeSignedSquareDistance(waterPolygons[i], Center) >= NotFound
      BY <1>1, <1>2, <1>6, OutOfRegion
    <2>2. Signed(i) \in Int
      BY <1>2, SignedIsNumber
    <2> QED BY <1>5, <2>1, <2>2 DEF Signed
  <1>7. /\ minSqrDistance' \in Int /\ minSqrDistance' <= NotFound
        /\ minSqrDistance' = NotFound
        /\ \A i \in DOMAIN waterPolygons \ candidates' : minSqrDistance' <= Signed(i)
    BY <1>1, <1>5, <1>6
  <1> QED BY <1>1, <1>3, <1>4, <1>7 DEF SearchInv

\* A polygon that is looked at is either nearer than what was found, or its box or its
\* own distance are not.
LEMMA LookAtSearches ==
  ASSUME AskedInv, PixelInv, PolygonsInv, SearchInv, LookAt
  PROVE  SearchInv'
PROOF
  <1>1. PICK i \in candidates :
          /\ minSqrDistance' = IF /\ SqrDistanceToBoundingBox(Box(waterPolygons[i]), Center) < minSqrDistance
                                  /\ ComputeSignedSquareDistance(waterPolygons[i], Center) < minSqrDistance
                                 THEN ComputeSignedSquareDistance(waterPolygons[i], Center) ELSE minSqrDistance
          /\ candidates' = IF minSqrDistance' < 0 THEN {} ELSE candidates \ {i}
    BY DEF LookAt
  <1>2. /\ stage = "query" /\ UNCHANGED <<asked, waterPolygons, x, y>>
    BY DEF LookAt, loading
  <1>3. request \in Requests /\ Width(request.bbox) # 0
    BY <1>2 DEF AskedInv, Loading
  <1>4. NotFound' = NotFound /\ Center' = Center
    BY <1>2 DEF NotFound, Farthest, ScaledDistanceDomain, CellSize, Center, asked
  <1>5. \A j : Signed(j)' = Signed(j)
    BY <1>2, <1>4 DEF Signed
  <1>6. NotFound \in Nat
    BY <1>3, CellIsNumber
  <1>7. PICK m \in Int : m = minSqrDistance
    BY <1>2 DEF SearchInv
  <1>8. /\ m <= NotFound
        /\ m = NotFound \/ \E j \in DOMAIN waterPolygons : m = Signed(j)
        /\ \A j \in DOMAIN waterPolygons \ candidates : m <= 0 \/ m <= Signed(j)
    BY <1>2, <1>7 DEF SearchInv
  <1>9. i \in DOMAIN waterPolygons /\ \A j \in DOMAIN waterPolygons : Signed(j) \in Int
    BY <1>3, SignedIsNumber DEF PixelInv
  <1> DEFINE box == SqrDistanceToBoundingBox(Box(waterPolygons[i]), Center)
             found == IF box < m /\ Signed(i) < m THEN Signed(i) ELSE m
  <1>10. minSqrDistance' = found /\ candidates' = IF found < 0 THEN {} ELSE candidates \ {i}
    BY <1>1, <1>7 DEF Signed
  <1>11. box \in Nat /\ (box = 0 \/ box <= Signed(i))
    <2> DEFINE poly == waterPolygons[i]
               q == Center
    <2>1. q \in Point /\ Polygonal(poly)
      BY <1>3, <1>9, CenterIsPoint DEF PolygonsInv
    <2>2. Signed(i) = ComputeSignedSquareDistance(poly, q)
      BY DEF Signed
    <2>3. box = SqrDistanceToBoundingBox(Box(poly), q)
      OBVIOUS
    <2> HIDE DEF poly, q, box
    <2>4. box \in Nat /\ (~InRing(poly[1], q) => box <= Signed(i))
      BY <2>1, <2>2, <2>3, SignedTells
    <2>5. InRing(poly[1], q) => box = 0
      BY <2>1, <2>3, InRingNear
    <2> QED BY <2>4, <2>5
  <1> HIDE DEF box
  <1>12. found \in Int /\ found <= m /\ (found = m \/ found = Signed(i))
    BY <1>9
  <1>13. found <= 0 \/ found <= Signed(i)
    BY <1>9, <1>11
  <1> HIDE DEF found
  <1>14. ASSUME NEW j \in DOMAIN waterPolygons, j \notin candidates'
         PROVE  found <= 0 \/ found <= Signed(j)
    <2>1. CASE found < 0
      BY <1>12, <2>1
    <2>2. CASE j = i
      BY <1>13, <2>2
    <2>3. CASE ~(found < 0) /\ j # i
      <3>1. j \notin candidates
        BY <1>10, <1>14, <2>3
      <3>2. m <= 0 \/ m <= Signed(j)
        BY <1>8, <3>1
      <3> QED BY <1>9, <1>12, <3>2
    <2> QED BY <2>1, <2>2, <2>3
  <1>15. /\ found <= NotFound
         /\ found = NotFound \/ \E j \in DOMAIN waterPolygons : found = Signed(j)
    BY <1>6, <1>8, <1>9, <1>12
  <1> QED BY <1>2, <1>4, <1>5, <1>10, <1>12, <1>14, <1>15 DEF SearchInv

\* When there is nothing left to look at, the shade of the distance that was found
\* tells of the water.
LEMMA SearchTells ==
  ASSUME AskedInv, PixelInv, PolygonsInv, SearchInv, stage = "query", candidates = {},
         NEW at, Middle(at) = Center
  PROVE  ToldBy(at, Shade(minSqrDistance))
PROOF
  <1> DEFINE q == Center
             polys == {waterPolygons[i] : i \in DOMAIN waterPolygons}
             wet == {poly \in polys : InWater(poly, q)}
             shores == {ShoreSqrDistance(poly, q) : poly \in polys}
             S == shores \union {NotFound}
             shore(i) == ShoreSqrDistance(waterPolygons[i], q)
  <1>1. request \in Requests /\ Width(request.bbox) # 0
    BY DEF AskedInv, Loading
  <1>2. NotFound = Farthest + 1 /\ Farthest \in Nat \ {0} /\ NotFound \in Nat
    BY <1>1, CellIsNumber
  <1>3. PICK m \in Int : m = minSqrDistance
    BY DEF SearchInv
  <1>4. /\ m <= NotFound
        /\ m = NotFound \/ \E i \in DOMAIN waterPolygons : m = Signed(i)
        /\ \A i \in DOMAIN waterPolygons : m <= 0 \/ m <= Signed(i)
    BY <1>3 DEF SearchInv
  <1>5. ASSUME NEW i \in DOMAIN waterPolygons
        PROVE  /\ shore(i) \in Nat /\ Signed(i) \in Int
               /\ Signed(i) = shore(i) \/ Signed(i) = -shore(i)
               /\ InWater(waterPolygons[i], q) => Signed(i) = -shore(i)
               /\ ~InWater(waterPolygons[i], q) /\ HolesApart(waterPolygons[i], q) => Signed(i) = shore(i)
    BY <1>1, SignedIsNumber
  <1> HIDE DEF q
  <1>6. \A a \in shores : \E i \in DOMAIN waterPolygons : a = shore(i)
    OBVIOUS
  <1>7. \A i \in DOMAIN waterPolygons : shore(i) \in shores /\ waterPolygons[i] \in polys
    OBVIOUS
  <1> SUFFICES ASSUME \A poly \in polys : HolesApart(poly, q)
               PROVE  IF wet = {} THEN Shade(m) = Shade(LeastOf(S))
                      ELSE Shade(m) < 0 \/ (Shade(m) = 0 /\ 0 \in shores)
    BY <1>3 DEF ToldBy, q
  <1>8. CASE wet = {}
    <2>1. \A i \in DOMAIN waterPolygons : Signed(i) = shore(i)
      <3> TAKE i \in DOMAIN waterPolygons
      <3>1. ~InWater(waterPolygons[i], q) /\ HolesApart(waterPolygons[i], q)
        BY <1>7, <1>8
      <3> HIDE DEF shore
      <3> QED BY <1>5, <3>1
    <2> HIDE DEF shores, shore, polys, wet
    <2>2. S \subseteq Nat /\ S # {} /\ NotFound \in S
      BY <1>2, <1>5, <1>6
    <2>3. m \in S /\ m >= 0
      <3>1. CASE m = NotFound
        BY <1>2, <2>2, <3>1
      <3>2. CASE \E i \in DOMAIN waterPolygons : m = Signed(i)
        <4>1. PICK i \in DOMAIN waterPolygons : m = Signed(i)
          BY <3>2
        <4>2. m = shore(i) /\ shore(i) \in Nat /\ shore(i) \in S
          BY <1>5, <1>7, <2>1, <4>1
        <4> QED BY <4>2
      <3> QED BY <1>4, <3>1, <3>2
    <2>4. \A a \in S : m <= a
      <3> TAKE a \in S
      <3>1. CASE a = NotFound
        BY <1>4, <3>1
      <3>2. CASE a \in shores
        <4>1. PICK i \in DOMAIN waterPolygons : a = shore(i)
          BY <1>6, <3>2
        <4>2. (m <= 0 \/ m <= shore(i)) /\ shore(i) \in Nat
          BY <1>4, <1>5, <2>1
        <4> QED BY <4>1, <4>2
      <3> QED BY <3>1, <3>2
    <2> HIDE DEF S
    <2>5. LeastOf(S) \in S /\ LeastOf(S) <= m
      BY <2>2, <2>3, LeastOfNumbers
    <2>6. LeastOf(S) \in Nat /\ m <= LeastOf(S)
      BY <2>2, <2>4, <2>5
    <2>7. LeastOf(S) = m
      BY <2>5, <2>6
    <2> QED BY <1>8, <2>7
  <1>9. CASE wet # {}
    <2>1. PICK i \in DOMAIN waterPolygons : InWater(waterPolygons[i], q)
      BY <1>9
    <2> HIDE DEF shores, shore, polys, wet
    <2>2. Signed(i) = -shore(i) /\ shore(i) \in Nat
      BY <1>5, <2>1
    <2>3. m <= 0
      <3>1. m <= 0 \/ m <= Signed(i)
        BY <1>4
      <3> QED BY <2>2, <3>1
    <2>4. m = 0 => 0 \in shores
      <3> SUFFICES ASSUME m = 0 PROVE 0 \in shores
        OBVIOUS
      <3>1. PICK j \in DOMAIN waterPolygons : m = Signed(j)
        BY <1>2, <1>4
      <3>2. shore(j) \in Nat /\ (Signed(j) = shore(j) \/ Signed(j) = -shore(j)) /\ shore(j) \in shores
        BY <1>5, <1>7
      <3>3. shore(j) = 0
        BY <3>1, <3>2
      <3> QED BY <3>2, <3>3
    <2>5. Shade(m) < 0 \/ (Shade(m) = 0 /\ m = 0)
      <3>1. Shade(m) = IF m > Farthest THEN Farthest ELSE IF m < -Farthest THEN -Farthest ELSE m
        BY DEF Shade
      <3> QED BY <1>2, <2>3, <3>1
    <2> QED BY <1>9, <2>4, <2>5
  <1> QED BY <1>8, <1>9

-----------------------------------------------------------------------------
(* The image.                                                              *)

\* the pixels before this one, rows from the south
Written == {at \in (0 .. request.width - 1) \X (0 .. request.height - 1) :
              \/ at[2] > request.height - 1 - y
              \/ at[2] = request.height - 1 - y /\ at[1] < x}

\* The pixels that have been computed tell of the water.
ImgInv ==
  stage \in {"raster", "query"} =>
    /\ DOMAIN img = Written
    /\ SquarePixels => \A at \in DOMAIN img : Told(at)

\* Where its row is counted from the north, a pixel has the same middle.
LEMMA MiddleIsCenter ==
  ASSUME request \in Requests, Width(request.bbox) # 0, PixelInv, SquarePixels
  PROVE  Middle(<<x, request.height - y - 1>>) = Center
PROOF
  <1>1. PICK w \in Int : w = request.width
    BY OSMAssumption
  <1>2. PICK h \in Int : h = request.height
    BY OSMAssumption
  <1>3. x \in 0 .. w - 1 /\ y \in 0 .. h
    BY <1>1, <1>2 DEF PixelInv
  <1>4. PICK m \in Int : m = x
    BY <1>3
  <1>5. PICK n \in Int : n = y
    BY <1>3
  <1>6. PICK c \in Int : c = CellSize
    BY CellIsNumber
  <1>7. PICK a \in Int : a = request.bbox.minY
    BY OSMAssumption
  <1>8. PICK b \in Int : b = request.bbox.maxY
    BY OSMAssumption
  <1>9. b - a = c * h
    BY <1>2, <1>6, <1>7, <1>8 DEF SquarePixels, Height
  <1>10. 2 * b - (2 * (h - n - 1) + 1) * c = 2 * a + (2 * n + 1) * c
    <2>1. (2 * (h - n - 1) + 1) * c = 2 * (c * h) - (2 * n + 1) * c
      OBVIOUS
    <2>2. c * h \in Int /\ (2 * n + 1) * c \in Int
      OBVIOUS
    <2> QED BY <1>9, <2>1, <2>2
  <1> QED BY <1>2, <1>4, <1>5, <1>6, <1>7, <1>8, <1>10 DEF Middle, Center

\* What is told stays so while the request and the water do.
LEMMA ToldByStays ==
  ASSUME UNCHANGED <<request, waterPolygons>>
  PROVE  \A at : Told(at)' <=> ToldBy(at, img'[at])
PROOF
  <1>1. /\ NotFound' = NotFound /\ Farthest' = Farthest /\ CellSize' = CellSize
        /\ \A at : Middle(at)' = Middle(at)
    BY DEF NotFound, Farthest, ScaledDistanceDomain, CellSize, Middle
  <1>2. \A a : Shade(a)' = Shade(a)
    BY <1>1 DEF Shade
  <1> QED BY <1>1, <1>2 DEF Told, ToldBy

LEMMA ToldIsToldBy ==
  \A at : Told(at) <=> ToldBy(at, img[at])
PROOF
  BY Zenon DEF Told, ToldBy

\* The pixel that is written is the one after those before it.
LEMMA WrittenGrows ==
  ASSUME request \in Requests, PixelInv, UNCHANGED request, y # request.height,
         \/ x + 1 < request.width /\ x' = x + 1 /\ y' = y
         \/ ~(x + 1 < request.width) /\ x' = 0 /\ y' = y + 1
  PROVE  Written' = Written \union {<<x, request.height - y - 1>>}
PROOF
  <1>1. PICK w \in Nat \ {0} : w = request.width
    BY OSMAssumption
  <1>2. PICK h \in Nat \ {0} : h = request.height
    BY OSMAssumption
  <1>3. x \in 0 .. w - 1 /\ y \in 0 .. h /\ y # h
    BY <1>1, <1>2 DEF PixelInv
  <1>4. PICK m \in 0 .. w - 1 : m = x
    BY <1>3
  <1>5. PICK n \in 0 .. h - 1 : n = y
    BY <1>2, <1>3
  <1> DEFINE all == (0 .. w - 1) \X (0 .. h - 1)
             before(u, v) == {at \in all : at[2] > h - 1 - v \/ (at[2] = h - 1 - v /\ at[1] < u)}
  <1>6. Written = before(m, n)
    BY <1>1, <1>2, <1>4, <1>5 DEF Written
  <1>7. Written' = before(x', y')
    BY <1>1, <1>2 DEF Written
  <1>8. <<m, h - n - 1>> \in all
    OBVIOUS
  <1>9. ASSUME NEW at \in all
        PROVE  at \in before(x', y') <=> at \in before(m, n) \/ at = <<m, h - n - 1>>
    <2>1. PICK u \in 0 .. w - 1, v \in 0 .. h - 1 : at = <<u, v>>
      OBVIOUS
    <2>2. at[1] = u /\ at[2] = v
      BY <2>1
    <2>3. CASE m + 1 < w /\ x' = m + 1 /\ y' = n
      <3>1. (v > h - 1 - n \/ (v = h - 1 - n /\ u < m + 1))
              <=> (v > h - 1 - n \/ (v = h - 1 - n /\ u < m)) \/ (u = m /\ v = h - n - 1)
        OBVIOUS
      <3> QED BY <2>1, <2>2, <2>3, <3>1
    <2>4. CASE ~(m + 1 < w) /\ x' = 0 /\ y' = n + 1
      <3>1. (v > h - 1 - (n + 1) \/ (v = h - 1 - (n + 1) /\ u < 0))
              <=> (v > h - 1 - n \/ (v = h - 1 - n /\ u < m)) \/ (u = m /\ v = h - n - 1)
        BY <2>4
      <3> QED BY <2>1, <2>2, <2>4, <3>1
    <2> QED BY <1>1, <1>4, <1>5, <2>3, <2>4
  <1>10. before(x', y') \subseteq all /\ before(m, n) \subseteq all
    OBVIOUS
  <1> HIDE DEF all, before
  <1>11. before(x', y') = before(m, n) \union {<<m, h - n - 1>>}
    BY <1>8, <1>9, <1>10
  <1> QED BY <1>2, <1>4, <1>5, <1>6, <1>7, <1>11

\* Before the first pixel none is written, after the last one all are.
LEMMA WrittenBounds ==
  ASSUME request \in Requests
  PROVE  /\ x = 0 /\ y = 0 => Written = {}
         /\ y = request.height => Written = (0 .. request.width - 1) \X (0 .. request.height - 1)
PROOF
  <1>1. PICK w \in Nat \ {0} : w = request.width
    BY OSMAssumption
  <1>2. PICK h \in Nat \ {0} : h = request.height
    BY OSMAssumption
  <1> DEFINE all == (0 .. w - 1) \X (0 .. h - 1)
  <1>3. Written = {at \in all : at[2] > h - 1 - y \/ (at[2] = h - 1 - y /\ at[1] < x)}
    BY <1>1, <1>2 DEF Written
  <1>4. \A at \in all : at[1] \in 0 .. w - 1 /\ at[2] \in 0 .. h - 1
    OBVIOUS
  <1> HIDE DEF all
  <1>5. CASE x = 0 /\ y = 0
    <2>1. \A at \in all : ~(at[2] > h - 1 - 0 \/ (at[2] = h - 1 - 0 /\ at[1] < 0))
      BY <1>4
    <2>2. y # request.height
      BY <1>2, <1>5
    <2> QED BY <1>3, <1>5, <2>1, <2>2
  <1>6. y = h => Written = all
    <2>1. \A at \in all : at[2] > h - 1 - h
      BY <1>4
    <2> QED BY <1>3, <2>1
  <1> QED BY <1>1, <1>2, <1>5, <1>6 DEF all

LEMMA WritePixelTells ==
  ASSUME AskedInv, PixelInv, PolygonsInv, SearchInv, ImgInv, WritePixel
  PROVE  ImgInv'
PROOF
  <1>1. /\ stage = "query" /\ candidates = {} /\ stage' = "raster"
        /\ img' = WithPixel(<<x, request.height - y - 1>>, Shade(minSqrDistance))
        /\ \/ x + 1 < request.width /\ x' = x + 1 /\ y' = y
           \/ ~(x + 1 < request.width) /\ x' = 0 /\ y' = y + 1
        /\ UNCHANGED <<request, waterPolygons>>
    BY DEF WritePixel, asked, loading
  <1>2. request \in Requests /\ Width(request.bbox) # 0 /\ y # request.height
    BY <1>1 DEF AskedInv, Loading, PixelInv
  <1> DEFINE at == <<x, request.height - y - 1>>
             shade == Shade(minSqrDistance)
  <1>3. Written' = Written \union {at}
    BY <1>1, <1>2, WrittenGrows
  <1>4. DOMAIN img = Written /\ (SquarePixels => \A other \in DOMAIN img : Told(other))
    BY <1>1 DEF ImgInv
  <1>5. SquarePixels => ToldBy(at, shade)
    BY <1>1, <1>2, MiddleIsCenter, SearchTells
  <1> HIDE DEF at, shade
  <1>6. /\ DOMAIN img' = DOMAIN img \union {at}
        /\ \A other \in DOMAIN img' : img'[other] = IF other = at THEN shade ELSE img[other]
    BY <1>1 DEF WithPixel, at, shade
  <1>7. SquarePixels' = SquarePixels
    BY <1>1 DEF SquarePixels, CellSize
  <1>8. ASSUME SquarePixels, NEW other \in DOMAIN img' PROVE Told(other)'
    <2>1. ToldBy(other, img'[other])
      <3>1. CASE other = at
        BY <1>5, <1>6, <1>8, <3>1
      <3>2. CASE other # at
        <4>1. other \in DOMAIN img /\ img'[other] = img[other]
          BY <1>6, <3>2
        <4>2. Told(other)
          BY <1>4, <1>8, <4>1
        <4> QED BY <4>1, <4>2, ToldIsToldBy
      <3> QED BY <3>1, <3>2
    <2> QED BY <1>1, <2>1, ToldByStays
  <1> QED BY <1>1, <1>3, <1>4, <1>6, <1>7, <1>8 DEF ImgInv
-----------------------------------------------------------------------------
(* The polygons are made of rings.                                         *)

SolidRing == {ring \in Ring : Len(ring) \in Nat \ {0}}

LEMMA PolygonalBy ==
  ASSUME NEW poly \in Seq(SolidRing), Len(poly) # 0
  PROVE  Polygonal(poly)
PROOF
  <1>1. IsSeq(poly) /\ DOMAIN poly = 1 .. Len(poly) /\ Len(poly) \in Nat \ {0}
    BY SeqIsSeq
  <1>2. \A i \in DOMAIN poly : poly[i] \in SolidRing
    BY <1>1, ElementOfSeq
  <1> QED BY <1>1, <1>2 DEF Polygonal, Solid, SolidRing

\* Polygons whose vertices are moved are polygons.
LEMMA MovedIsPolygonal ==
  ASSUME NEW poly, Polygonal(poly), NEW made, made = [j \in DOMAIN poly |-> made[j]],
         \A j \in DOMAIN poly : /\ made[j] = [v \in DOMAIN poly[j] |-> made[j][v]]
                                /\ \A v \in DOMAIN poly[j] : made[j][v] \in Int \X Int
  PROVE  Polygonal(made)
PROOF
  <1>1. DOMAIN poly = 1 .. Len(poly) /\ Len(poly) \in Nat \ {0} /\ \A j \in DOMAIN poly : Solid(poly[j])
    BY DEF Polygonal
  <1>2. ASSUME NEW j \in DOMAIN poly PROVE made[j] \in SolidRing
    <2>1. DOMAIN poly[j] = 1 .. Len(poly[j]) /\ Len(poly[j]) \in Nat \ {0}
      BY <1>1, SeqIsSeq DEF Solid, Ring
    <2>2. PICK ring : ring = made[j]
      OBVIOUS
    <2>3. ring = [v \in 1 .. Len(poly[j]) |-> ring[v]] /\ \A v \in 1 .. Len(poly[j]) : ring[v] \in Int \X Int
      BY <2>1, <2>2
    <2>4. ring \in [1 .. Len(poly[j]) -> Int \X Int]
      BY <2>3
    <2>5. ring \in Ring /\ Len(ring) = Len(poly[j])
      BY <2>1, <2>4, CountedIn, CountedIsSeq DEF Ring
    <2> QED BY <2>1, <2>2, <2>5 DEF SolidRing
  <1>3. made \in [1 .. Len(poly) -> SolidRing]
    BY <1>1, <1>2
  <1>4. made \in Seq(SolidRing) /\ Len(made) = Len(poly)
    BY <1>1, <1>3, CountedIn, CountedIsSeq
  <1> QED BY <1>1, <1>4, PolygonalBy

\* What there is something to make of has vertices.
LEMMA RingsAreSolid ==
  ASSUME NEW paths \in Seq(Ring)
  PROVE  RingsIn(paths) \in Seq(SolidRing)
PROOF
  <1> DEFINE ones == [i \in DOMAIN paths |-> IF IsRing(paths[i]) THEN <<paths[i]>> ELSE <<>>]
  <1>1. DOMAIN paths = 1 .. Len(paths) /\ Len(paths) \in Nat
    BY SeqIsSeq
  <1>2. \A i \in DOMAIN paths : IsRing(paths[i]) => paths[i] \in SolidRing
    <2> TAKE i \in DOMAIN paths
    <2>1. paths[i] \in Ring
      BY <1>1, ElementOfSeq
    <2>2. Len(paths[i]) \in Nat
      BY <2>1, SeqIsSeq DEF Ring
    <2> QED BY <2>1, <2>2 DEF IsRing, SolidRing
  <1>3. ones \in [1 .. Len(paths) -> Seq(SolidRing)]
    <2>1. \A ring \in SolidRing : <<ring>> \in Seq(SolidRing)
      OBVIOUS
    <2>2. <<>> \in Seq(SolidRing)
      OBVIOUS
    <2> QED BY <1>1, <1>2, <2>1, <2>2
  <1>4. RingsIn(paths) = FlattenSeq(ones)
    BY DEF RingsIn
  <1> HIDE DEF ones
  <1>5. IsSeq(ones) /\ \A i \in DOMAIN ones : ones[i] \in Seq(SolidRing)
    BY <1>1, <1>3, CountedIsSeq
  <1> QED BY <1>4, <1>5, FlattenTyped

\* A list of polygons is one of rings each.
AllPolygonal(polys) == \A poly \in Elements(polys) : Polygonal(poly)

LEMMA PolygonUntilIs ==
  ASSUME vtPolys \in Seq(Ring), polyStart \in 1 .. Len(vtPolys), NEW end \in polyStart .. Len(vtPolys)
  PROVE  AllPolygonal(PolygonUntil(end))
PROOF
  <1> DEFINE exterior == vtPolys[polyStart]
             holes == RingsIn(SubSeq(vtPolys, polyStart + 1, end))
             poly == <<exterior>> \o holes
  <1>1. exterior \in Ring /\ SubSeq(vtPolys, polyStart + 1, end) \in Seq(Ring)
    BY PolygonIsMade
  <1>2. holes \in Seq(SolidRing)
    BY <1>1, RingsAreSolid
  <1>3. PolygonUntil(end) = IF IsRing(exterior) THEN <<poly>> ELSE <<>>
    BY DEF PolygonUntil, CreateOGRPolygon
  <1> HIDE DEF exterior, holes
  <1>4. ASSUME IsRing(exterior) PROVE Polygonal(poly)
    <2>1. exterior \in SolidRing
      <3>1. Len(exterior) \in Nat
        BY <1>1, SeqIsSeq DEF Ring
      <3> QED BY <1>1, <1>4, <3>1 DEF IsRing, SolidRing
    <2>2. <<exterior>> \in Seq(SolidRing) /\ Len(<<exterior>>) = 1
      BY <2>1
    <2>3. poly \in Seq(SolidRing) /\ Len(poly) = 1 + Len(holes) /\ Len(holes) \in Nat
      BY <1>2, <2>2, ConcatProperties, SeqIsSeq
    <2>4. Len(poly) # 0
      BY <2>3
    <2> HIDE DEF poly
    <2> QED BY <2>3, <2>4, PolygonalBy
  <1> HIDE DEF poly
  <1>5. Elements(<<poly>>) = {poly} /\ Elements(<<>>) = {}
    BY DEF Elements
  <1> QED BY <1>3, <1>4, <1>5 DEF AllPolygonal

\* the polygons of a feature, and what is made of rings
FeaturePolygonal(f) == f.type = "POLYGON" => \A j \in DOMAIN f.parts : Polygonal(f.parts[j])
RingsInv ==
  /\ AllPolygonal(polygons)
  /\ \A name \in DOMAIN dataset : \A i \in DOMAIN dataset[name] : FeaturePolygonal(dataset[name][i])

\* On the map a polygon is one still.
LEMMA ShapeIsPolygonal ==
  ASSUME TileInv, pc \in OfFeature, NEW f, NEW parts, f.parts = ShapeOnMap(parts),
         f.type = "POLYGON" => \A j \in DOMAIN parts : Polygonal(parts[j])
  PROVE  FeaturePolygonal(f)
PROOF
  <1> SUFFICES ASSUME f.type = "POLYGON", NEW j \in DOMAIN f.parts PROVE Polygonal(f.parts[j])
    BY DEF FeaturePolygonal
  <1>1. j \in DOMAIN parts /\ f.parts[j] = [n \in DOMAIN parts[j] |-> PathOnMap(parts[j][n])]
    BY DEF ShapeOnMap
  <1>2. PICK poly : poly = parts[j]
    OBVIOUS
  <1>3. PICK made : made = f.parts[j]
    OBVIOUS
  <1>4. Polygonal(poly) /\ made = [n \in DOMAIN poly |-> PathOnMap(poly[n])]
    BY <1>1, <1>2, <1>3
  <1>5. ASSUME NEW n \in DOMAIN poly
        PROVE  /\ made[n] = [v \in DOMAIN poly[n] |-> made[n][v]]
               /\ \A v \in DOMAIN poly[n] : made[n][v] \in Int \X Int
    <2>1. made[n] = [v \in DOMAIN poly[n] |-> OnMap(poly[n][v])]
      BY <1>4 DEF PathOnMap
    <2>2. ASSUME NEW v \in DOMAIN poly[n] PROVE OnMap(poly[n][v]) \in Int \X Int
      <3>1. TileLeft \in Int /\ TileTop \in Int /\ TileSize \div Layer.extent \in Int
        BY MapIsNumber
      <3>2. poly[n] \in Seq(Int \X Int)
        BY <1>4 DEF Polygonal, Solid, Ring
      <3>3. PICK vertex \in Int \X Int : vertex = poly[n][v]
        BY <3>2, SeqIsSeq, ElementOfSeq
      <3>4. OnMap(vertex) = <<TileLeft + vertex[1] * (TileSize \div Layer.extent),
                              TileTop - vertex[2] * (TileSize \div Layer.extent)>>
        BY DEF OnMap
      <3>5. OnMap(vertex) \in Int \X Int
        BY <3>1, <3>3, <3>4
      <3> QED BY <3>3, <3>5
    <2> QED BY <2>1, <2>2
  <1>6. made = [n \in DOMAIN poly |-> made[n]]
    BY <1>4
  <1>7. Polygonal(made)
    BY <1>4, <1>5, <1>6, MovedIsPolygonal
  <1> QED BY <1>3, <1>7

\* A feature is added to those of its layer.
LEMMA CreateKeepsRings ==
  ASSUME TileInv, DataInv, RingsInv, pc \in OfFeature, NEW parts, CreateFeature(parts),
         Feature.type = "POLYGON" => \A j \in DOMAIN parts : Polygonal(parts[j])
  PROVE  RingsInv'
PROOF
  <1> DEFINE f == [type |-> Feature.type, parts |-> ShapeOnMap(parts), fields |-> Fields]
  <1>1. /\ dataset' = [dataset EXCEPT ![Layer.name] = Append(@, f)]
        /\ polygons' = <<>>
    BY DEF CreateFeature, NewFeature
  <1>2. FeaturePolygonal(f)
    <2>1. f.type = Feature.type /\ f.parts = ShapeOnMap(parts)
      OBVIOUS
    <2> HIDE DEF f
    <2> QED BY <2>1, ShapeIsPolygonal
  <1> HIDE DEF f
  <1>3. ASSUME NEW name \in DOMAIN dataset', NEW i \in DOMAIN dataset'[name]
        PROVE  FeaturePolygonal(dataset'[name][i])
    <2>1. name \in DOMAIN dataset /\ IsSeq(dataset[name])
      BY <1>1, <1>3 DEF DataInv, AllMade
    <2>2. \A n \in DOMAIN dataset[name] : FeaturePolygonal(dataset[name][n])
      BY <2>1 DEF RingsInv
    <2>3. CASE name = Layer.name
      <3>1. dataset'[name] = Append(dataset[name], f)
        BY <1>1, <2>1, <2>3
      <3>2. /\ DOMAIN Append(dataset[name], f) = DOMAIN dataset[name] \union {Len(dataset[name]) + 1}
            /\ \A n \in DOMAIN dataset[name] : Append(dataset[name], f)[n] = dataset[name][n]
            /\ Append(dataset[name], f)[Len(dataset[name]) + 1] = f
        BY <2>1, AppendIsSeq
      <3> QED BY <1>2, <1>3, <2>2, <3>1, <3>2
    <2>4. CASE name # Layer.name
      BY <1>1, <1>3, <2>1, <2>2, <2>4
    <2> QED BY <2>3, <2>4
  <1>4. AllPolygonal(polygons')
    BY <1>1, ShortIsSeq DEF AllPolygonal, Elements
  <1> QED BY <1>3, <1>4 DEF RingsInv, AllPolygonal, Elements

\* Further polygons are added to those of the feature.
LEMMA MorePolygons ==
  ASSUME DataInv, RingsInv, TileInv, polyStart \in 1 .. Len(vtPolys), NEW end \in polyStart .. Len(vtPolys)
  PROVE  AllPolygonal(polygons \o PolygonUntil(end))
PROOF
  <1>1. AllPolygonal(PolygonUntil(end))
    BY PolygonUntilIs DEF TileInv, TypeOK
  <1>2. IsSeq(polygons) /\ IsSeq(PolygonUntil(end)) /\ AllPolygonal(polygons)
    BY PolygonIsSeq DEF DataInv, RingsInv
  <1>3. Elements(polygons \o PolygonUntil(end)) = Elements(polygons) \union Elements(PolygonUntil(end))
    BY <1>2, ConcatIsSeq
  <1> QED BY <1>1, <1>2, <1>3 DEF AllPolygonal

LEMMA ConvertingKeepsRings ==
  ASSUME TileInv, DataInv, RingsInv, Converting
  PROVE  RingsInv'
PROOF
  <1>1. CASE UNCHANGED <<polygons, dataset>>
    BY <1>1 DEF RingsInv, AllPolygonal, Elements
  <1>2. CASE dataset' = <<>> /\ UNCHANGED polygons
    BY <1>2, ShortIsSeq DEF RingsInv, AllPolygonal, Elements
  <1>3. CASE UnknownCommand \/ UnknownType \/ CreateFeatureFails
    BY <1>2, <1>3 DEF UnknownCommand, UnknownType, CreateFeatureFails, Fail, rings
  <1>4. CASE NoTile \/ EmptyTile \/ OpenTile \/ InflateBlock \/ UnpackFails \/ ParseTile
             \/ Converted \/ ReadNothing \/ ReadVertex \/ ReadBeyond \/ ReadClose \/ ReadTags
             \/ ReadTagsBeyond \/ AddNoLine \/ BeginRings
    BY <1>1, <1>4 DEF NoTile, EmptyTile, OpenTile, InflateBlock, UnpackFails, ParseTile,
       Converted, ReadNothing, ReadVertex, ReadBeyond, ReadClose, ReadTags, ReadTagsBeyond,
       AddNoLine, BeginRings, rings
  <1>5. CASE BeginLayer
    <2>1. /\ dataset' = [name \in DOMAIN dataset \union {tile[layerIndex].name} |->
                          IF name \in DOMAIN dataset THEN dataset[name] ELSE <<>>]
          /\ UNCHANGED polygons
      BY <1>5 DEF BeginLayer, rings
    <2>2. \A name \in DOMAIN dataset' :
            \/ name \in DOMAIN dataset /\ dataset'[name] = dataset[name]
            \/ dataset'[name] = <<>>
      BY <2>1
    <2>3. \A name \in DOMAIN dataset' : \A i \in DOMAIN dataset'[name] : FeaturePolygonal(dataset'[name][i])
      BY <2>2, ShortIsSeq DEF RingsInv
    <2>4. AllPolygonal(polygons')
      BY <2>1 DEF RingsInv
    <2> QED BY <2>3, <2>4 DEF RingsInv, AllPolygonal, Elements
  <1>6. CASE ConvertPoints \/ ConvertLines
    <2>1. pc \in OfFeature /\ Feature.type # "POLYGON" /\ \E parts : CreateFeature(parts)
      BY <1>6 DEF ConvertPoints, ConvertLines, OfFeature
    <2> QED BY <2>1, CreateKeepsRings
  <1>7. CASE NextRing
    <2>1. \/ UNCHANGED <<polygons, dataset>>
          \/ /\ polygons' = polygons \o PolygonUntil(p - 1) /\ UNCHANGED dataset
             /\ p > polyStart /\ p <= Len(vtPolys)
      BY <1>7 DEF NextRing, StartsPolygon
    <2>2. ASSUME p > polyStart, p <= Len(vtPolys) PROVE AllPolygonal(polygons \o PolygonUntil(p - 1))
      <3>1. Len(vtPolys) \in Nat /\ p \in Nat /\ polyStart \in Nat \ {0}
        <4>1. vtPolys \in Seq(Ring) /\ p \in 1 .. Len(vtPolys) + 1 /\ polyStart \in 1 .. p
          BY DEF TileInv, TypeOK
        <4>2. Len(vtPolys) \in Nat
          BY <4>1, SeqIsSeq
        <4> QED BY <4>1, <4>2
      <3>2. polyStart \in 1 .. Len(vtPolys) /\ p - 1 \in polyStart .. Len(vtPolys)
        BY <2>2, <3>1
      <3> QED BY <3>2, MorePolygons
    <2> QED BY <1>1, <2>1, <2>2 DEF RingsInv, AllPolygonal, Elements
  <1>8. CASE ConvertPolygons
    <2> DEFINE parts == IF polyStart <= Len(vtPolys) THEN polygons \o PolygonUntil(Len(vtPolys))
                                                   ELSE polygons
    <2>1. CreateFeature(parts) /\ pc \in OfFeature
      BY <1>8 DEF ConvertPolygons, OfFeature
    <2>2. ASSUME polyStart <= Len(vtPolys) PROVE AllPolygonal(polygons \o PolygonUntil(Len(vtPolys)))
      <3>1. Len(vtPolys) \in Nat /\ polyStart \in Nat \ {0}
        <4>1. vtPolys \in Seq(Ring) /\ p \in 1 .. Len(vtPolys) + 1 /\ polyStart \in 1 .. p
          BY DEF TileInv, TypeOK
        <4>2. Len(vtPolys) \in Nat
          BY <4>1, SeqIsSeq
        <4> QED BY <4>1, <4>2
      <3>2. polyStart \in 1 .. Len(vtPolys) /\ Len(vtPolys) \in polyStart .. Len(vtPolys)
        BY <2>2, <3>1
      <3> QED BY <3>2, MorePolygons
    <2>3. AllPolygonal(parts)
      BY <2>2 DEF RingsInv
    <2> HIDE DEF parts
    <2>4. \A j \in DOMAIN parts : Polygonal(parts[j])
      BY <2>3 DEF AllPolygonal, Elements
    <2> QED BY <2>1, <2>4, CreateKeepsRings
  <1> QED BY <1>3, <1>4, <1>5, <1>6, <1>7, <1>8 DEF Converting

LEMMA RingsKept ==
  ASSUME TileInv, DataInv, RingsInv, [OSMNext]_osmVars
  PROVE  RingsInv'
PROOF
  <1>1. CASE UNCHANGED <<polygons, dataset>>
    BY <1>1 DEF RingsInv, AllPolygonal, Elements
  <1>2. CASE Opening
    BY <1>2, ConvertingKeepsRings DEF Opening
  <1>3. CASE LoadFails \/ ReleaseDataSet
    <2>1. polygons' = <<>> /\ dataset' = <<>>
      BY <1>3 DEF LoadFails, ReleaseDataSet, Release, NewFeature
    <2>2. DOMAIN polygons' = {} /\ DOMAIN dataset' = {}
      BY <2>1, ShortIsSeq
    <2> QED BY <2>2 DEF RingsInv, AllPolygonal, Elements
  <1>4. CASE OpenDataSet \/ DestroyLayer
    BY <1>1, <1>4 DEF OpenDataSet, Open, DestroyLayer, Destroy, rings
  <1>5. CASE InitBase \/ InitBaseFails \/ InitLayer \/ BeginLoading \/ Opened \/ LoadShape
             \/ LeaveShapeOut \/ AreaAssertionFails \/ NoGeometry \/ RasterPixel \/ LookAt
             \/ WritePixel \/ AnswerOK \/ Refuse \/ HandleGetMapRequest
    BY <1>1, <1>5 DEF InitBase, InitBaseFails, InitLayer, BeginLoading, Opened, LoadShape,
       LeaveShapeOut, AreaAssertionFails, NoGeometry, RasterPixel, LookAt, WritePixel,
       AnswerOK, Refuse, HandleGetMapRequest, vars, rings
  <1>6. CASE UNCHANGED osmVars
    BY <1>1, <1>6 DEF osmVars, vars, rings
  <1> QED BY <1>2, <1>3, <1>4, <1>5, <1>6 DEF OSMNext, OSMStep

-----------------------------------------------------------------------------
(* What the search for a pixel relies on stays so.                         *)

\* What LoadShape adds for a feature are polygons.
LEMMA PolygonsAreAdded ==
  ASSUME NEW f, FeaturePolygonal(f), request.crs \in DOMAIN Offset
  PROVE  \A i \in DOMAIN PolygonsOf(f) : Polygonal(PolygonsOf(f)[i])
PROOF
  <1>1. CASE f.type # "POLYGON"
    BY <1>1, ShortIsSeq DEF PolygonsOf
  <1>2. CASE f.type = "POLYGON" /\ ~Transforms
    BY <1>2 DEF PolygonsOf, FeaturePolygonal
  <1>3. CASE f.type = "POLYGON" /\ Transforms
    <2>1. PolygonsOf(f) = ReprojectParts(f.parts)
      BY <1>3 DEF PolygonsOf
    <2>2. ASSUME NEW i \in DOMAIN ReprojectParts(f.parts) PROVE Polygonal(ReprojectParts(f.parts)[i])
      <3> DEFINE moved(point) == Reproject(point, OSM, request.crs)
      <3>1. i \in DOMAIN f.parts /\ Polygonal(f.parts[i])
        BY <1>3, <2>2 DEF ReprojectParts, FeaturePolygonal
      <3>2. PICK poly : poly = f.parts[i]
        OBVIOUS
      <3>3. PICK made : made = ReprojectParts(f.parts)[i]
        OBVIOUS
      <3>4. made = [n \in DOMAIN poly |-> [v \in DOMAIN poly[n] |-> moved(poly[n][v])]]
        BY <3>1, <3>2, <3>3 DEF ReprojectParts
      <3>5. ASSUME NEW n \in DOMAIN poly, NEW v \in DOMAIN poly[n]
            PROVE  moved(poly[n][v]) \in Int \X Int
        <4>1. poly[n] \in Seq(Int \X Int)
          BY <3>1, <3>2 DEF Polygonal, Solid, Ring
        <4>2. PICK point \in Int \X Int : point = poly[n][v]
          BY <4>1, SeqIsSeq, ElementOfSeq
        <4>3. PICK a \in Int \X Int : a = Offset[OSM]
          BY OSMAssumption
        <4>4. PICK b \in Int \X Int : b = Offset[request.crs]
          BY OSMAssumption
        <4>5. moved(point) = <<point[1] - a[1] + b[1], point[2] - a[2] + b[2]>>
          BY <4>3, <4>4 DEF Reproject
        <4>6. moved(point) \in Int \X Int
          BY <4>5
        <4> QED BY <4>2, <4>6
      <3> HIDE DEF moved
      <3>6. ASSUME NEW n \in DOMAIN poly
            PROVE  /\ made[n] = [v \in DOMAIN poly[n] |-> made[n][v]]
                   /\ \A v \in DOMAIN poly[n] : made[n][v] \in Int \X Int
        <4>1. made[n] = [v \in DOMAIN poly[n] |-> moved(poly[n][v])]
          BY <3>4
        <4> QED BY <3>5, <4>1
      <3>7. made = [n \in DOMAIN poly |-> made[n]]
        BY <3>4
      <3>8. Polygonal(poly)
        BY <3>1, <3>2
      <3>9. Polygonal(made)
        BY <3>6, <3>7, <3>8, MovedIsPolygonal
      <3> QED BY <3>3, <3>9
    <2> QED BY <2>1, <2>2
  <1> QED BY <1>1, <1>2, <1>3

LEMMA WaterLayerPolygonal ==
  ASSUME RingsInv, NEW n \in DOMAIN waterLayer
  PROVE  FeaturePolygonal(waterLayer[n])
PROOF
  <1>1. "water" \in DOMAIN dataset /\ waterLayer = dataset["water"]
    BY ShortIsSeq DEF waterLayer
  <1> QED BY <1>1 DEF RingsInv

LEMMA PolygonsKept ==
  ASSUME PolygonsInv, WaterInv, RingsInv, DataInv, TableInv, StopInv, [OSMNext]_osmVars
  PROVE  PolygonsInv'
PROOF
  <1>1. CASE UNCHANGED waterPolygons
    BY <1>1 DEF PolygonsInv
  <1>2. CASE waterPolygons' = <<>>
    BY <1>2, ShortIsSeq DEF PolygonsInv
  <1>3. CASE LoadFails \/ AnswerOK \/ Refuse
    BY <1>2, <1>3 DEF LoadFails, AnswerOK, Refuse, Answer
  <1>4. CASE LoadShape
    <2> DEFINE f == waterLayer[feature]
    <2>1. /\ stage = "shapes" /\ feature <= Len(waterLayer)
          /\ waterPolygons' = waterPolygons \o PolygonsOf(f)
      BY <1>4 DEF LoadShape, LoadingShapes
    <2>2. feature \in Nat \ {0} /\ IsSeq(waterPolygons) /\ IsSeq(waterLayer) /\ AllMade(waterLayer)
      BY <2>1, WaterLayerIsMade DEF WaterInv, AllMade
    <2>3. feature \in DOMAIN waterLayer
      BY <2>1, <2>2, IsSeqDomain
    <2>4. FeaturePolygonal(f) /\ Made(f)
      BY <2>2, <2>3, WaterLayerPolygonal DEF AllMade
    <2>5. request.crs \in DOMAIN Offset
      BY <2>1 DEF StopInv, TableInv, Loading
    <2> HIDE DEF f
    <2>6. \A i \in DOMAIN PolygonsOf(f) : Polygonal(PolygonsOf(f)[i])
      BY <2>4, <2>5, PolygonsAreAdded
    <2>7. IsSeq(PolygonsOf(f))
      BY <2>4, PolygonsAreMoved
    <2>8. Elements(waterPolygons') = Elements(waterPolygons) \union Elements(PolygonsOf(f))
      BY <2>1, <2>2, <2>7, ConcatIsSeq
    <2>9. \A poly \in Elements(waterPolygons') : Polygonal(poly)
      BY <2>6, <2>8 DEF PolygonsInv, Elements
    <2> QED BY <2>9 DEF PolygonsInv, Elements
  <1>5. CASE InitBase \/ InitBaseFails \/ InitLayer \/ BeginLoading \/ OpenDataSet \/ Opening \/ Opened
             \/ LeaveShapeOut \/ AreaAssertionFails \/ NoGeometry \/ ReleaseDataSet \/ RasterPixel \/ LookAt
             \/ WritePixel \/ HandleGetMapRequest \/ DestroyLayer \/ UNCHANGED osmVars
    BY <1>1, <1>5 DEF InitBase, InitBaseFails, InitLayer, BeginLoading, OpenDataSet, Opening, Opened,
       LeaveShapeOut, AreaAssertionFails, NoGeometry, ReleaseDataSet, RasterPixel, LookAt, WritePixel,
       HandleGetMapRequest, DestroyLayer, osmVars, loading
  <1> QED BY <1>3, <1>4, <1>5 DEF OSMNext, OSMStep

\* The box of a request is as wide as the one that its tiles are chosen by.
LEMMA AskedKept ==
  ASSUME AskedInv, TableInv, LoadInv, [OSMNext]_osmVars
  PROVE  AskedInv'
PROOF
  <1>1. CASE HandleGetMapRequest
    <2>1. PICK r \in Requests :
            /\ r.crs \in supportedCRS
            /\ request' = r
            /\ IF Missing(<<r.crs, OSM>>) \/ Missing(<<OSM, r.crs>>)
                 THEN stage' = "undefined" /\ UNCHANGED <<osmBBox, zoomLevel>>
                 ELSE LET bbox == TransformBBox(r.bbox, r.crs, OSM)
                      IN  /\ osmBBox' = bbox
                          /\ IF Undefined(r, bbox)
                               THEN stage' = "undefined" /\ UNCHANGED zoomLevel
                               ELSE stage' = "begin" /\ zoomLevel' = ZoomLevel(r, bbox)
      BY <1>1 DEF HandleGetMapRequest
    <2>2. CASE stage' = "undefined"
      BY <2>2 DEF AskedInv, Loading
    <2>3. CASE stage' # "undefined"
      <3>1. Width(TransformBBox(r.bbox, r.crs, OSM)) # 0
        BY <2>1, <2>3 DEF Undefined
      <3>2. stage = "ready"
        BY <1>1 DEF HandleGetMapRequest
      <3>3. /\ Offset[OSM][1] \in Int /\ Offset[r.crs][1] \in Int
        <4>1. OSM \in DOMAIN Offset /\ r.crs \in DOMAIN Offset
          BY <2>1, OSMAssumption DEF TableInv
        <4> QED BY <4>1, OSMAssumption
      <3>4. r.bbox.minX \in Int /\ r.bbox.maxX \in Int
        BY OSMAssumption
      <3>5. Width(r.bbox) = Width(TransformBBox(r.bbox, r.crs, OSM))
        BY <3>3, <3>4 DEF TransformBBox, Reproject, Width
      <3>6. Width(request.bbox)' = Width(r.bbox)
        BY <2>1 DEF Width
      <3> QED BY <2>1, <3>1, <3>5, <3>6 DEF AskedInv
    <2> QED BY <2>2, <2>3
  <1>2. CASE ~HandleGetMapRequest
    <2>1. stage' \in Loading => stage \in Loading /\ UNCHANGED request
      BY <1>2 DEF OSMNext, OSMStep, InitBase, InitBaseFails, InitLayer, BeginLoading, GoTo, FirstTile, OpenDataSet,
         Opening, LoadFails, Opened, LoadShape, LeaveShapeOut, LoadingShapes, AreaAssertionFails, NoGeometry,
         ReleaseDataSet, TileAfter, RasterPixel, LookAt, WritePixel, AnswerOK, Refuse, Answer, DestroyLayer,
         osmVars, asked, Loading
    <2> QED BY <2>1 DEF AskedInv, Width
  <1> QED BY <1>1, <1>2

LEMMA SearchKept ==
  ASSUME AskedInv, PixelInv, PolygonsInv, SearchInv, [OSMNext]_osmVars
  PROVE  SearchInv'
PROOF
  <1>1. CASE UNCHANGED osmVars
    <2>1. UNCHANGED <<stage, request, waterPolygons, x, y, candidates, minSqrDistance>>
      BY <1>1 DEF osmVars, asked, loading, pixel
    <2>2. NotFound' = NotFound /\ Center' = Center
      BY <2>1 DEF NotFound, Farthest, ScaledDistanceDomain, CellSize, Center
    <2>3. \A i : Signed(i)' = Signed(i)
      BY <2>1, <2>2 DEF Signed
    <2> QED BY <2>1, <2>2, <2>3 DEF SearchInv
  <1>2. CASE InitBase \/ InitBaseFails \/ InitLayer \/ BeginLoading \/ OpenDataSet \/ Opening \/ LoadFails
             \/ Opened \/ LoadShape \/ LeaveShapeOut \/ AreaAssertionFails \/ NoGeometry \/ ReleaseDataSet
             \/ WritePixel \/ AnswerOK \/ Refuse \/ HandleGetMapRequest \/ DestroyLayer
    <2>1. stage' # "query"
      BY <1>2 DEF InitBase, InitBaseFails, InitLayer, BeginLoading, GoTo, FirstTile, OpenDataSet, Opening, LoadFails,
         Answer, Opened, LoadShape, LeaveShapeOut, LoadingShapes, AreaAssertionFails, NoGeometry, ReleaseDataSet,
         TileAfter, WritePixel, AnswerOK, Refuse, HandleGetMapRequest, DestroyLayer
    <2> QED BY <2>1 DEF SearchInv
  <1> QED BY <1>1, <1>2, RasterPixelSearches, LookAtSearches DEF OSMNext, OSMStep

LEMMA ImgKept ==
  ASSUME AskedInv, PixelInv, PolygonsInv, SearchInv, ImgInv, [OSMNext]_osmVars
  PROVE  ImgInv'
PROOF
  <1>1. CASE /\ stage \in {"raster", "query"}
             /\ UNCHANGED <<request, waterPolygons, x, y, img>>
    <2>1. Written' = Written /\ SquarePixels' = SquarePixels
      BY <1>1 DEF Written, SquarePixels, CellSize
    <2>2. \A at : Told(at)' <=> Told(at)
      BY <1>1, ToldByStays, ToldIsToldBy
    <2> QED BY <1>1, <2>1, <2>2 DEF ImgInv
  <1>2. CASE BeginLoading \/ ReleaseDataSet
    <2>1. stage \in {"begin", "shapes"} /\ UNCHANGED <<request, x, y, img>>
      BY <1>2 DEF BeginLoading, ReleaseDataSet, asked, pixel
    <2>2. x = 0 /\ y = 0 /\ img = NoPixels /\ request \in Requests
      BY <2>1 DEF PixelInv, AskedInv, Loading
    <2>3. Written = {} /\ Written' = Written
      BY <2>1, <2>2, WrittenBounds DEF Written
    <2>4. DOMAIN img' = {}
      BY <2>1, <2>2, EmptyIsSeq DEF NoPixels
    <2> QED BY <2>3, <2>4 DEF ImgInv
  <1>3. CASE RasterPixel \/ LookAt
    <2>1. stage \in {"raster", "query"} /\ UNCHANGED <<request, waterPolygons, x, y, img>>
      BY <1>3 DEF RasterPixel, LookAt, asked, loading
    <2> QED BY <1>1, <2>1
  <1>4. CASE UNCHANGED osmVars
    <2>1. UNCHANGED <<stage, request, waterPolygons, x, y, img>>
      BY <1>4 DEF osmVars, asked, loading, pixel
    <2> QED BY <1>1, <2>1 DEF ImgInv
  <1>5. CASE InitBase \/ InitBaseFails \/ InitLayer \/ OpenDataSet \/ Opening \/ LoadFails
             \/ Opened \/ LoadShape \/ LeaveShapeOut \/ AreaAssertionFails \/ NoGeometry
             \/ AnswerOK \/ Refuse \/ HandleGetMapRequest \/ DestroyLayer
    <2>1. stage' \notin {"raster", "query"}
      BY <1>5 DEF InitBase, InitBaseFails, InitLayer, OpenDataSet, Opening, LoadFails, Answer, Opened, LoadShape,
         LeaveShapeOut, LoadingShapes, AreaAssertionFails, NoGeometry, AnswerOK, Refuse, HandleGetMapRequest,
         DestroyLayer
    <2> QED BY <2>1 DEF ImgInv
  <1> QED BY <1>2, <1>3, <1>4, <1>5, WritePixelTells DEF OSMNext, OSMStep

LEMMA PolygonsInvariance == OSMSpec => [](RingsInv /\ PolygonsInv)
PROOF
  <1>1. OSMInit => RingsInv /\ PolygonsInv
    <2> SUFFICES ASSUME OSMInit PROVE RingsInv /\ PolygonsInv
      OBVIOUS
    <2>1. DOMAIN polygons = {} /\ DOMAIN dataset = {} /\ DOMAIN waterPolygons = {}
      BY ShortIsSeq DEF OSMInit, Init
    <2> QED BY <2>1 DEF RingsInv, PolygonsInv, AllPolygonal, Elements
  <1> QED BY <1>1, RingsKept, PolygonsKept, DataInvariance, StopInvariance, LayerTileInvariance, TableInvariance,
             PTL DEF OSMSpec

LEMMA AskedInvariance == OSMSpec => []AskedInv
PROOF
  <1>1. OSMInit => AskedInv
    BY DEF OSMInit, AskedInv, Loading
  <1> QED BY <1>1, AskedKept, TableInvariance, LoadInvariance, PTL DEF OSMSpec

\* Each pixel of the image of a request, on land, tells how far it is to the nearest shore of all
\* the water that was loaded, and in water that it is there, although the tree, the test of the
\* boxes and the end of the search within a polygon leave most of the rings out.
THEOREM ShoresAlwaysTold == OSMSpec => []ShoresTold
PROOF
  <1>1. OSMInit => SearchInv /\ ImgInv
    BY DEF OSMInit, SearchInv, ImgInv
  <1>2. AskedInv /\ ImgInv => ShoresTold
    <2> SUFFICES ASSUME AskedInv, ImgInv, Rastered, SquarePixels
                 PROVE  /\ DOMAIN img = (0 .. request.width - 1) \X (0 .. request.height - 1)
                        /\ \A at \in DOMAIN img : Told(at)
      BY DEF ShoresTold
    <2>1. stage = "raster" /\ y = request.height /\ request \in Requests
      BY DEF Rastered, AskedInv, Loading
    <2>2. Written = (0 .. request.width - 1) \X (0 .. request.height - 1)
      BY <2>1, WrittenBounds
    <2> QED BY <2>1, <2>2 DEF ImgInv
  <1> QED BY <1>1, <1>2, SearchKept, ImgKept, AskedInvariance, PixelInvariance, PolygonsInvariance,
             PTL DEF OSMSpec
=============================================================================
