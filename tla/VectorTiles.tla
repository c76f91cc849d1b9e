----------------------------- MODULE VectorTiles -----------------------------
(***************************************************************************)
(* VectorTiles::Open of utils/VectorTiles/VectorTiles.cpp: a tile is read  *)
(* from the database, unpacked, parsed, and its features are converted one *)
(* after the other.  The geometry of a feature is a sequence of numbers,   *)
(* commands with a count followed by relative coordinates; it is decoded   *)
(* into rings, and those of a polygon are grouped into polygons with holes *)
(* by the sign of their area.  The tags of a feature become its fields.    *)
(*                                                                         *)
(* A ring is closed by meaning, without its first vertex being repeated.   *)
(* The message of a tile is parsed by generated code: it is the tile, or   *)
(* nothing.                                                                *)
(***************************************************************************)
EXTENDS Integers, Sequences, SequencesExt

CONSTANTS
  Tiles,      \* what the database may hold at each place: a function to sets of tiles
  MapWidth,   \* the width of the map, a multiple of all the extents used
  FieldBits,  \* the width of an integer field
  MaxBlocks   \* blocks a packed tile may have

GeomType == {"UNKNOWN", "POINT", "LINESTRING", "POLYGON"}

(***************************************************************************)
(* A place is <<zoom level, column, row>>, rows counted from the south.  A *)
(* tile is a sequence of layers, and a layer has its features and the keys *)
(* and values that their tags refer to by index.  A feature has a type,    *)
(* its geometry in numbers, its tags, and what was encoded in them: the    *)
(* shape and the attributes.  A shape is a sequence of parts, and a part a *)
(* sequence of paths: a point is a path of one vertex; a line is one path; *)
(* a polygon is its exterior ring with the holes after it.  NoShape stands *)
(* for numbers and tags no encoder would write.                            *)
(***************************************************************************)
NoShape == <<>>

Places == DOMAIN Tiles

ASSUME TilesAssumption ==
  /\ MapWidth \in Nat /\ FieldBits \in Nat \ {0} /\ MaxBlocks \in Nat
  /\ Places \subseteq Nat \X Nat \X Nat
  /\ \A place \in Places : 2 ^ place[1] \in Nat \ {0}
  /\ \A place \in Places : \A tile \in Tiles[place] :
       /\ tile \in Seq(Range(tile))
       /\ \A l \in DOMAIN tile :
            /\ tile[l].extent \in Nat \ {0}
            /\ MapWidth % 2 = 0 /\ MapWidth % (2 ^ place[1] * tile[l].extent) = 0
            /\ tile[l].features \in Seq(Range(tile[l].features))
            /\ \A i \in DOMAIN tile[l].features :
                 /\ tile[l].features[i].type \in GeomType
                 /\ tile[l].features[i].geometry \in Seq(Nat)
                 /\ tile[l].features[i].tags \in Seq(Nat)

SEG_MOVETO == 1
SEG_LINETO == 2
SEG_CLOSE == 7

VARIABLES
  pc,            \* where Open stands, or what it returned
  mbtiles,       \* is the database open?
  references,    \* to the shared dataset emptyTile
  place,         \* the tile that was asked for
  unpacked,      \* blocks of it that are unpacked
  tile,          \* its layers
  layerIndex,
  featureIndex,
  k,             \* the number of the geometry to read next
  cmd,           \* the command at work
  length,        \* and how often it is still to be done
  cursor,
  vtPoly,        \* the ring, line or points being read
  vtPolys,       \* those that are finished
  p, polyStart,  \* the rings looked at, and the exterior of the last polygon
  polygons,      \* the polygons of this feature
  dataset        \* the features created in each layer, with their parts and fields

database == <<mbtiles, references, place, unpacked>>
reader == <<k, cmd, length, cursor, vtPoly, vtPolys>>
rings == <<p, polyStart, polygons>>
position == <<layerIndex, featureIndex>>
vars == <<pc, database, tile, position, reader, rings, dataset>>

Returned == {"NULL", "emptyTile", "dataset"}

\* a feature starts with variables of its own
NewFeature ==
  /\ k' = 1 /\ cmd' = -1 /\ length' = 0 /\ cursor' = <<0, 0>>
  /\ vtPoly' = <<>> /\ vtPolys' = <<>>
  /\ p' = 1 /\ polyStart' = 1 /\ polygons' = <<>>

Init ==
  /\ pc = "idle"
  /\ mbtiles \in BOOLEAN /\ references = 1
  /\ place = <<0, 0, 0>> /\ unpacked = 0
  /\ tile = <<>> /\ layerIndex = 1 /\ featureIndex = 1
  /\ k = 1 /\ cmd = -1 /\ length = 0 /\ cursor = <<0, 0>>
  /\ vtPoly = <<>> /\ vtPolys = <<>>
  /\ p = 1 /\ polyStart = 1 /\ polygons = <<>>
  /\ dataset = <<>>

-----------------------------------------------------------------------------
(* Open.                                                                   *)

\* the caller asks for the tile at a place
Open(at) ==
  /\ pc = "idle"
  /\ place' = at
  /\ pc' = "open"
  /\ UNCHANGED <<mbtiles, references, unpacked, tile, position, reader, rings, dataset>>

\* There is no database, or no such tile in it, or it cannot be read.
NoTile ==
  /\ pc = "open"
  /\ pc' = "NULL"
  /\ UNCHANGED <<database, tile, position, reader, rings, dataset>>

\* Mutant: the shared dataset is returned without a reference of its own.
EmptyTileUncounted ==
  /\ pc = "open" /\ mbtiles /\ place \in Places
  /\ pc' = "emptyTile"
  /\ UNCHANGED <<database, tile, position, reader, rings, dataset>>

\* a row without data: the caller gets another reference to the shared emptyTile
EmptyTile ==
  /\ pc = "open" /\ mbtiles /\ place \in Places
  /\ pc' = "emptyTile"
  /\ references' = references + 1
  /\ UNCHANGED <<mbtiles, place, unpacked, tile, position, reader, rings, dataset>>

OpenTile ==
  /\ pc = "open" /\ mbtiles /\ place \in Places
  /\ pc' = "unpack"
  /\ UNCHANGED <<database, tile, position, reader, rings, dataset>>

\* inflate returned Z_OK: a block of the output is full, and there is more
InflateBlock ==
  /\ pc = "unpack" /\ unpacked < MaxBlocks
  /\ unpacked' = unpacked + 1
  /\ UNCHANGED <<pc, mbtiles, references, place, tile, position, reader, rings, dataset>>

\* The stream is broken, or ends too early, or holds nothing, or what it holds is
\* no tile: what was unpacked is thrown away.
UnpackFails ==
  /\ pc = "unpack"
  /\ pc' = "NULL" /\ unpacked' = 0
  /\ UNCHANGED <<mbtiles, references, place, tile, position, reader, rings, dataset>>

\* The stream has come to its end, and the message is parsed.
ParseTile ==
  /\ pc = "unpack"
  /\ tile' \in Tiles[place]
  /\ pc' = "layer" /\ unpacked' = 0
  /\ UNCHANGED <<mbtiles, references, place, position, reader, rings, dataset>>

\* the conversion fails, and the caller gets nothing of the tile
Fail ==
  /\ pc' = "NULL"
  /\ dataset' = <<>>
  /\ UNCHANGED <<database, tile, position, reader, rings>>

\* Another feature, or layer, with the same name is added to the one there is.
BeginLayer ==
  /\ pc = "layer" /\ layerIndex <= Len(tile)
  /\ dataset' = [name \in DOMAIN dataset \union {tile[layerIndex].name} |->
                   IF name \in DOMAIN dataset THEN dataset[name] ELSE <<>>]
  /\ IF tile[layerIndex].features = <<>>
       THEN layerIndex' = layerIndex + 1 /\ UNCHANGED pc
       ELSE pc' = "read" /\ UNCHANGED layerIndex
  /\ UNCHANGED <<database, tile, featureIndex, reader, rings>>

Converted ==
  /\ pc = "layer" /\ layerIndex > Len(tile)
  /\ pc' = "dataset"
  /\ UNCHANGED <<database, tile, position, reader, rings, dataset>>

-----------------------------------------------------------------------------
(* The geometry of a feature.                                              *)

Layer == tile[layerIndex]
Feature == Layer.features[featureIndex]
Geometry == Feature.geometry

ZigZagUint32ToInt32(zigzag) ==
  IF zigzag % 2 = 1 THEN -(zigzag \div 2) - 1 ELSE zigzag \div 2

Reading == pc = "read" /\ k <= Len(Geometry)
ReadAll == pc = "read" /\ k > Len(Geometry)

(***************************************************************************)
(* The command a turn of the loop works at, how often it is to be done,    *)
(* and where its coordinates start: it is read first unless one is at work.*)
(***************************************************************************)
Command ==
  IF length = 0
    THEN [cmd |-> Geometry[k] % 8, length |-> Geometry[k] \div 8, at |-> k + 1]
    ELSE [cmd |-> cmd, length |-> length, at |-> k]

\* Mutant: the command is done once more.
DoneTooOften(next) ==
  /\ cmd' = Command.cmd
  /\ length' = IF Command.length = 1 /\ length = 0 THEN 1 ELSE Command.length - 1
  /\ k' = next

\* the turn has done the command once and read up to the number before next
Done(next) ==
  /\ cmd' = Command.cmd
  /\ length' = Command.length - 1
  /\ k' = next

\* a command that is to be done no times
ReadNothing ==
  /\ Reading /\ Command.length = 0
  /\ cmd' = Command.cmd /\ k' = Command.at
  /\ UNCHANGED <<pc, database, tile, position, length, cursor, vtPoly, vtPolys, rings, dataset>>

Drawing == Reading /\ Command.length > 0 /\ Command.cmd \in {SEG_MOVETO, SEG_LINETO}

\* a move ends the ring before it
ReadVertex ==
  /\ Drawing /\ Command.at < Len(Geometry)
  /\ cursor' = <<cursor[1] + ZigZagUint32ToInt32(Geometry[Command.at]),
                 cursor[2] + ZigZagUint32ToInt32(Geometry[Command.at + 1])>>
  /\ IF Command.cmd = SEG_MOVETO /\ vtPoly # <<>>
       THEN vtPolys' = Append(vtPolys, vtPoly) /\ vtPoly' = <<cursor'>>
       ELSE vtPoly' = Append(vtPoly, cursor') /\ UNCHANGED vtPolys
  /\ Done(Command.at + 2)
  /\ UNCHANGED <<pc, database, tile, position, rings, dataset>>

\* the coordinates end before the command does: the numbers behind them are read
ReadBeyond ==
  /\ Drawing /\ Command.at >= Len(Geometry)
  /\ pc' = "beyond"
  /\ UNCHANGED <<database, tile, position, reader, rings, dataset>>

ReadClose ==
  /\ Reading /\ Command.length > 0 /\ Command.cmd = SEG_CLOSE
  /\ vtPolys' = Append(vtPolys, vtPoly) /\ vtPoly' = <<>>
  /\ Done(Command.at)
  /\ UNCHANGED <<pc, database, tile, position, cursor, rings, dataset>>

UnknownCommand ==
  /\ Reading /\ Command.length > 0
  /\ Command.cmd \notin {SEG_MOVETO, SEG_LINETO, SEG_CLOSE}
  /\ Fail

-----------------------------------------------------------------------------
(* The tags of a feature become fields.                                    *)

Kinds == <<"string", "float", "double", "int", "uint", "sint", "bool">>

\* A value is a function from the kinds that are set in it; the first one counts.
KindOf(value) ==
  LET set == {i \in DOMAIN Kinds : Kinds[i] \in DOMAIN value}
  IN  IF set = {} THEN "none" ELSE Kinds[CHOOSE i \in set : \A j \in set : i <= j]

FieldType(value) ==
  CASE KindOf(value) = "string"                   -> "OFTString"
    [] KindOf(value) \in {"float", "double"}      -> "OFTReal"
    [] KindOf(value) \in {"int", "uint", "sint"}  -> "OFTInteger64"
    [] OTHER                                      -> "OFTInteger"

\* an integer without a sign gets one: the upper half becomes negative
FieldValue(value) ==
  LET v == value[KindOf(value)]
  IN  CASE KindOf(value) = "uint" -> IF v < 2 ^ (FieldBits - 1) THEN v ELSE v - 2 ^ FieldBits
        [] KindOf(value) = "bool" -> IF v THEN 1 ELSE 0
        [] OTHER                  -> v

\* the indexes of a pair of tags, and what they refer to
TagKey(t) == Layer.keys[Feature.tags[2 * t - 1] + 1]
TagValue(t) == Layer.values[Feature.tags[2 * t] + 1]

\* Mutant: the last tags are not looked at.
TagPairsShort ==
  {t \in 1 .. (Len(Feature.tags) + 1) \div 2 - 1 : KindOf(TagValue(t)) # "none"}

\* the pairs whose value is of some kind
TagPairs ==
  {t \in 1 .. (Len(Feature.tags) + 1) \div 2 : KindOf(TagValue(t)) # "none"}

\* a key without its value, or an index with nothing behind it
TagsFit ==
  /\ Len(Feature.tags) % 2 = 0
  /\ \A i \in DOMAIN Feature.tags :
       Feature.tags[i] < Len(IF i % 2 = 1 THEN Layer.keys ELSE Layer.values)

\* If a key occurs twice, the first occurrence defines the type of its field, and
\* the last one its value.
Fields ==
  LET pairsOf(key) == {t \in TagPairs : TagKey(t) = key}
      first(pairs) == CHOOSE t \in pairs : \A u \in pairs : t <= u
      last(pairs) == CHOOSE t \in pairs : \A u \in pairs : u <= t
  IN  [key \in {TagKey(t) : t \in TagPairs} |->
         <<FieldType(TagValue(first(pairsOf(key)))), FieldValue(TagValue(last(pairsOf(key))))>>]

ReadTags ==
  /\ ReadAll /\ TagsFit
  /\ pc' = "convert"
  /\ UNCHANGED <<database, tile, position, reader, rings, dataset>>

ReadTagsBeyond ==
  /\ ReadAll /\ ~TagsFit
  /\ pc' = "beyond"
  /\ UNCHANGED <<database, tile, position, reader, rings, dataset>>

-----------------------------------------------------------------------------
(* The feature is created.                                                 *)

\* the square of a tile on the map, and what a vertex of the tile is there: the
\* rows of tiles are counted from the south, the vertices of a tile from the north
TileSize == MapWidth \div 2 ^ place[1]
MapLeft == -(MapWidth \div 2)
MapBottom == MapLeft
MapTop == MapWidth \div 2
TileLeft == MapLeft + place[2] * TileSize

\* Mutant: rows are counted from the north.
TileTopReversed == MapTop - place[3] * TileSize

TileTop == MapTop - (2 ^ place[1] - place[3] - 1) * TileSize

OnMap(vertex) ==
  LET tileScale == TileSize \div Layer.extent
  IN  <<TileLeft + vertex[1] * tileScale, TileTop - vertex[2] * tileScale>>

PathOnMap(path) == [v \in DOMAIN path |-> OnMap(path[v])]
ShapeOnMap(parts) == [i \in DOMAIN parts |-> [j \in DOMAIN parts[i] |-> PathOnMap(parts[i][j])]]

CreateFeature(parts) ==
  LET feature == [type |-> Feature.type, parts |-> ShapeOnMap(parts), fields |-> Fields]
  IN  /\ dataset' = [dataset EXCEPT ![Layer.name] = Append(@, feature)]
      /\ IF featureIndex = Len(Layer.features)
           THEN pc' = "layer" /\ layerIndex' = layerIndex + 1 /\ featureIndex' = 1
           ELSE pc' = "read" /\ featureIndex' = featureIndex + 1 /\ UNCHANGED layerIndex
      /\ NewFeature
      /\ UNCHANGED <<database, tile>>

UnknownType ==
  /\ pc = "convert" /\ Feature.type = "UNKNOWN"
  /\ Fail

\* Only what was read since the last move is looked at.
ConvertPoints ==
  /\ pc = "convert" /\ Feature.type = "POINT"
  /\ CreateFeature([v \in DOMAIN vtPoly |-> << <<vtPoly[v]>> >>])

\* what CreateOGRGeometry and CreateOGRPolygon need to make a geometry
IsLine(line) == Len(line) >= 2
IsRing(ring) == Len(ring) >= 3

Lines == Append(vtPolys, vtPoly)

\* the lines, and the rings, that there is something to make of, in order
LinesIn(paths) == FlattenSeq([i \in DOMAIN paths |-> IF IsLine(paths[i]) THEN <<paths[i]>> ELSE <<>>])
RingsIn(paths) == FlattenSeq([i \in DOMAIN paths |-> IF IsRing(paths[i]) THEN <<paths[i]>> ELSE <<>>])

LinesFit == Len(Lines) > 1 => \A i \in DOMAIN Lines : IsLine(Lines[i])

ConvertLines ==
  /\ pc = "convert" /\ Feature.type = "LINESTRING"
  /\ LinesFit
  /\ LET lines == LinesIn(Lines)
     IN  CreateFeature([i \in DOMAIN lines |-> <<lines[i]>>])

\* One of several lines has no geometry, and NULL is added to the collection
AddNoLine ==
  /\ pc = "convert" /\ Feature.type = "LINESTRING"
  /\ ~LinesFit
  /\ pc' = "crashed"
  /\ UNCHANGED <<database, tile, position, reader, rings, dataset>>

-----------------------------------------------------------------------------
(* Rings are grouped into polygons.                                        *)

\* twice the area of a ring, by the surveyor's formula, with the sign that
\* ComputeArea gives it: in a tile, whose y axis points down, an exterior has a
\* negative one.
Area(ring) ==
  LET after(i) == ring[(i % Len(ring)) + 1]
      sum[i \in 0 .. Len(ring)] ==
        IF i = 0 THEN 0
        ELSE sum[i - 1] + ring[i][2] * after(i)[1] - ring[i][1] * after(i)[2]
  IN  sum[Len(ring)]

\* no polygon without an exterior; holes that are no rings are left out
CreateOGRPolygon(exterior, interior) ==
  IF IsRing(exterior)
    THEN << <<exterior>> \o RingsIn(interior) >>
    ELSE <<>>

\* the polygon whose exterior is polyStart and whose holes end at end
PolygonUntil(end) == CreateOGRPolygon(vtPolys[polyStart], SubSeq(vtPolys, polyStart + 1, end))

\* an unfinished ring is not looked at
BeginRings ==
  /\ pc = "convert" /\ Feature.type = "POLYGON"
  /\ pc' = "rings"
  /\ UNCHANGED <<database, tile, position, reader, rings, dataset>>

\* Mutant: the test of the area is the wrong way around.
StartsPolygonReversed == p > polyStart /\ Area(vtPolys[p]) > 0

StartsPolygon == p > polyStart /\ Area(vtPolys[p]) < 0

NextRing ==
  /\ pc = "rings" /\ p <= Len(vtPolys)
  /\ IF StartsPolygon
       THEN polygons' = polygons \o PolygonUntil(p - 1) /\ polyStart' = p
       ELSE UNCHANGED <<polygons, polyStart>>
  /\ p' = p + 1
  /\ UNCHANGED <<pc, database, tile, position, reader, dataset>>

ConvertPolygons ==
  /\ pc = "rings" /\ p > Len(vtPolys)
  /\ CreateFeature(IF polyStart <= Len(vtPolys) THEN polygons \o PolygonUntil(Len(vtPolys))
                                                ELSE polygons)

\* The dataset does not take the feature.
CreateFeatureFails ==
  /\ \/ pc = "convert" /\ Feature.type = "POINT"
     \/ pc = "convert" /\ Feature.type = "LINESTRING" /\ LinesFit
     \/ pc = "rings" /\ p > Len(vtPolys)
  /\ Fail

(***************************************************************************)
(* The caller has what it was given, and may ask for another tile.  To     *)
(* release emptyTile gives the reference back that Open had added.         *)
(***************************************************************************)
Release ==
  /\ pc \in Returned
  /\ pc' = "idle"
  /\ references' = IF pc = "emptyTile" THEN references - 1 ELSE references
  /\ tile' = <<>> /\ layerIndex' = 1 /\ featureIndex' = 1 /\ dataset' = <<>>
  /\ NewFeature /\ place' = <<0, 0, 0>>
  /\ UNCHANGED <<mbtiles, unpacked>>

\* VectorTiles is destroyed, and gives up its own reference to emptyTile.
Destroy ==
  /\ pc = "idle"
  /\ pc' = "destroyed"
  /\ mbtiles' = FALSE /\ references' = references - 1
  /\ UNCHANGED <<place, unpacked, tile, position, reader, rings, dataset>>

\* the steps of Open itself
Converting ==
  \/ NoTile \/ EmptyTile \/ OpenTile \/ InflateBlock \/ UnpackFails \/ ParseTile
  \/ BeginLayer \/ Converted
  \/ ReadNothing \/ ReadVertex \/ ReadBeyond \/ ReadClose \/ UnknownCommand
  \/ ReadTags \/ ReadTagsBeyond
  \/ UnknownType \/ CreateFeatureFails \/ ConvertPoints \/ ConvertLines \/ AddNoLine
  \/ BeginRings \/ NextRing \/ ConvertPolygons

Next == (\E at \in Places : Open(at)) \/ Converting \/ Release \/ Destroy

Spec == Init /\ [][Next]_vars

-----------------------------------------------------------------------------
(* Properties.                                                             *)

Ring == Seq(Int \X Int)

TypeOK ==
  /\ pc \in Returned \union {"idle", "open", "unpack", "layer", "read", "convert", "rings",
                             "beyond", "crashed", "destroyed"}
  /\ mbtiles \in BOOLEAN /\ references \in Nat
  /\ place \in Nat \X Nat \X Nat
  /\ unpacked \in 0 .. MaxBlocks
  /\ layerIndex \in 1 .. Len(tile) + 1
  /\ pc \in {"read", "convert", "rings"} =>
       /\ layerIndex <= Len(tile)
       /\ featureIndex \in 1 .. Len(Layer.features)
       /\ k \in 1 .. Len(Geometry) + 1
       /\ Layer.name \in DOMAIN dataset
  /\ cmd \in -1 .. 7 /\ length \in Nat
  /\ cursor \in Int \X Int
  /\ vtPoly \in Ring /\ vtPolys \in Seq(Ring)
  /\ p \in 1 .. Len(vtPolys) + 1 /\ polyStart \in 1 .. p
  /\ polygons \in Seq(Seq(Ring))

\* Besides the one VectorTiles has itself, there is one reference to emptyTile
\* exactly while a caller holds it: it is neither destroyed under the caller's
\* hands nor kept forever.
ReferencesCounted ==
  references = CASE pc = "emptyTile" -> 2 [] pc = "destroyed" -> 0 [] OTHER -> 1

\* While rings are grouped, the polygons made so far consist of the rings before
\* the last exterior, each of them once and in order: none is lost between two
\* polygons and none is in both.
RingsInOrder ==
  pc = "rings" /\ (\A i \in DOMAIN vtPolys : IsRing(vtPolys[i])) =>
    FlattenSeq(polygons) = SubSeq(vtPolys, 1, polyStart - 1)

\* the features of all layers with a name, each with the layer it is from
FeaturesNamed(name) ==
  FlattenSeq([l \in DOMAIN tile |->
    IF tile[l].name # name THEN <<>>
    ELSE [i \in DOMAIN tile[l].features |-> <<tile[l], tile[l].features[i]>>]])

\* A vertex of a layer on the map, by its distance from the south west corner.
Located(layer, vertex) ==
  LET scale == TileSize \div layer.extent
  IN  <<(place[2] * layer.extent + vertex[1]) * scale - MapWidth \div 2,
        ((place[3] + 1) * layer.extent - vertex[2]) * scale - MapWidth \div 2>>

ShapeOf(layer, shape) ==
  [i \in DOMAIN shape |-> [j \in DOMAIN shape[i] |->
     [v \in DOMAIN shape[i][j] |-> Located(layer, shape[i][j][v])]]]

\* What the features of a dataset have to do with those of the tile.
Kept(Same(_, _, _)) ==
  pc = "dataset" =>
    \A l \in DOMAIN tile :
      LET name == tile[l].name
          features == FeaturesNamed(name)
      IN  /\ name \in DOMAIN dataset
          /\ Len(dataset[name]) = Len(features)
          /\ \A i \in DOMAIN features :
               features[i][2].shape # NoShape =>
                 Same(features[i][1], features[i][2], dataset[name][i])

SameShape(layer, feature, made) ==
  feature.type # "POINT" => made.parts = ShapeOf(layer, feature.shape)
SamePoints(layer, feature, made) ==
  feature.type = "POINT" => made.parts = ShapeOf(layer, feature.shape)

\* a field tells the value of an attribute: a number as far as its width allows
Tells(field, value) ==
  \E kind \in DOMAIN value :
    CASE kind = "string"             -> field = <<"OFTString", value[kind]>>
      [] kind = "bool"               -> field = <<"OFTInteger", IF value[kind] THEN 1 ELSE 0>>
      [] kind \in {"float", "double"} -> field = <<"OFTReal", value[kind]>>
      [] OTHER -> /\ field[1] = "OFTInteger64"
                  /\ -2 * field[2] <= 2 ^ FieldBits /\ 2 * field[2] < 2 ^ FieldBits
                  /\ (field[2] - value[kind]) % 2 ^ FieldBits = 0
SameAttributes(layer, feature, made) ==
  /\ DOMAIN made.fields = DOMAIN feature.attributes
  /\ \A key \in DOMAIN made.fields : Tells(made.fields[key], feature.attributes[key])

\* A dataset that is returned has all the features of the tile, those of layers
\* with one name together and in order, and each that an encoder wrote has its own
\* shape, at its place on the map: the parts of lines and of polygons, every hole
\* in the polygon it was cut from.
ShapesKept == Kept(SameShape)

\* Every feature has the fields that its tags say, with the keys and the values of
\* its own layer.
AttributesKept == Kept(SameAttributes)

\* Water polygons, as layers/OSMSDF.cpp asserts of them: the area of an exterior
\* is not negative on the map, that of a hole not positive (the y axis is turned
\* around), if only the first polygon of the feature starts with an exterior.
Oriented ==
  \A name \in DOMAIN dataset : \A i \in DOMAIN dataset[name] :
    LET parts == dataset[name][i].parts
        polygonal == pc = "dataset" /\ FeaturesNamed(name)[i][2].type = "POLYGON"
    IN  polygonal /\ parts # <<>> /\ Area(parts[1][1]) >= 0 =>
          \A j \in DOMAIN parts :
            /\ Area(parts[j][1]) >= 0
            /\ \A n \in 2 .. Len(parts[j]) : Area(parts[j][n]) <= 0

\* The rings of a feature are grouped as the tile says.
RingsWellMade == RingsInOrder /\ Oriented

\* The numbers and tags that an encoder wrote are read to their end and no further,
\* and never make the conversion crash.
ReadsWhatIsThere ==
  pc \in {"beyond", "crashed"} => Feature.shape = NoShape

\* A dataset contains the points of the tile ("Returns a dataset containing the
\* requested vector tiles", VectorTiles.h).
PointsKept == Kept(SamePoints)
=============================================================================
