----------------------------- MODULE TileEncoding -----------------------------
(***************************************************************************)
(* What an encoder writes: the numbers that stand for a shape, and the     *)
(* tags that stand for attributes.  The encoder is no part of the program; *)
(* the tiles of a database whose shape and attributes are known are those  *)
(* that it wrote.                                                          *)
(***************************************************************************)
EXTENDS VectorTiles

ZigZag(n) == IF n < 0 THEN -2 * n - 1 ELSE 2 * n
Word(command, n) == command + 8 * n
Step(from, to) == <<ZigZag(to[1] - from[1]), ZigZag(to[2] - from[2])>>

\* one path: move from start to its first vertex, draw to the others, and end
Path(start, path, end) ==
  <<Word(SEG_MOVETO, 1)>> \o Step(start, path[1])
    \o <<Word(SEG_LINETO, Len(path) - 1)>>
    \o FlattenSeq([i \in 1 .. Len(path) - 1 |-> Step(path[i], path[i + 1])]) \o end

\* where each of the paths starts from: where the one before it ended
StartOf(paths, j) == IF j = 1 THEN <<0, 0>> ELSE Last(paths[j - 1])

Paths(paths, end) ==
  FlattenSeq([j \in DOMAIN paths |-> Path(StartOf(paths, j), paths[j], end)])

PathEnd(type) == IF type = "POLYGON" THEN <<Word(SEG_CLOSE, 1)>> ELSE <<>>

\* points: one move to all of them
PointSteps(shape) ==
  LET point(i) == IF i = 0 THEN <<0, 0>> ELSE shape[i][1][1]
  IN  <<Word(SEG_MOVETO, Len(shape))>>
        \o FlattenSeq([i \in DOMAIN shape |-> Step(point(i - 1), point(i))])

(***************************************************************************)
(* A shape is no shape, or has at least one part.  The parts of a polygon  *)
(* are its exterior, which goes around the one way, and holes, which do    *)
(* not; a line is one path, and a point a path of one vertex.              *)
(***************************************************************************)
PolygonPart(part) ==
  /\ part # <<>> /\ \A i \in DOMAIN part : IsRing(part[i])
  /\ Area(part[1]) < 0 /\ \A i \in DOMAIN part \ {1} : Area(part[i]) >= 0
LinePart(part) == Len(part) = 1 /\ IsLine(part[1])
PointPart(part) == Len(part) = 1 /\ Len(part[1]) = 1

Encoded(feature) ==
  LET shape == feature.shape
  IN  /\ shape \in Seq(Seq(Ring))
      /\ feature.type \in {"POINT", "LINESTRING", "POLYGON"}
      /\ \A i \in DOMAIN shape :
           CASE feature.type = "POLYGON"    -> PolygonPart(shape[i])
             [] feature.type = "LINESTRING" -> LinePart(shape[i])
             [] feature.type = "POINT"      -> PointPart(shape[i])
      /\ feature.geometry = IF feature.type = "POINT" THEN PointSteps(shape)
                            ELSE Paths(FlattenSeq(shape), PathEnd(feature.type))

(***************************************************************************)
(* Tags are pairs of indexes, of a key and a value of the layer.  No key   *)
(* occurs twice, and a value has one kind; if it has several, the first    *)
(* one is the attribute, and if it has none, it is no attribute.           *)
(***************************************************************************)
KeyOf(layer, feature, t) == layer.keys[feature.tags[2 * t - 1] + 1]
ValueOf(layer, feature, t) == layer.values[feature.tags[2 * t] + 1]

ValueFits(value) ==
  /\ DOMAIN value \subseteq Range(Kinds)
  /\ \A kind \in DOMAIN value \intersect {"int", "sint"} :
       value[kind] \in -(2 ^ (FieldBits - 1)) .. 2 ^ (FieldBits - 1) - 1
  /\ "uint" \in DOMAIN value => value["uint"] \in 0 .. 2 ^ FieldBits - 1
  /\ "bool" \in DOMAIN value => value["bool"] \in BOOLEAN

Tagged(layer, feature) ==
  LET pairs == 1 .. Len(feature.tags) \div 2
      told == {t \in pairs : KindOf(ValueOf(layer, feature, t)) # "none"}
  IN  /\ Len(feature.tags) % 2 = 0
      /\ \A t \in pairs :
           /\ feature.tags[2 * t - 1] < Len(layer.keys) /\ feature.tags[2 * t] < Len(layer.values)
           /\ ValueFits(ValueOf(layer, feature, t))
      /\ \A t \in told : \A u \in told \ {t} : KeyOf(layer, feature, t) # KeyOf(layer, feature, u)
      /\ DOMAIN feature.attributes = {KeyOf(layer, feature, t) : t \in told}
      /\ \A t \in told :
           LET value == ValueOf(layer, feature, t)
           IN  feature.attributes[KeyOf(layer, feature, t)] = [kind \in {KindOf(value)} |-> value[kind]]

\* A field has twice as many values as one that is a bit narrower.
ASSUME EncodedAssumption ==
  /\ 2 ^ (FieldBits - 1) \in Nat \ {0} /\ 2 ^ FieldBits = 2 * 2 ^ (FieldBits - 1)
  /\ \A at \in Places : \A t \in Tiles[at] : \A l \in DOMAIN t : \A i \in DOMAIN t[l].features :
       t[l].features[i].shape # NoShape =>
         Encoded(t[l].features[i]) /\ Tagged(t[l], t[l].features[i])
=============================================================================
