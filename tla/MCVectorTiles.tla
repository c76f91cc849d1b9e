---------------------------- MODULE MCVectorTiles ----------------------------
(* Instances of VectorTiles for TLC: tiles as an encoder writes them, and a *)
(* few that none would.                                                     *)
EXTENDS TileEncoding

NoTags == <<>>

Plain(type, shape, geometry) ==
  [type |-> type, shape |-> shape, geometry |-> geometry, tags |-> NoTags, attributes |-> NoTags]

Polygons(shape) == Plain("POLYGON", shape, Paths(FlattenSeq(shape), PathEnd("POLYGON")))
LineString(shape) == Plain("LINESTRING", shape, Paths(FlattenSeq(shape), <<>>))
Points(shape) == Plain("POINT", shape, PointSteps(shape))

Strange(type, geometry) == Plain(type, NoShape, geometry)

\* the keys and values of every layer, and features with tags that refer to them
Keys == <<"class", "level", "salt">>
Values == <<[string |-> "lake"], [uint |-> 3], [uint |-> 5], [sint |-> -4], [bool |-> TRUE],
            [float |-> 2], [double |-> 3], [int |-> -1], [string |-> "sea", int |-> 1], <<>>,
            [bool |-> FALSE]>>

WithPairs(feature, tags, attributes) == [feature EXCEPT !.tags = tags, !.attributes = attributes]
\* one pair of tags, or two of them
WithTags(feature) ==
  {WithPairs(feature, <<1, v - 1>>, "level" :> Values[v]) : v \in DOMAIN Values \ {9, 10}}
    \union {WithPairs(feature, <<2, 4, 0, v - 1>>, ("salt" :> Values[5]) @@ ("class" :> Values[v])) :
              v \in DOMAIN Values \ {9, 10}}
    \union {WithPairs(feature, <<0, 8>>, "class" :> [string |-> "sea"]), WithPairs(feature, <<0, 9>>, <<>>)}
\* a key without value, and indexes behind the last key and the last value
StrangeTags(feature) ==
  {[feature EXCEPT !.shape = NoShape, !.tags = tags] : tags \in {<<0>>, <<3, 0>>, <<0, 11>>, <<1, 3, 1, 0>>}}

\* two exteriors, and three holes of which one has no area
Square == <<<<0, 0>>, <<4, 0>>, <<4, 4>>, <<0, 4>>>>
Triangle == <<<<5, 1>>, <<6, 6>>, <<3, 6>>>>
Hole == <<<<1, 1>>, <<2, 2>>, <<2, 1>>>>
Other == <<<<3, 1>>, <<2, 2>>, <<3, 2>>>>
Thin == <<<<1, 2>>, <<2, 3>>, <<3, 4>>>>

Sequences(set, least, most) == UNION {[1 .. n -> set] : n \in least .. most}

Interiors == Sequences({Hole, Thin}, 0, 2) \union {<<Other, Hole, Thin>>}
Polygon == {<<exterior>> \o interior : exterior \in {Square, Triangle}, interior \in Interiors}
LineParts == {<<line>> : line \in {<<<<0, 0>>, <<2, 1>>>>, Triangle, Square}}
PointParts == {<< <<point>> >> : point \in {<<0, 0>>, <<2, 1>>, <<1, 1>>}}

Shapes ==
  {Polygons(shape) : shape \in Sequences(Polygon, 1, 2)}
    \union {Polygons(shape) : shape \in Sequences({<<Square>>, <<Square, Hole>>}, 3, 3)}
    \union {LineString(shape) : shape \in Sequences(LineParts, 1, 3)}
    \union {Points(shape) : shape \in Sequences(PointParts, 1, 1)}

MultiPoints == {Points(shape) : shape \in Sequences(PointParts, 2, 3)}

\* a ring that is not closed, a ring of two points, a first ring that is a hole,
\* closing twice, counts of zero and beyond the end, an unknown command, no
\* geometry at all, and a line of a single point among others
Unclosed == Paths(<<Square>>, <<>>)
Malformed ==
  {Strange(type, geometry) :
     type \in {"POLYGON", "LINESTRING", "POINT"},
     geometry \in {<<>>, Unclosed, Unclosed \o <<15, 9, 2, 2, 15>>, Unclosed \o <<23>>,
                   Paths(<<Hole, Square, Hole>>, <<15>>),
                   Paths(<<<<<<0, 0>>, <<1, 1>>>>, Square, Triangle>>, <<15>>),
                   <<1, 9, 2, 2>>, <<9, 2, 2, 26, 1, 1>>, <<9, 2>>, <<12, 0>>,
                   Paths(<<Triangle>>, <<>>) \o <<9, 1, 1>>}}

Lake == Polygons(<<<<Square, Hole>>>>)
Few == {Lake, LineString(<< <<Triangle>> >>), Strange("UNKNOWN", <<9, 2, 2>>), Strange("POLYGON", <<12, 0>>)}

Water(extent, features) ==
  <<[name |-> "water", extent |-> extent, keys |-> Keys, values |-> Values, features |-> features]>>
Road(features) ==
  <<[name |-> "road", extent |-> 16, keys |-> Keys, values |-> Values, features |-> features]>>
Alone(features, extent) == {Water(extent, <<feature>>) : feature \in features}

\* several layers: two with one name, of different extents, one without features
\* between them, and one that fails after others did not
SomeLayers ==
  {Water(8, <<Lake>>) \o Road(<<LineString(<< <<Triangle>> >>)>>),
   Road(<<>>) \o Water(16, <<Lake, Polygons(<< <<Triangle>> >>)>>) \o Road(<<>>),
   Water(8, <<Lake>>) \o Road(<<Lake>>) \o Water(16, <<Polygons(<< <<Triangle>> >>), Lake>>),
   Water(8, <<Lake>>) \o Road(<<Strange("UNKNOWN", <<9, 2, 2>>)>>),
   Road(<<Polygons(<<<<Square>>>>)>>)}

SomeTiles ==
  {<<>>, Water(8, <<>>)} \union Alone(Shapes \union Malformed, 8)
    \union Alone(WithTags(Lake) \union StrangeTags(Lake), 16)
    \union {Water(8, features) : features \in [1 .. 2 -> Few] \union [1 .. 3 -> {Lake, LineString(<< <<Triangle>> >>)}]}
    \union SomeLayers
OneTile == <<0, 0, 0>> :> (SomeTiles \union Alone(MultiPoints, 8))
=============================================================================
