---------------------------- MODULE MCAsterTiles ----------------------------
(* An instance of AsterTiles for TLC: a globe of six tiles of eight pixels. *)
EXTENDS AsterTiles

\* five rows of tiles; a sea without tiles, and a tile missing on the border
Land ==
  {<<x, y>> : x \in -3 .. 2, y \in -2 .. 2} \ {<<-3, 1>>, <<0, 0>>, <<0, 1>>, <<1, 0>>}

Axes == {[extent |-> e, n |-> k] : e \in {1, 8, 11, 13, 32, 66}, k \in {1, 2, 3, 7}}

Box(west, south, a, b) ==
  [west |-> west, width |-> a.extent, columns |-> a.n,
   south |-> south, height |-> b.extent, rows |-> b.n,
   knownCRS |-> TRUE, dataType |-> "S16"]

Small == [extent |-> 8, n |-> 3]

\* every position and size around the globe, and from south to north
Around == {Box(west, 6, a, Small) : west \in -96 .. 95, a \in Axes}
Across == {Box(-90, south, Small, a) : south \in -88 .. 104, a \in Axes}
Refused ==
  {[Box(0, 0, Small, Small) EXCEPT !.knownCRS = FALSE],
   [Box(0, 0, Small, Small) EXCEPT !.dataType = "U32"]}

SomeRequests == {r \in Around \union Across : OnGlobe(r)} \union Refused
=============================================================================
