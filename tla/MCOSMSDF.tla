------------------------------- MODULE MCOSMSDF -------------------------------
(* An instance of OSMSDF for TLC: the whole map is one tile of any kind, or *)
(* four tiles of a few kinds.                                               *)
EXTENDS MCVectorTiles, OSMSDF

MCConfigs == {<<"CRS:84", OSM>>, <<"CRS:84">>}
MCOffset == ("CRS:84" :> <<3, -2>>) @@ (OSM :> <<0, 0>>)

Request(crs, dataType, minX, maxX, minY, maxY, width, height) ==
  [crs |-> crs, dataType |-> dataType, width |-> width, height |-> height,
   bbox |-> [minX |-> minX, minY |-> minY, maxX |-> maxX, maxY |-> maxY]]

\* Level 0: the map, and a part of it in another reference system.  Level 1: boxes over four, two and one of the tiles,
\* one that reaches beyond the map and one that is beyond it.  A box too large for
\* its pixels, and one that is flat.
MCRequests ==
  {Request(OSM, "DT_U8", -16, 16, -16, 16, 2, 2),
   Request("CRS:84", "DT_U8", -13, 19, -2, 14, 2, 1),
   Request(OSM, "DT_U8", -4, 4, -4, 4, 1, 1),
   Request("CRS:84", "DT_U8", -5, 5, 1, 5, 1, 1),
   Request(OSM, "DT_U8", -20, -4, -16, 0, 2, 2),
   Request(OSM, "DT_U8", 16, 24, 0, 8, 1, 1),
   Request(OSM, "DT_U8", -16, 16, -16, 16, 1, 1),
   Request(OSM, "DT_U8", 0, 0, 0, 8, 1, 1),
   Request(OSM, "DT_S16", 0, 8, 0, 8, 1, 1),
   Request("EPSG:4326", "DT_U8", 0, 8, 0, 8, 1, 1)}

FewTiles == {Water(8, <<Lake>>), Road(<<>>) \o Water(16, <<Polygons(<< <<Triangle>>, <<Square>> >>)>>)}

MCTiles == (<<0, 0, 0>> :> SomeTiles) @@ [at \in {1} \X (0 .. 1) \X (0 .. 1) |-> FewTiles]
=============================================================================
