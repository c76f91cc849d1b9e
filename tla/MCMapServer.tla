----------------------------- MODULE MCMapServer -----------------------------
(* Instances of MapServer for TLC.                                         *)
EXTENDS MapServer, TLC

CONSTANTS h1, h2

MapLayers == {"CircleTest", "OSM_SDF", "QualityElevation"}
Caches == {"TileCache"}
LayerFormats ==
  [l \in MapLayers \union Caches |->
     CASE l = "CircleTest" -> <<"RGBA8">>
       [] l = "OSM_SDF" -> <<"U8">>
       [] l = "QualityElevation" -> <<"U8", "S16">>
       [] l = "TileCache" -> <<"S16">>]

ContentTypes == {"Unknown", "PNG", "S16", "U8", "U32", "F32", "F64", "Elevation"}

Map(layer, format) ==
  [service |-> "WMS", request |-> "GetMap", complete |-> TRUE, readable |-> TRUE,
   layer |-> layer, format |-> format, width |-> 1, height |-> 1, bbox |-> "ok"]
Tile(layer, format) == [Map(layer, format) EXCEPT !.service = "WMTS", !.request = "GetTile"]

\* every layer in every format, and every other way to get a request wrong
Maps == {Map(l, f) : l \in MapLayers, f \in ContentTypes}
Tiles == {Tile("TileCache", f) : f \in ContentTypes}
Wrong(r) ==
  {[r EXCEPT !.service = "WCS"], [r EXCEPT !.request = "GetCapabilities"],
   [r EXCEPT !.request = "GetFeatureInfo"], [r EXCEPT !.complete = FALSE],
   [r EXCEPT !.readable = FALSE], [r EXCEPT !.layer = "NoLayer"]}
    \union {[r EXCEPT !.width = w, !.height = v, !.bbox = b] :
              w \in {-1, 0, 1}, v \in {0, 1}, b \in {"ok", "malformed", "unreadable"}}

\* Sizes around the ends of an int of eight bits: the pixels fit, but not the bytes; the
\* number of pixels wraps to less than nothing, to nothing and to less than it is.
Sizes == {<<5, 6>>, <<7, 5>>, <<10, 10>>, <<12, 12>>, <<16, 16>>, <<20, 16>>, <<-12, 12>>,
          <<-1, -1>>, <<127, 127>>}
Large(r) == {[r EXCEPT !.width = size[1], !.height = size[2]] : size \in Sizes}

EveryRequest ==
  Large(Map("QualityElevation", "PNG")) \union Maps \union Tiles \union Wrong(Map("QualityElevation", "PNG"))
       \union Wrong(Tile("TileCache", "Elevation"))

FewRequests ==
  {Map("QualityElevation", "Elevation"), Tile("TileCache", "Elevation"),
   [Map("OSM_SDF", "PNG") EXCEPT !.service = "WCS"]}

\* one thread is given anything, while another is busy with something ordinary
Given == h1 :> EveryRequest @@ h2 :> FewRequests
=============================================================================
