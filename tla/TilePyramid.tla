---------------------------- MODULE TilePyramid -----------------------------
(***************************************************************************)
(* What the tile cache promises of its storage directory, whatever happens *)
(* to the process: files only ever appear, one tile at a time, and a tile  *)
(* of a coarser level appears only when the four tiles it is made of have  *)
(* already appeared.  src/layers/TileCache.cpp relies on this when it      *)
(* rebuilds its table of file states from the directory at the next start. *)
(***************************************************************************)
EXTENDS TileGrid

VARIABLE built

Init == built = {}

Build(t) ==
  /\ t \notin built
  /\ SubTiles(t) \subseteq built
  /\ built' = built \cup {t}

Next == \E t \in Tile : Build(t)

Spec == Init /\ [][Next]_built

\* The pyramid grows until it is complete.
Fairness == WF_built(Next)

TypeOK == built \subseteq Tile

\* No tile without the tiles it was sampled from.
Grounded == \A t \in built : SubTiles(t) \subseteq built
=============================================================================
