---------------------------- MODULE MCTileCache -----------------------------
(* Small instances of TileCache for TLC. *)
EXTENDS TileCache

\* Two rows of two columns under one mip tile; one source tile has no data.
SparseValid == {<<1, 0, 0>>, <<1, 1, 0>>, <<1, 1, 1>>}

\* A first row without any data: two iterations use emptyTile.
HalfValid == {<<1, 0, 1>>, <<1, 1, 1>>}

\* Three levels; the last quadrant has no data at all.
QuadrantValid == {t \in SourceTile : t[2] < 2 \/ t[3] < 2}
=============================================================================
