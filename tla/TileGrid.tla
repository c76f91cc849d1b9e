------------------------------ MODULE TileGrid ------------------------------
(***************************************************************************)
(* The geometry of the tile pyramid of src/layers/TileCache.cpp.           *)
(*                                                                         *)
(* Level NumLevels-1 ("level 0" of the comments in the code) has           *)
(* NumTilesX x NumTilesY tiles, which are fetched from the source layer;   *)
(* every lower level halves both dimensions, and each of its tiles is      *)
(* built from four tiles of the level above it in resolution.              *)
(***************************************************************************)
EXTENDS Integers

CONSTANTS NumTilesX, NumTilesY, NumLevels

Top == NumLevels - 1

Levels == 0 .. Top

\* numTilesX >> (numLevels - level - 1)
TilesX(l) == NumTilesX \div (2 ^ (Top - l))
TilesY(l) == NumTilesY \div (2 ^ (Top - l))

(***************************************************************************)
(* ReadConfig makes both dimensions powers of two and takes one level more *)
(* than the smaller of their logarithms, so that a level always has        *)
(* exactly twice the columns and rows of the next coarser one.             *)
(***************************************************************************)
ASSUME GridAssumption ==
  /\ NumLevels \in Nat \ {0}
  /\ NumTilesX \in Nat \ {0}
  /\ NumTilesY \in Nat \ {0}
  /\ \A l \in Levels : /\ TilesX(l) \in 1 .. NumTilesX
                       /\ TilesY(l) \in 1 .. NumTilesY
  /\ TilesX(Top) = NumTilesX
  /\ TilesY(Top) = NumTilesY
  /\ \A l \in Levels \ {Top} : /\ TilesX(l + 1) = 2 * TilesX(l)
                               /\ TilesY(l + 1) = 2 * TilesY(l)

\* What shifting by one more bit does, of which the provers know nothing.
ASSUME PowersAssumption ==
  \A n \in Levels : 2 ^ n \in Nat \ {0} /\ 2 ^ (n + 1) = 2 * 2 ^ n

\* A tile is <<level, x, y>>.
Tile == {t \in Levels \X (0 .. NumTilesX - 1) \X (0 .. NumTilesY - 1) :
           t[2] < TilesX(t[1]) /\ t[3] < TilesY(t[1])}

SourceTile == {t \in Tile : t[1] = Top}

\* The sub-tile visited with sx = i % 2, sy = i / 2.
SubTile(t, i) == <<t[1] + 1, 2 * t[2] + (i % 2), 2 * t[3] + (i \div 2)>>

SubTiles(t) == IF t[1] = Top THEN {} ELSE {SubTile(t, i) : i \in 0 .. 3}

\* The order in which the nested level, row and column loops visit the tiles.
Before(s, t) ==
  \/ s[1] > t[1]
  \/ s[1] = t[1] /\ s[3] < t[3]
  \/ s[1] = t[1] /\ s[3] = t[3] /\ s[2] < t[2]

IsLastOfLevel(t) == t[2] = TilesX(t[1]) - 1 /\ t[3] = TilesY(t[1]) - 1

IsLastTile(t) == t[1] = 0 /\ IsLastOfLevel(t)

NextTile(t) ==
  IF t[2] < TilesX(t[1]) - 1 THEN <<t[1], t[2] + 1, t[3]>>
  ELSE IF t[3] < TilesY(t[1]) - 1 THEN <<t[1], 0, t[3] + 1>>
  ELSE <<t[1] - 1, 0, 0>>

\* All tiles of the pyramid that t covers, t itself included.
Under(t) == {u \in Tile : /\ u[1] >= t[1]
                          /\ u[2] \div (2 ^ (u[1] - t[1])) = t[2]
                          /\ u[3] \div (2 ^ (u[1] - t[1])) = t[3]}
=============================================================================
