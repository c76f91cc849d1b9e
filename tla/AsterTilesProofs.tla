-------------------------- MODULE AsterTilesProofs --------------------------
(***************************************************************************)
(* Proofs about AsterTiles, for globes and tiles of every size, every set  *)
(* of tiles on the disk and every request on the globe.                    *)
(***************************************************************************)
EXTENDS AsterTiles, SequenceElements, FiniteSetTheorems, TLAPS

-----------------------------------------------------------------------------
(* Division                                                                *)

LEMMA Division ==
  ASSUME NEW a \in Int, NEW d \in Nat \ {0}
  PROVE  /\ a \div d \in Int /\ a % d \in 0 .. d - 1
         /\ a = d * (a \div d) + (a % d)
PROOF OBVIOUS

\* The quotient is the only number of its kind.
LEMMA Quotient ==
  ASSUME NEW a \in Int, NEW d \in Nat \ {0}, NEW q \in Int, NEW r \in 0 .. d - 1,
         a = q * d + r
  PROVE  a \div d = q /\ a % d = r
PROOF OBVIOUS

LEMMA ProductOrder ==
  ASSUME NEW a \in Int, NEW b \in Int, NEW c \in Nat, a <= b
  PROVE  a * c <= b * c /\ a * c \in Int /\ b * c \in Int
PROOF OBVIOUS

LEMMA ProductStrict ==
  ASSUME NEW a \in Int, NEW b \in Int, NEW c \in Nat \ {0}
  PROVE  a * c < b * c <=> a < b
PROOF OBVIOUS

\* Where a quotient lies.
LEMMA QuotientAtLeast ==
  ASSUME NEW a \in Int, NEW d \in Nat \ {0}, NEW q \in Int
  PROVE  q <= a \div d <=> q * d <= a
PROOF OBVIOUS

LEMMA QuotientAtMost ==
  ASSUME NEW a \in Int, NEW d \in Nat \ {0}, NEW q \in Int
  PROVE  a \div d <= q <=> a < (q + 1) * d
PROOF OBVIOUS

\* The remainder does not change when a multiple is added.
LEMMA Wrapping ==
  ASSUME NEW a \in Int, NEW d \in Nat \ {0}, NEW q \in Int
  PROVE  (a + q * d) % d = a % d
PROOF
  <1>1. a = d * (a \div d) + (a % d) /\ a \div d \in Int /\ a % d \in 0 .. d - 1
    BY Division
  <1> DEFINE m == a \div d
             r == a % d
  <1>2. a + q * d = (m + q) * d + r /\ m + q \in Int /\ a + q * d \in Int
    <2>1. m \in Int /\ r \in Int /\ a = d * m + r
      BY <1>1
    <2> HIDE DEF m, r
    <2> QED BY <2>1
  <1> QED BY <1>1, <1>2, Quotient

-----------------------------------------------------------------------------
(* One axis of a request                                                   *)

Axis == [min: Int, extent: Nat, n: Nat \ {0}]

LEMMA AxesOfRequest ==
  ASSUME NEW r \in Requests
  PROVE  X(r) \in Axis /\ Y(r) \in Axis
PROOF BY AsterAssumption DEF X, Y, Axis, Request

LEMMA AxisUnits ==
  ASSUME NEW a \in Axis
  PROVE  /\ Pixel(a) \in Nat \ {0} /\ Degree(a) \in Nat \ {0}
         /\ Padding(a) \in Nat \ {0} /\ Low(a) \in Int /\ High(a) \in Int
         /\ Low(a) < High(a)
PROOF
  <1>1. /\ a.min \in Int /\ a.extent \in Nat /\ a.n \in Nat \ {0}
        /\ Sub \in Nat \ {0} /\ AsterPixelsPerDegree \in Nat \ {0}
    BY AsterAssumption DEF Axis
  <1>2. Pixel(a) \in Nat \ {0}
    BY <1>1 DEF Pixel
  <1>3. Degree(a) \in Nat \ {0}
    BY <1>1, <1>2 DEF Degree
  <1>4. Padding(a) \in Nat \ {0}
    BY <1>1, <1>2 DEF Padding, Bigger, LanczosWindowSize
  <1>5. a.min * a.n \in Int /\ (a.min + a.extent) * a.n \in Int
        /\ a.min * a.n <= (a.min + a.extent) * a.n
    BY <1>1, ProductOrder
  <1> QED BY <1>2, <1>3, <1>4, <1>5 DEF Low, High

\* The tiles an axis touches, in units.
LEMMA AxisTiles ==
  ASSUME NEW a \in Axis
  PROVE  /\ First(a) \in Int /\ Last(a) \in Int /\ First(a) <= Last(a)
         /\ First(a) * Degree(a) <= Low(a) /\ Low(a) < (First(a) + 1) * Degree(a)
         /\ High(a) <= (Last(a) + 1) * Degree(a)
         /\ Num(a) \in Nat \ {0} /\ Last(a) = First(a) + Num(a) - 1
         /\ \A z \in Int : z \in First(a) .. Last(a) <=>
              z * Degree(a) < High(a) /\ (z + 1) * Degree(a) > Low(a)
PROOF
  <1> DEFINE d == Degree(a)
             l == Low(a)
             h == High(a)
             f == First(a)
             e == Last(a)
  <1>1. d \in Nat \ {0} /\ l \in Int /\ h \in Int /\ l < h
    BY AxisUnits
  <1>2. f = l \div d /\ e = (h - 1) \div d
    BY DEF First, Last
  <1> HIDE DEF d, l, h, f, e
  <1>3. f \in Int /\ e \in Int
    BY <1>1, <1>2
  <1>4. f * d <= l /\ l < (f + 1) * d /\ e * d <= h - 1 /\ h - 1 < (e + 1) * d
    BY <1>1, <1>2, <1>3, QuotientAtLeast, QuotientAtMost
  <1>5. f <= e
    <2>1. f * d <= h - 1
      <3>1. f * d \in Int
        BY <1>1, <1>3
      <3> QED BY <1>1, <1>4, <3>1
    <2> QED BY <1>1, <1>2, <1>3, <2>1, QuotientAtLeast
  <1>6. h <= (e + 1) * d
    <2>1. (e + 1) * d \in Int
      BY <1>1, <1>3
    <2> QED BY <1>1, <1>4, <2>1
  <1>7. ASSUME NEW z \in Int
        PROVE  z \in f .. e <=> z * d < h /\ (z + 1) * d > l
    <2>1. z <= e <=> z * d <= h - 1
      BY <1>1, <1>2, QuotientAtLeast
    <2>2. f <= z <=> l < (z + 1) * d
      BY <1>1, <1>2, QuotientAtMost
    <2>3. z * d \in Int /\ (z + 1) * d \in Int
      BY <1>1
    <2> QED BY <1>1, <1>3, <2>1, <2>2, <2>3
  <1>8. Num(a) = e - f + 1
    BY DEF Num, e, f
  <1>9. Num(a) \in Nat \ {0} /\ e = f + Num(a) - 1
    BY <1>3, <1>5, <1>8
  <1> QED BY <1>3, <1>4, <1>5, <1>6, <1>7, <1>9 DEF d, l, h, f, e

-----------------------------------------------------------------------------
(* The table of tiles                                                      *)

LEMMA GlobeSize ==
  /\ NumASTERTilesX \in Nat /\ NumASTERTilesX >= 4
  /\ AsterTileStartLongitude \in Int
  /\ NumASTERTilesX = -2 * AsterTileStartLongitude
  /\ AsterTileEndLongitude = -AsterTileStartLongitude - 1
PROOF
  <1>1. NumASTERTilesX \in Nat \ {0} /\ NumASTERTilesX % 2 = 0 /\ NumASTERTilesX >= 4
    BY AsterAssumption DEF MaxNumAsterTiles
  <1> QED BY <1>1 DEF AsterTileStartLongitude, AsterTileEndLongitude

\* The rows of the table, and that there are some.
LEMMA TableRows ==
  /\ asterTileStartLatitude \in Int /\ asterTileEndLatitude \in Int
  /\ asterTileStartLatitude <= asterTileEndLatitude
  /\ \A tile \in Tiles : /\ tile[1] \in AsterTileStartLongitude .. AsterTileEndLongitude
                         /\ tile[2] \in asterTileStartLatitude .. asterTileEndLatitude
                         /\ tile = <<tile[1], tile[2]>>
PROOF
  <1>1. /\ Latitudes \subseteq -90 .. 89 /\ Latitudes # {}
        /\ \A tile \in Tiles : /\ tile[1] \in AsterTileStartLongitude .. AsterTileEndLongitude
                               /\ tile[2] \in Latitudes /\ tile = <<tile[1], tile[2]>>
    BY AsterAssumption DEF Latitudes
  <1>2. \E i \in Latitudes : \A j \in Latitudes : i <= j
    <2> DEFINE T == {n \in Nat : n - 90 \in Latitudes}
    <2>1. \A j \in Latitudes : j + 90 \in T
      BY <1>1
    <2>2. PICK m \in T : \A j \in T : m <= j
      <3>1. T \subseteq Nat /\ T # {}
        BY <1>1, <2>1
      <3> HIDE DEF T
      <3> QED BY <3>1, HasFirst
    <2>3. m - 90 \in Latitudes /\ m \in Nat
      BY <2>2
    <2>4. ASSUME NEW j \in Latitudes
          PROVE  m - 90 <= j
      <3>1. j \in Int /\ m <= j + 90
        BY <1>1, <2>1, <2>2
      <3> QED BY <2>3, <3>1
    <2> QED BY <2>3, <2>4
  <1>3. \E i \in Latitudes : \A j \in Latitudes : i >= j
    <2> DEFINE T == {n \in Nat : 89 - n \in Latitudes}
    <2>1. \A j \in Latitudes : 89 - j \in T
      BY <1>1
    <2>2. PICK m \in T : \A j \in T : m <= j
      <3>1. T \subseteq Nat /\ T # {}
        BY <1>1, <2>1
      <3> HIDE DEF T
      <3> QED BY <3>1, HasFirst
    <2>3. 89 - m \in Latitudes /\ m \in Nat
      BY <2>2
    <2>4. ASSUME NEW j \in Latitudes
          PROVE  89 - m >= j
      <3>1. j \in Int /\ m <= 89 - j
        BY <1>1, <2>1, <2>2
      <3> QED BY <2>3, <3>1
    <2> QED BY <2>3, <2>4
  <1>4. /\ asterTileStartLatitude \in Latitudes
        /\ \A j \in Latitudes : asterTileStartLatitude <= j
    BY <1>2 DEF asterTileStartLatitude
  <1>5. /\ asterTileEndLatitude \in Latitudes
        /\ \A j \in Latitudes : asterTileEndLatitude >= j
    BY <1>3 DEF asterTileEndLatitude
  <1> QED BY <1>1, <1>4, <1>5

\* The tile at a place, whose column may lie on another turn of the globe.
TileAt(x, y) ==
  <<AsterTileStartLongitude + ((x + NumASTERTilesX) % NumASTERTilesX),
    asterTileStartLatitude + y>>

\* the tile GatherTile looks at
Looked(x, y) ==
  asterTiles(y * NumASTERTilesX + ((x + NumASTERTilesX) % NumASTERTilesX))

LEMMA TableHolds ==
  ASSUME NEW x \in Int, NEW y \in 0 .. asterTileEndLatitude - asterTileStartLatitude
  PROVE  /\ Looked(x, y) = TileAt(x, y)
         /\ TileAt(x, y) \in Missing <=> TileAt(x, y) \notin Tiles
PROOF
  <1> DEFINE n == NumASTERTilesX
             c == (x + n) % n
             h == asterTileEndLatitude - asterTileStartLatitude + 1
  <1>1. n \in Nat \ {0} /\ h \in Nat \ {0} /\ y \in 0 .. h - 1 /\ y \in Int
    BY GlobeSize, TableRows
  <1>2. c \in 0 .. n - 1
    BY <1>1, Division
  <1>3. (y * n + c) \div n = y /\ (y * n + c) % n = c
    <2> HIDE DEF n, c, h
    <2>1. y * n + c \in Int
      BY <1>1, <1>2
    <2> QED BY <1>1, <1>2, <2>1, Quotient
  <1>4. y * n + c \in 0 .. n * h - 1
    <2> HIDE DEF n, c, h
    <2>1. (y + 1) * n <= h * n /\ y * n \in Nat /\ (y + 1) * n = y * n + n
          /\ h * n \in Int /\ h * n = n * h
      BY <1>1, ProductOrder
    <2> QED BY <1>1, <1>2, <2>1
  <1>5. Looked(x, y) = TileAt(x, y)
    BY <1>3, <1>4 DEF Looked, asterTiles, TileAt
  <1>6. /\ AsterTileStartLongitude + c \in AsterTileStartLongitude .. AsterTileEndLongitude
        /\ asterTileStartLatitude + y \in asterTileStartLatitude .. asterTileEndLatitude
    BY <1>1, <1>2, GlobeSize, TableRows
  <1> QED BY <1>5, <1>6 DEF Missing, TileAt

\* Columns less than a globe apart have tiles of their own.
LEMMA TilesDiffer ==
  ASSUME NEW x \in Int, NEW y \in Int, NEW u \in Int, NEW v \in Int,
         x - u < NumASTERTilesX, u - x < NumASTERTilesX,
         TileAt(x, y) = TileAt(u, v)
  PROVE  x = u /\ y = v
PROOF
  <1> DEFINE n == NumASTERTilesX
             c == (x + n) % n
             d == (u + n) % n
  <1>1. n \in Nat \ {0} /\ AsterTileStartLongitude \in Int /\ asterTileStartLatitude \in Int
    BY GlobeSize, TableRows
  <1>2. c \in Int /\ d \in Int
    BY <1>1, Division
  <1>3. AsterTileStartLongitude + c = AsterTileStartLongitude + d
        /\ asterTileStartLatitude + y = asterTileStartLatitude + v
    BY DEF TileAt
  <1>4. c = d /\ y = v
    <2> HIDE DEF c, d
    <2> QED BY <1>1, <1>2, <1>3
  <1>5. PICK p \in Int, q \in Int : x + n = n * p + c /\ u + n = n * q + d
    <2>1. /\ (x + n) \div n \in Int /\ x + n = n * ((x + n) \div n) + c
          /\ (u + n) \div n \in Int /\ u + n = n * ((u + n) \div n) + d
      BY <1>1, Division
    <2> QED BY <2>1
  <1>6. p = q
    <2>1. n * (p - q) < n /\ n * (q - p) < n
      <3>1. n * (p - q) = x - u /\ n * (q - p) = u - x
        <4> HIDE DEF c, d, n
        <4> QED BY <1>1, <1>2, <1>4, <1>5
      <3> QED BY <3>1
    <2>2. p - q < 1 /\ q - p < 1
      <3> HIDE DEF n
      <3>1. p - q \in Int /\ q - p \in Int
        OBVIOUS
      <3> QED BY <1>1, <2>1, <3>1, ProductStrict
    <2> QED BY <2>2
  <1> HIDE DEF c, d, n
  <1> QED BY <1>1, <1>2, <1>4, <1>5, <1>6

-----------------------------------------------------------------------------
(* The tiles of a request                                                  *)

Places(r) == (BeginX(r) .. EndX(r)) \X (clampedStartY(r) .. EndY(r))

\* the places GetASTERTiles has been at
Visited(r) == {p \in Places(r) : p[2] < at.y \/ (p[2] = at.y /\ p[1] < at.x)}

\* The sequence q has the tiles of the places and, on a globe that is wide enough, each once.
Holds(q, places, r) ==
  /\ q \in Seq(Tiles)
  /\ \A i \in 1 .. Len(q) : \E p \in places : q[i] = TileAt(p[1], p[2])
  /\ \A p \in places : TileAt(p[1], p[2]) \in Tiles =>
       \E i \in 1 .. Len(q) : q[i] = TileAt(p[1], p[2])
  /\ Num(X(r)) <= NumASTERTilesX =>
       \A i, j \in 1 .. Len(q) : q[i] = q[j] => i = j

LEMMA RequestTiles ==
  ASSUME NEW r \in Requests
  PROVE  /\ BeginX(r) \in Int /\ EndX(r) \in Int /\ BeginX(r) <= EndX(r)
         /\ EndX(r) = BeginX(r) + Num(X(r)) - 1
         /\ BeginX(r) \in -NumASTERTilesX .. NumASTERTilesX - 1
         /\ BeginY(r) \in Int /\ clampedStartY(r) \in Nat /\ EndY(r) \in Int
         /\ BeginY(r) <= clampedStartY(r)
         /\ EndY(r) <= asterTileEndLatitude - asterTileStartLatitude
         /\ EndY(r) <= BeginY(r) + Num(Y(r)) - 1
         /\ Num(X(r)) \in Nat \ {0} /\ Num(Y(r)) \in Nat \ {0}
PROOF
  <1>1. /\ First(X(r)) \in Int /\ Last(X(r)) \in Int /\ First(X(r)) <= Last(X(r))
        /\ Num(X(r)) \in Nat \ {0} /\ Last(X(r)) = First(X(r)) + Num(X(r)) - 1
    BY AxesOfRequest, AxisTiles
  <1>2. /\ First(Y(r)) \in Int /\ Last(Y(r)) \in Int /\ First(Y(r)) <= Last(Y(r))
        /\ Num(Y(r)) \in Nat \ {0} /\ Last(Y(r)) = First(Y(r)) + Num(Y(r)) - 1
    BY AxesOfRequest, AxisTiles
  <1>3. /\ First(X(r)) - AsterTileStartLongitude >= -NumASTERTilesX
        /\ First(X(r)) <= AsterTileEndLongitude
    BY AsterAssumption DEF OnGlobe
  <1>4. BeginX(r) \in -NumASTERTilesX .. NumASTERTilesX - 1
    BY <1>1, <1>3, GlobeSize DEF BeginX
  <1>5. /\ BeginX(r) \in Int /\ EndX(r) \in Int /\ BeginX(r) <= EndX(r)
        /\ EndX(r) = BeginX(r) + Num(X(r)) - 1
    BY <1>1, GlobeSize DEF BeginX, EndX
  <1>6. /\ BeginY(r) \in Int /\ clampedStartY(r) \in Nat /\ EndY(r) \in Int
        /\ BeginY(r) <= clampedStartY(r)
        /\ EndY(r) <= asterTileEndLatitude - asterTileStartLatitude
        /\ EndY(r) <= BeginY(r) + Num(Y(r)) - 1
    BY <1>2, TableRows DEF BeginY, clampedStartY, EndY, Bigger, Smaller
  <1> QED BY <1>1, <1>2, <1>4, <1>5, <1>6

\* Another place is visited.
LEMMA HoldsOneMore ==
  ASSUME NEW r \in Requests, NEW V, V \subseteq Places(r), NEW q, Holds(q, V, r),
         NEW x \in BeginX(r) .. EndX(r), NEW y \in clampedStartY(r) .. EndY(r),
         <<x, y>> \notin V
  PROVE  Holds(IF TileAt(x, y) \in Tiles THEN Append(q, TileAt(x, y)) ELSE q,
               V \union {<<x, y>>}, r)
PROOF
  <1> DEFINE W == V \union {<<x, y>>}
             g == TileAt(x, y)
  <1>1. /\ q \in Seq(Tiles) /\ Len(q) \in Nat
        /\ \A i \in 1 .. Len(q) : \E p \in V : q[i] = TileAt(p[1], p[2])
        /\ \A p \in V : TileAt(p[1], p[2]) \in Tiles =>
             \E i \in 1 .. Len(q) : q[i] = TileAt(p[1], p[2])
        /\ Num(X(r)) <= NumASTERTilesX =>
             \A i, j \in 1 .. Len(q) : q[i] = q[j] => i = j
    BY LenProperties DEF Holds
  <1>2. CASE g \notin Tiles
    <2>1. \A p \in W : TileAt(p[1], p[2]) \in Tiles => p \in V
      BY <1>2
    <2>2. V \subseteq W
      OBVIOUS
    <2> HIDE DEF W
    <2>3. Holds(q, W, r)
      BY <1>1, <2>1, <2>2 DEF Holds
    <2> QED BY <1>2, <2>3 DEF W
  <1>3. CASE g \in Tiles
    <2> DEFINE e == Append(q, g)
               l == Len(q)
    <2>1. /\ e \in Seq(Tiles) /\ Len(e) = l + 1 /\ l \in Nat
          /\ \A i \in 1 .. l : e[i] = q[i]
          /\ e[l + 1] = g
      BY <1>1, <1>3, AppendProperties
    <2> HIDE DEF e, g
    <2>2. ASSUME NEW i \in 1 .. l + 1 PROVE \E p \in W : e[i] = TileAt(p[1], p[2])
      <3>1. CASE i = l + 1
        BY <2>1, <3>1 DEF g
      <3>2. CASE i # l + 1
        <4>1. i \in 1 .. l
          BY <2>1, <3>2
        <4>2. PICK p \in V : q[i] = TileAt(p[1], p[2])
          BY <1>1, <4>1
        <4> QED BY <2>1, <4>1, <4>2
      <3> QED BY <3>1, <3>2
    <2>3. ASSUME NEW p \in W, TileAt(p[1], p[2]) \in Tiles
          PROVE  \E i \in 1 .. l + 1 : e[i] = TileAt(p[1], p[2])
      <3>1. CASE p \in V
        <4>1. PICK i \in 1 .. l : q[i] = TileAt(p[1], p[2])
          BY <1>1, <2>3, <3>1
        <4>2. i \in 1 .. l + 1 /\ e[i] = q[i]
          BY <2>1
        <4> QED BY <4>1, <4>2
      <3>2. CASE p \notin V
        <4>1. p = <<x, y>> /\ l + 1 \in 1 .. l + 1
          BY <2>1, <3>2
        <4> QED BY <2>1, <4>1 DEF g
      <3> QED BY <3>1, <3>2
    <2>4. ASSUME Num(X(r)) <= NumASTERTilesX, NEW i \in 1 .. l PROVE q[i] # g
      <3> SUFFICES ASSUME q[i] = g PROVE FALSE
        OBVIOUS
      <3>1. PICK p \in V : q[i] = TileAt(p[1], p[2])
        BY <1>1, <2>4
      <3>2. p \in Places(r) /\ p = <<p[1], p[2]>>
        BY DEF Places
      <3>3. /\ p[1] \in BeginX(r) .. EndX(r) /\ p[2] \in clampedStartY(r) .. EndY(r)
        BY <3>2 DEF Places
      <3> DEFINE u == p[1]
                 v == p[2]
      <3>4. TileAt(x, y) = TileAt(u, v)
        BY <3>1 DEF g
      <3>5. /\ BeginX(r) \in Int /\ EndX(r) = BeginX(r) + Num(X(r)) - 1 /\ Num(X(r)) \in Nat
            /\ clampedStartY(r) \in Int /\ EndY(r) \in Int
            /\ NumASTERTilesX \in Nat
        BY RequestTiles, GlobeSize
      <3>6. u \in BeginX(r) .. EndX(r) /\ v \in clampedStartY(r) .. EndY(r)
        BY <3>3
      <3> HIDE DEF u, v
      <3>7. /\ x \in Int /\ y \in Int /\ u \in Int /\ v \in Int
            /\ x - u < NumASTERTilesX /\ u - x < NumASTERTilesX
        BY <2>4, <3>5, <3>6
      <3>8. x = u /\ y = v
        BY <3>4, <3>7, TilesDiffer
      <3> USE DEF u, v
      <3> QED BY <3>2, <3>8
    <2>5. ASSUME Num(X(r)) <= NumASTERTilesX,
                 NEW i \in 1 .. l + 1, NEW j \in 1 .. l + 1, e[i] = e[j]
          PROVE  i = j
      <3>1. CASE i \in 1 .. l /\ j \in 1 .. l
        BY <1>1, <2>1, <2>5, <3>1
      <3>2. CASE i \in 1 .. l /\ j = l + 1
        BY <2>1, <2>4, <2>5, <3>2
      <3>3. CASE i = l + 1 /\ j \in 1 .. l
        BY <2>1, <2>4, <2>5, <3>3
      <3>4. CASE i = l + 1 /\ j = l + 1
        BY <3>4
      <3> QED BY <2>1, <3>1, <3>2, <3>3, <3>4
    <2>6. Holds(e, W, r)
      BY <2>1, <2>2, <2>3, <2>5 DEF Holds
    <2> QED BY <1>3, <2>6 DEF e, g
  <1> QED BY <1>2, <1>3

\* GetASTERTiles in its loops.
Gathering(r) ==
  /\ start = <<BeginX(r), BeginY(r)>>
  /\ at \in [x: BeginX(r) .. EndX(r), y: Int]
  /\ clampedStartY(r) <= at.y /\ (at.y = clampedStartY(r) \/ at.y <= EndY(r) + 1)
  /\ at.y > EndY(r) => at.x = BeginX(r)
  /\ Holds(touched, Visited(r), r)
  /\ Len(touched) <= (at.y - clampedStartY(r)) * Num(X(r)) + (at.x - BeginX(r))

LEMMA GatheringBegins ==
  ASSUME NEW r \in Requests, request = r, pc = "select", touched = <<>>, Select
  PROVE  Gathering(r)'
PROOF
  <1>1. /\ request' = r /\ start' = <<BeginX(r), BeginY(r)>> /\ touched' = <<>>
        /\ at' = [x |-> BeginX(r), y |-> clampedStartY(r)]
    BY DEF Select
  <1>2. /\ BeginX(r) \in Int /\ EndX(r) \in Int /\ BeginX(r) <= EndX(r)
        /\ clampedStartY(r) \in Int /\ Num(X(r)) \in Nat
    BY RequestTiles
  <1>3. at' \in [x: BeginX(r) .. EndX(r), y: Int]
    BY <1>1, <1>2
  <1>4. Visited(r)' = {}
    <2>1. ASSUME NEW p \in Places(r)
          PROVE  ~(p[2] < clampedStartY(r) \/ (p[2] = clampedStartY(r) /\ p[1] < BeginX(r)))
      BY <1>2, RequestTiles DEF Places
    <2>2. Places(r)' = Places(r)
      BY <1>1
    <2> QED BY <1>1, <2>1, <2>2 DEF Visited
  <1>5. Holds(<<>>, {}, r)
    <2>1. <<>> \in Seq(Tiles) /\ Len(<<>>) = 0
      BY EmptySeq
    <2> QED BY <2>1 DEF Holds
  <1>6. Holds(touched, Visited(r), r)'
    BY <1>1, <1>4, <1>5
  <1>7. Len(touched') <= (at'.y - clampedStartY(r)) * Num(X(r)) + (at'.x - BeginX(r))
    <2>1. at'.y - clampedStartY(r) = 0 /\ at'.x - BeginX(r) = 0 /\ Len(touched') = 0
      BY <1>1, <1>2, EmptySeq
    <2> QED BY <1>2, <2>1
  <1> QED BY <1>1, <1>2, <1>3, <1>6, <1>7 DEF Gathering

\* A turn of the loops visits one more place.
LEMMA VisitsOneMore ==
  ASSUME NEW r \in Requests, request = r, pc = "gather", Gathering(r), GatherTile
  PROVE  /\ <<at.x, at.y>> \in Places(r) \ Visited(r)
         /\ Visited(r)' = Visited(r) \union {<<at.x, at.y>>}
         /\ at' \in [x: BeginX(r) .. EndX(r), y: Int]
         /\ clampedStartY(r) <= at'.y /\ at'.y <= EndY(r) + 1
         /\ at'.y > EndY(r) => at'.x = BeginX(r)
         /\ (at'.y - clampedStartY(r)) * Num(X(r)) + (at'.x - BeginX(r))
              = (at.y - clampedStartY(r)) * Num(X(r)) + (at.x - BeginX(r)) + 1
PROOF
  <1> DEFINE b == BeginX(r)
             e == EndX(r)
             s == clampedStartY(r)
             n == Num(X(r))
             h == at.x
             k == at.y
  <1>1. /\ b \in Int /\ e \in Int /\ b <= e /\ e = b + n - 1 /\ s \in Nat /\ n \in Nat \ {0}
        /\ EndY(r) \in Int
    BY RequestTiles
  <1>2. /\ h \in b .. e /\ k \in Int /\ s <= k /\ k <= EndY(r) /\ start[1] = b
        /\ at = [x |-> h, y |-> k]
    BY DEF Gathering, GatherTile
  <1>3. at' = IF h < e THEN [x |-> h + 1, y |-> k] ELSE [x |-> b, y |-> k + 1]
    BY <1>2 DEF GatherTile
  <1>4. Places(r) = (b .. e) \X (s .. EndY(r)) /\ Places(r)' = Places(r)
    BY DEF Places
  <1> DEFINE u == at'.x
             v == at'.y
  <1>5. \/ h < e /\ u = h + 1 /\ v = k /\ at' = [x |-> u, y |-> v]
        \/ h = e /\ u = b /\ v = k + 1 /\ at' = [x |-> u, y |-> v]
    BY <1>1, <1>2, <1>3
  <1>6. /\ Visited(r) = {p \in Places(r) : p[2] < k \/ (p[2] = k /\ p[1] < h)}
        /\ Visited(r)' = {p \in Places(r) : p[2] < v \/ (p[2] = v /\ p[1] < u)}
    BY <1>4 DEF Visited
  <1> HIDE DEF b, e, s, n, h, k, u, v
  <1>7. <<h, k>> \in Places(r)
    BY <1>1, <1>2, <1>4
  <1>8. ASSUME NEW i \in b .. e, NEW j \in s .. EndY(r)
        PROVE  (j < v \/ (j = v /\ i < u)) <=> ((j < k \/ (j = k /\ i < h)) \/ (i = h /\ j = k))
    BY <1>1, <1>2, <1>5
  <1>9. ASSUME NEW p \in Places(r)
        PROVE  p \in Visited(r)' <=> p \in Visited(r) \/ p = <<h, k>>
    <2>1. PICK i \in b .. e, j \in s .. EndY(r) : p = <<i, j>>
      BY <1>4
    <2> QED BY <1>6, <1>8, <2>1
  <1>10. Visited(r)' = Visited(r) \union {<<h, k>>}
    <2>1. Visited(r)' \subseteq Places(r) /\ Visited(r) \subseteq Places(r)
      BY <1>6
    <2> QED BY <1>7, <1>9, <2>1
  <1>11. <<h, k>> \notin Visited(r)
    BY <1>1, <1>2, <1>6
  <1>12. u \in b .. e /\ v \in Int /\ s <= v /\ v <= EndY(r) + 1 /\ (v > EndY(r) => u = b)
    BY <1>1, <1>2, <1>5
  <1>13. (v - s) * n + (u - b) = (k - s) * n + (h - b) + 1
    <2>1. CASE h < e /\ u = h + 1 /\ v = k
      <3>1. (k - s) * n \in Int
        BY <1>1, <1>2
      <3> QED BY <1>1, <1>2, <2>1, <3>1
    <2>2. CASE h = e /\ u = b /\ v = k + 1
      <3>1. (k + 1 - s) * n = (k - s) * n + n /\ (k - s) * n \in Int
        BY <1>1, <1>2
      <3>2. h - b = n - 1 /\ u - b = 0 /\ v - s = k + 1 - s
        BY <1>1, <1>2, <2>2
      <3> DEFINE m == (k - s) * n
                 w == (v - s) * n
      <3>3. w = m + n /\ m \in Int
        BY <3>1, <3>2
      <3> HIDE DEF m, w
      <3>4. w + (u - b) = m + (h - b) + 1
        BY <1>1, <3>2, <3>3
      <3> QED BY <3>4 DEF m, w
    <2> QED BY <1>5, <2>1, <2>2
  <1>14. at' \in [x: b .. e, y: Int]
    BY <1>5, <1>12
  <1> QED BY <1>7, <1>10, <1>11, <1>12, <1>13, <1>14 DEF b, e, s, n, h, k, u, v

LEMMA GatheringGoesOn ==
  ASSUME NEW r \in Requests, request = r, pc = "gather", Gathering(r), GatherTile
  PROVE  Gathering(r)'
PROOF
  <1>1. /\ <<at.x, at.y>> \in Places(r) \ Visited(r)
        /\ Visited(r)' = Visited(r) \union {<<at.x, at.y>>}
        /\ at' \in [x: BeginX(r) .. EndX(r), y: Int]
        /\ clampedStartY(r) <= at'.y /\ at'.y <= EndY(r) + 1
        /\ at'.y > EndY(r) => at'.x = BeginX(r)
        /\ (at'.y - clampedStartY(r)) * Num(X(r)) + (at'.x - BeginX(r))
             = (at.y - clampedStartY(r)) * Num(X(r)) + (at.x - BeginX(r)) + 1
    BY VisitsOneMore
  <1> DEFINE h == at.x
             k == at.y
             g == TileAt(h, k)
  <1>2. h \in BeginX(r) .. EndX(r) /\ k \in clampedStartY(r) .. EndY(r)
    BY <1>1 DEF Places
  <1>3. h \in Int /\ k \in 0 .. asterTileEndLatitude - asterTileStartLatitude
    BY <1>2, RequestTiles, TableRows
  <1>4. Looked(h, k) = g /\ (g \in Missing <=> g \notin Tiles)
    BY <1>3, TableHolds
  <1>5. touched' = IF g \in Tiles THEN Append(touched, g) ELSE touched
    BY <1>4 DEF GatherTile, Looked
  <1>6. Holds(touched, Visited(r), r) /\ Visited(r) \subseteq Places(r) /\ <<h, k>> \notin Visited(r)
    BY <1>1 DEF Gathering, Visited
  <1> HIDE DEF h, k
  <1>7. Holds(touched', Visited(r) \union {<<h, k>>}, r)
    BY <1>2, <1>5, <1>6, HoldsOneMore
  <1>8. Holds(touched, Visited(r), r)'
    BY <1>1, <1>7 DEF Holds, h, k
  <1>9. start' = <<BeginX(r), BeginY(r)>>
    BY DEF Gathering, GatherTile
  <1>10. Len(touched') <= (at'.y - clampedStartY(r)) * Num(X(r)) + (at'.x - BeginX(r))
    <2> DEFINE m == (at.y - clampedStartY(r)) * Num(X(r)) + (at.x - BeginX(r))
               w == (at'.y - clampedStartY(r)) * Num(X(r)) + (at'.x - BeginX(r))
    <2>1. w = m + 1 /\ Len(touched) <= m
      BY <1>1 DEF Gathering
    <2>2. m \in Int
      <3>1. at.x \in Int /\ at.y \in Int
        BY <1>2, RequestTiles DEF h, k
      <3> QED BY <3>1, RequestTiles
    <2>3. touched \in Seq(Tiles) /\ Len(touched) \in Nat
      BY <1>6, LenProperties DEF Holds
    <2>4. Len(touched') <= Len(touched) + 1
      BY <1>5, <2>3, AppendProperties
    <2>5. Len(touched') \in Nat
      BY <1>7, LenProperties DEF Holds
    <2> HIDE DEF m, w
    <2>6. Len(touched') <= w
      BY <2>1, <2>2, <2>3, <2>4, <2>5
    <2> QED BY <2>6 DEF w
  <1>11. /\ Gathering(r)' <=>
              /\ start' = <<BeginX(r), BeginY(r)>>
              /\ at' \in [x: BeginX(r) .. EndX(r), y: Int]
              /\ clampedStartY(r) <= at'.y /\ (at'.y = clampedStartY(r) \/ at'.y <= EndY(r) + 1)
              /\ at'.y > EndY(r) => at'.x = BeginX(r)
              /\ Holds(touched, Visited(r), r)'
              /\ Len(touched') <= (at'.y - clampedStartY(r)) * Num(X(r)) + (at'.x - BeginX(r))
    BY DEF Gathering
  <1> QED BY <1>1, <1>8, <1>9, <1>10, <1>11

-----------------------------------------------------------------------------
(* What is selected                                                        *)

\* startX stays what it was, unless the request is refused.
LEMMA StartStays ==
  ASSUME NEW r \in Requests
  PROVE  /\ StartX(r) \in -NumASTERTilesX .. NumASTERTilesX - 1
         /\ Num(X(r)) <= MaxNumAsterTiles => StartX(r) = BeginX(r)
PROOF
  <1> DEFINE n == NumASTERTilesX
             b == BeginX(r)
             w == (b + n) % n
  <1>1. /\ n \in Nat \ {0} /\ b \in -n .. n - 1 /\ b \in Int
    BY GlobeSize, RequestTiles
  <1>2. w \in 0 .. n - 1
    <2>1. b + n \in Int
      BY <1>1
    <2> QED BY <1>1, <2>1, Division
  <1>3. w = IF b < 0 THEN b + n ELSE b
    <2>1. CASE b < 0
      <3>1. b + n = 0 * n + (b + n) /\ b + n \in 0 .. n - 1
        BY <1>1, <2>1
      <3> HIDE DEF n, b
      <3>2. (b + n) % n = b + n
        BY <1>1, <3>1, Quotient
      <3> QED BY <2>1, <3>2
    <2>2. CASE ~(b < 0)
      <3>1. b + n = 1 * n + b /\ b \in 0 .. n - 1
        BY <1>1, <2>2
      <3> HIDE DEF n, b
      <3>2. (b + n) % n = b
        BY <1>1, <3>1, Quotient
      <3> QED BY <2>2, <3>2
    <2> QED BY <2>1, <2>2
  <1>4. StartX(r) = IF Low(X(r)) < 0 /\ w > AsterTileEndLongitude THEN w - n ELSE w
    BY DEF StartX
  <1> DEFINE d == Degree(X(r))
             f == First(X(r))
             l == Low(X(r))
  <1>5. /\ f \in Int /\ d \in Nat \ {0} /\ l \in Int /\ f * d <= l /\ l < (f + 1) * d
        /\ b = f - AsterTileStartLongitude
    BY AxesOfRequest, AxisUnits, AxisTiles DEF BeginX
  <1>6. l < 0 <=> f < 0
    <2> HIDE DEF d, f, l
    <2>1. CASE f < 0
      <3>1. (f + 1) * d <= 0 * d /\ (f + 1) * d \in Int
        BY <1>5, <2>1, ProductOrder
      <3> QED BY <1>5, <2>1, <3>1
    <2>2. CASE ~(f < 0)
      <3>1. 0 * d <= f * d /\ f * d \in Int
        BY <1>5, <2>2, ProductOrder
      <3> QED BY <1>5, <2>2, <3>1
    <2> QED BY <2>1, <2>2
  <1>7. /\ AsterTileStartLongitude \in Int /\ n = -2 * AsterTileStartLongitude
        /\ AsterTileEndLongitude = -AsterTileStartLongitude - 1
    BY GlobeSize
  <1>8. Num(X(r)) <= MaxNumAsterTiles => b >= AsterTileStartLongitude
    BY AsterAssumption DEF OnGlobe, BeginX
  <1> HIDE DEF n, b, w, d, f, l
  <1>9. StartX(r) = IF l < 0 /\ w > AsterTileEndLongitude THEN w - n ELSE w
    BY <1>4 DEF l
  <1>10. StartX(r) \in -n .. n - 1
    BY <1>1, <1>2, <1>9
  <1>11. Num(X(r)) <= MaxNumAsterTiles => StartX(r) = b
    BY <1>1, <1>3, <1>5, <1>6, <1>7, <1>8, <1>9
  <1> QED BY <1>10, <1>11 DEF n, b

Selected(r) ==
  /\ Num(X(r)) <= MaxNumAsterTiles /\ Num(Y(r)) <= MaxNumAsterTiles
  /\ start = <<BeginX(r), BeginY(r)>>
  /\ Holds(touched, Places(r), r)
  /\ Len(touched) <= MaxNumAsterTiles * MaxNumAsterTiles

LEMMA SelectionEnds ==
  ASSUME NEW r \in Requests, request = r, pc = "gather", Gathering(r), EndGather,
         Num(X(r)) <= MaxNumAsterTiles, Num(Y(r)) <= MaxNumAsterTiles
  PROVE  Selected(r)'
PROOF
  <1>1. /\ touched' = touched /\ request' = r /\ at.y > EndY(r)
        /\ start' = [start EXCEPT ![1] = StartX(request)]
    BY DEF EndGather
  <1>2. start' = <<BeginX(r), BeginY(r)>>
    BY <1>1, StartStays DEF Gathering
  <1>3. Visited(r) = Places(r)
    <2>1. ASSUME NEW p \in Places(r) PROVE p[2] < at.y
      BY <1>1, RequestTiles DEF Places, Gathering
    <2> QED BY <2>1 DEF Visited
  <1>4. Holds(touched, Places(r), r)'
    BY <1>1, <1>3 DEF Gathering
  <1>5. Len(touched) <= 16
    <2> DEFINE m == at.y - clampedStartY(r)
               n == Num(X(r))
    <2>1. Len(touched) <= m * n + 0 /\ at.y \in Int /\ at.x = BeginX(r)
      <3>1. at.x = BeginX(r) /\ at.x - BeginX(r) = 0
        BY <1>1, RequestTiles DEF Gathering
      <3> QED BY <3>1 DEF Gathering
    <2>2. m \in 0 .. 4
      <3> DEFINE c == clampedStartY(r)
                 e == EndY(r)
                 o == BeginY(r)
                 y == at.y
                 q == Num(Y(r))
      <3>1. c <= y /\ (y = c \/ y <= e + 1)
        BY DEF Gathering
      <3>2. q <= 4
        BY DEF MaxNumAsterTiles
      <3>3. y \in Int /\ c \in Nat /\ e \in Int /\ o \in Int /\ q \in Nat /\ o <= c /\ e <= o + q - 1
        BY <2>1, RequestTiles
      <3> HIDE DEF c, e, o, y, q
      <3>4. y - c \in 0 .. 4
        BY <3>1, <3>2, <3>3
      <3> QED BY <3>4 DEF y, c
    <2>3. n \in 1 .. 4
      BY RequestTiles DEF MaxNumAsterTiles
    <2>4. Len(touched) \in Nat
      BY LenProperties DEF Gathering, Holds
    <2> HIDE DEF m, n
    <2>5. m * n <= 16 /\ m * n \in Int
      BY <2>2, <2>3
    <2> QED BY <2>1, <2>4, <2>5
  <1>6. MaxNumAsterTiles * MaxNumAsterTiles = 16
    BY DEF MaxNumAsterTiles
  <1> QED BY <1>1, <1>2, <1>4, <1>5, <1>6 DEF Selected

-----------------------------------------------------------------------------
(* The stitched image                                                      *)

\* A tile is stitched at the column its place has in the row of places.
LEMMA ColumnOfPlace ==
  ASSUME NEW b \in Int, NEW x \in Int, x - b \in 0 .. NumASTERTilesX - 1
  PROVE  (((x + NumASTERTilesX) % NumASTERTilesX) - b + NumASTERTilesX) % NumASTERTilesX = x - b
PROOF
  <1> DEFINE n == NumASTERTilesX
             q == (x + n) \div n
             w == (x + n) % n
  <1>1. n \in Nat \ {0}
    BY GlobeSize
  <1>2. x + n = n * q + w /\ q \in Int /\ w \in Int
    <2>1. x + n \in Int
      BY <1>1
    <2> QED BY <1>1, <2>1, Division
  <1>3. x - b \in 0 .. n - 1
    OBVIOUS
  <1> HIDE DEF q, w, n
  <1>4. w - b + n = (2 - q) * n + (x - b) /\ 2 - q \in Int /\ w - b + n \in Int
    BY <1>1, <1>2
  <1>5. (w - b + n) % n = x - b
    BY <1>1, <1>3, <1>4, Quotient
  <1> QED BY <1>5 DEF w, n

LEMMA PlaceInImage ==
  ASSUME NEW r \in Requests, request = r, Selected(r),
         NEW x \in BeginX(r) .. EndX(r), NEW y \in clampedStartY(r) .. EndY(r)
  PROVE  /\ x - BeginX(r) \in 0 .. Num(X(r)) - 1
         /\ Num(Y(r)) - (y - BeginY(r)) - 1 \in 0 .. Num(Y(r)) - 1
         /\ pixelOffset(TileAt(x, y)) =
              ((Num(Y(r)) - (y - BeginY(r)) - 1) * Pitch + (x - BeginX(r))) * AsterPixelsPerDegree
PROOF
  <1> DEFINE g == TileAt(x, y)
             b == BeginX(r)
             c == (x + NumASTERTilesX) % NumASTERTilesX
  <1>1. /\ b \in Int /\ EndX(r) = b + Num(X(r)) - 1 /\ Num(X(r)) \in Nat \ {0}
        /\ BeginY(r) \in Int /\ clampedStartY(r) \in Int /\ EndY(r) \in Int
        /\ BeginY(r) <= clampedStartY(r) /\ EndY(r) <= BeginY(r) + Num(Y(r)) - 1
        /\ Num(Y(r)) \in Nat \ {0}
    BY RequestTiles
  <1>2. Num(X(r)) <= NumASTERTilesX /\ start = <<b, BeginY(r)>>
    BY <1>1, GlobeSize DEF Selected, MaxNumAsterTiles
  <1>3. x \in Int /\ y \in Int /\ x - b \in 0 .. Num(X(r)) - 1
    BY <1>1
  <1>4. Num(Y(r)) - (y - BeginY(r)) - 1 \in 0 .. Num(Y(r)) - 1
    BY <1>1
  <1>5. /\ NumASTERTilesX \in Nat \ {0} /\ AsterTileStartLongitude \in Int
        /\ asterTileStartLatitude \in Int
    BY GlobeSize, TableRows
  <1>6. c \in Int
    <2>1. x + NumASTERTilesX \in Int
      BY <1>3, <1>5
    <2> QED BY <1>5, <2>1, Division
  <1>7. g[1] = AsterTileStartLongitude + c /\ g[2] = asterTileStartLatitude + y
    BY DEF TileAt
  <1>8. g[1] - start[1] - AsterTileStartLongitude + NumASTERTilesX = c - b + NumASTERTilesX
    <2>1. g[1] = AsterTileStartLongitude + c /\ start[1] = b
      BY <1>2, <1>7
    <2> HIDE DEF g, c, b
    <2> QED BY <1>1, <1>5, <1>6, <2>1
  <1>9. (g[1] - start[1] - AsterTileStartLongitude + NumASTERTilesX) % NumASTERTilesX = x - b
    <2>1. x - b \in 0 .. NumASTERTilesX - 1
      BY <1>1, <1>2, <1>3, <1>5
    <2> HIDE DEF g, b
    <2> QED BY <1>1, <1>3, <1>8, <2>1, ColumnOfPlace
  <1>10. g[2] - start[2] - asterTileStartLatitude = y - BeginY(r)
    <2>1. g[2] = asterTileStartLatitude + y /\ start[2] = BeginY(r)
      BY <1>2, <1>7
    <2> HIDE DEF g
    <2> QED BY <1>1, <1>3, <1>5, <2>1
  <1> HIDE DEF g, b
  <1>11. pixelOffset(g) = ((Num(Y(r)) - (y - BeginY(r)) - 1) * Pitch + (x - b)) * AsterPixelsPerDegree
    BY <1>9, <1>10 DEF pixelOffset
  <1> QED BY <1>3, <1>4, <1>11 DEF g, b

\* What the offset of a tile says of the column and the row of its first pixel.
LEMMA OffsetOfPlace ==
  ASSUME NEW r \in Requests, request = r,
         NEW c \in 0 .. Num(X(r)) - 1, NEW w \in 0 .. Num(Y(r)) - 1,
         NEW offset, offset = (w * Pitch + c) * AsterPixelsPerDegree
  PROVE  /\ offset \in Nat
         /\ offset % Pitch = c * AsterPixelsPerDegree
         /\ offset \div Pitch = w * AsterPixelsPerDegree
         /\ (offset % Pitch) + AsterPixelsPerDegree < Pitch
         /\ (offset \div Pitch) + AsterPixelsPerDegree < Pixels(Num(Y(request)))
PROOF
  <1> DEFINE a == AsterPixelsPerDegree
             n == Num(X(r))
             m == Num(Y(r))
             p == Pitch
  <1>1. a \in Nat \ {0} /\ n \in Nat \ {0} /\ m \in Nat \ {0}
    BY AsterAssumption, RequestTiles
  <1>2. p = n * a + 1 /\ Pixels(Num(Y(request))) = m * a + 1
    BY DEF Pitch, Pixels
  <1> HIDE DEF a, n, m, p
  <1>3. p \in Nat \ {0} /\ n * a \in Nat /\ m * a \in Nat
    BY <1>1, <1>2
  <1>4. c \in Nat /\ c + 1 <= n /\ w \in Nat /\ w + 1 <= m
    BY <1>1 DEF n, m
  <1>5. /\ c * a \in Nat /\ w * a \in Nat /\ (c + 1) * a = c * a + a /\ (w + 1) * a = w * a + a
    BY <1>1, <1>4
  <1>6. (c + 1) * a <= n * a /\ (w + 1) * a <= m * a
    BY <1>1, <1>4, ProductOrder
  <1>7. c * a + a < p /\ w * a + a < m * a + 1
    BY <1>1, <1>2, <1>3, <1>5, <1>6
  <1>8. c * a \in 0 .. p - 1
    BY <1>1, <1>3, <1>5, <1>7
  <1>9. (w * p + c) * a = (w * a) * p + c * a
    BY <1>1, <1>3, <1>4
  <1>10. offset = (w * a) * p + c * a
    BY <1>9 DEF a, p
  <1>11. offset \in Nat
    <2>1. (w * a) * p \in Nat
      BY <1>3, <1>5
    <2> QED BY <1>5, <1>10, <2>1
  <1>12. offset \div p = w * a /\ offset % p = c * a
    <2> DEFINE u == w * a
               v == c * a
    <2>1. offset \in Int /\ p \in Nat \ {0} /\ u \in Int /\ v \in 0 .. p - 1 /\ offset = u * p + v
      BY <1>3, <1>5, <1>8, <1>10, <1>11
    <2> HIDE DEF u, v
    <2>2. offset \div p = u /\ offset % p = v
      BY <2>1, Quotient
    <2> QED BY <2>2 DEF u, v
  <1> QED BY <1>2, <1>7, <1>11, <1>12 DEF a, p

\* The tiles up to the t-th are in the image.
Stitched ==
  /\ t \in 1 .. Len(touched) + 1
  /\ DOMAIN image = {pixelOffset(touched[i]) : i \in 1 .. t - 1}
  /\ \A i \in 1 .. t - 1 : image[pixelOffset(touched[i])] = touched[i]

\* Each of the tiles has a place of its own.
LEMMA PlaceOfTile ==
  ASSUME NEW r \in Requests, request = r, Selected(r), NEW i \in 1 .. Len(touched)
  PROVE  \E x \in BeginX(r) .. EndX(r), y \in clampedStartY(r) .. EndY(r) :
           touched[i] = TileAt(x, y)
PROOF
  <1>1. PICK p \in Places(r) : touched[i] = TileAt(p[1], p[2])
    BY DEF Selected, Holds
  <1> QED BY <1>1 DEF Places

LEMMA OffsetsDiffer ==
  ASSUME NEW r \in Requests, request = r, Selected(r),
         NEW i \in 1 .. Len(touched), NEW j \in 1 .. Len(touched),
         pixelOffset(touched[i]) = pixelOffset(touched[j])
  PROVE  i = j
PROOF
  <1>1. PICK x \in BeginX(r) .. EndX(r), y \in clampedStartY(r) .. EndY(r) :
          touched[i] = TileAt(x, y)
    BY PlaceOfTile
  <1>2. PICK u \in BeginX(r) .. EndX(r), v \in clampedStartY(r) .. EndY(r) :
          touched[j] = TileAt(u, v)
    BY PlaceOfTile
  <1> DEFINE a == AsterPixelsPerDegree
             c == x - BeginX(r)
             d == u - BeginX(r)
             w == Num(Y(r)) - (y - BeginY(r)) - 1
             z == Num(Y(r)) - (v - BeginY(r)) - 1
             o == pixelOffset(TileAt(x, y))
  <1>3. /\ c \in 0 .. Num(X(r)) - 1 /\ w \in 0 .. Num(Y(r)) - 1
        /\ o = (w * Pitch + c) * a
    BY PlaceInImage
  <1>4. /\ d \in 0 .. Num(X(r)) - 1 /\ z \in 0 .. Num(Y(r)) - 1
        /\ o = (z * Pitch + d) * a
    BY <1>1, <1>2, PlaceInImage
  <1>5. /\ BeginX(r) \in Int /\ BeginY(r) \in Int /\ Num(X(r)) \in Nat /\ Num(Y(r)) \in Nat
        /\ EndX(r) \in Int /\ clampedStartY(r) \in Int /\ EndY(r) \in Int
        /\ a \in Nat \ {0}
    BY RequestTiles, AsterAssumption
  <1>6. x \in Int /\ y \in Int /\ u \in Int /\ v \in Int
    BY <1>5
  <1> HIDE DEF c, d, w, z, o, a
  <1>7. o % Pitch = c * a /\ o \div Pitch = w * a
    BY <1>3, OffsetOfPlace DEF a
  <1>8. o % Pitch = d * a /\ o \div Pitch = z * a
    BY <1>4, OffsetOfPlace DEF a
  <1>9. c = d /\ w = z
    <2>1. c * a = d * a /\ w * a = z * a
      BY <1>7, <1>8
    <2>2. c \in Int /\ d \in Int /\ w \in Int /\ z \in Int
      BY <1>3, <1>4, <1>5
    <2>3. ~(c < d) /\ ~(d < c) /\ ~(w < z) /\ ~(z < w)
      BY <1>5, <2>1, <2>2, ProductStrict
    <2> QED BY <2>2, <2>3
  <1>10. x = u /\ y = v
    <2> DEFINE b == BeginX(r)
               l == BeginY(r)
               m == Num(Y(r))
    <2>1. x - b = u - b /\ m - (y - l) - 1 = m - (v - l) - 1
      BY <1>9 DEF c, d, w, z
    <2>2. b \in Int /\ l \in Int /\ m \in Int
      BY <1>5
    <2> HIDE DEF b, l, m
    <2> QED BY <1>6, <2>1, <2>2
  <1>11. touched[i] = touched[j]
    BY <1>1, <1>2, <1>10
  <1>12. Num(X(r)) <= NumASTERTilesX
    BY SMTT(20), <1>5, GlobeSize DEF Selected, MaxNumAsterTiles
  <1> QED BY <1>11, <1>12 DEF Selected, Holds

\* One more tile is stitched.
LEMMA StitchesOneMore ==
  ASSUME NEW r \in Requests, request = r, Selected(r), Stitched, LoadTile
  PROVE  Selected(r)' /\ Stitched'
PROOF
  <1>1. /\ t <= Len(touched) /\ t' = t + 1 /\ touched' = touched /\ request' = r
        /\ start' = start
        /\ image' = [o \in DOMAIN image \union {pixelOffset(touched[t])} |->
                       IF o = pixelOffset(touched[t]) THEN touched[t] ELSE image[o]]
    BY DEF LoadTile
  <1>2. Selected(r)'
    BY <1>1 DEF Selected
  <1>3. touched \in Seq(Tiles) /\ Len(touched) \in Nat /\ t \in 1 .. Len(touched)
    BY <1>1, LenProperties DEF Selected, Holds, Stitched
  <1> DEFINE f(i) == pixelOffset(touched[i])
  <1>4. \A i : f(i)' = f(i)
    BY <1>1 DEF pixelOffset, Pitch
  <1>5. /\ DOMAIN image' = DOMAIN image \union {f(t)}
        /\ image'[f(t)] = touched[t]
        /\ \A o \in DOMAIN image : o # f(t) => image'[o] = image[o]
    BY <1>1
  <1>6. t' \in 1 .. Len(touched') + 1 /\ t' - 1 = t /\ t \in Int
    BY <1>1, <1>3
  <1>7. /\ DOMAIN image = {f(i) : i \in 1 .. t - 1}
        /\ \A i \in 1 .. t - 1 : image[f(i)] = touched[i]
    BY DEF Stitched
  <1> HIDE DEF f
  <1>8. 1 .. t = (1 .. t - 1) \union {t}
    BY <1>3
  <1>9. DOMAIN image' = {f(i) : i \in 1 .. t}
    BY <1>5, <1>7, <1>8
  <1>10. ASSUME NEW i \in 1 .. t PROVE image'[f(i)] = touched[i]
    <2>1. CASE i = t
      BY <1>5, <2>1
    <2>2. CASE i # t
      <3>1. i \in 1 .. t - 1 /\ i \in 1 .. Len(touched)
        BY <1>3, <2>2
      <3>2. f(i) # f(t)
        BY <1>3, <2>2, <3>1, OffsetsDiffer DEF f
      <3> QED BY <1>5, <1>7, <3>1, <3>2
    <2> QED BY <2>1, <2>2
  <1>11. /\ DOMAIN image' = {f(i)' : i \in 1 .. t' - 1}
         /\ \A i \in 1 .. t' - 1 : image'[f(i)'] = touched'[i]
    BY <1>1, <1>4, <1>6, <1>9, <1>10
  <1> QED BY <1>2, <1>6, <1>11 DEF Stitched, f

-----------------------------------------------------------------------------
(* The invariant                                                           *)

\* the image of the request is being loaded, or was
Stitching == pc = "load" \/ (pc = "reply" /\ (t > 1 \/ result = "OK"))

Handling(r) ==
  /\ pc = "gather" => Gathering(r)
  /\ Stitching => Selected(r) /\ Stitched

AsterInv ==
  /\ pc \in {"idle", "select", "gather", "load", "reply"} /\ result \in Results
  /\ pc = "idle" => request = NoRequest
  /\ pc # "idle" => \E r \in Requests : request = r /\ Handling(r)
  /\ start[1] \in -NumASTERTilesX .. NumASTERTilesX - 1 /\ start[2] \in Int
  /\ touched \in Seq(Tiles) /\ at \in [x: Int, y: Int]
  /\ pc \in {"idle", "select"} => touched = <<>>
  /\ ~Stitching => t = 1 /\ DOMAIN image = {}
  /\ pc = "reply" /\ result = "OK" => t = Len(touched) + 1

LEMMA NoRequestIsNone == NoRequest \notin Requests
PROOF
  <1>1. ASSUME NEW r \in Request PROVE r # NoRequest
    <2>1. "west" \in DOMAIN r /\ "west" \notin DOMAIN NoRequest
      BY DEF Request, NoRequest
    <2> QED BY <2>1
  <1> QED BY <1>1, AsterAssumption

LEMMA BeginsRight == Init => AsterInv
PROOF
  <1> SUFFICES ASSUME Init PROVE AsterInv
    OBVIOUS
  <1>1. touched \in Seq(Tiles) /\ DOMAIN image = {}
    BY EmptySeq DEF Init
  <1>2. start[1] \in -NumASTERTilesX .. NumASTERTilesX - 1 /\ start[2] \in Int
    BY GlobeSize DEF Init
  <1> QED BY <1>1, <1>2 DEF Init, AsterInv, Stitching, Results

\* Handling speaks of the state alone.
LEMMA HandlingStays ==
  ASSUME NEW r \in Requests, Handling(r), request = r, request' = r,
         Stitching' => Stitching,
         pc' # "gather", start' = start, touched' = touched, t' = t, image' = image
  PROVE  Handling(r)'
PROOF
  <1>1. Selected(r)' <=> Selected(r)
    BY DEF Selected
  <1>2. Stitched' <=> Stitched
    BY DEF Stitched, pixelOffset, Pitch
  <1> QED BY <1>1, <1>2 DEF Handling

LEMMA StepsRight == AsterInv /\ [Next]_vars => AsterInv'
PROOF
  <1> SUFFICES ASSUME AsterInv, [Next]_vars PROVE AsterInv'
    OBVIOUS
  <1>1. CASE Receive
    <2>1. /\ pc = "idle" /\ request' \in Requests
          /\ result' \in {"OK", "InvalidSRS", "InvalidFormat"}
          /\ pc' = IF result' = "OK" THEN "select" ELSE "reply"
          /\ UNCHANGED <<start, touched, at, t, image>>
      BY <1>1 DEF Receive
    <2>2. ~Stitching /\ ~Stitching'
      BY <2>1 DEF AsterInv, Stitching
    <2>3. \A r \in Requests : Handling(r)'
      BY <2>1, <2>2 DEF Handling
    <2> QED BY <2>1, <2>2, <2>3 DEF AsterInv, Results
  <1>2. CASE TransformFails
    <2>1. PICK r \in Requests : request = r /\ Handling(r)
      BY <1>2 DEF AsterInv, TransformFails
    <2>2. ~Stitching /\ ~Stitching' /\ pc' = "reply" /\ result' = "InvalidBBox" /\ request' = r
      BY <1>2, <2>1 DEF AsterInv, Stitching, TransformFails, Reply
    <2>3. Handling(r)'
      BY <2>2 DEF Handling
    <2>4. UNCHANGED <<start, touched, at, t, image>>
      BY <1>2 DEF TransformFails
    <2> QED BY <2>2, <2>3, <2>4 DEF AsterInv, Results
  <1>3. CASE Select
    <2>1. PICK r \in Requests : request = r /\ Handling(r)
      BY <1>3 DEF AsterInv, Select
    <2>2. /\ pc = "select" /\ touched = <<>> /\ pc' = "gather" /\ request' = r
          /\ start' = <<BeginX(r), BeginY(r)>> /\ UNCHANGED <<touched, t, image, result>>
      BY <1>3, <2>1 DEF AsterInv, Select
    <2>3. ~Stitching /\ ~Stitching'
      BY <2>2 DEF Stitching
    <2>4. Gathering(r)'
      BY <1>3, <2>1, <2>2, GatheringBegins
    <2>5. Handling(r)'
      BY <2>3, <2>4 DEF Handling
    <2>6. /\ start'[1] \in -NumASTERTilesX .. NumASTERTilesX - 1 /\ start'[2] \in Int
      BY <2>2, RequestTiles
    <2>7. at' \in [x: Int, y: Int]
      BY <1>3, <2>1, RequestTiles DEF Select
    <2> QED BY <2>2, <2>3, <2>5, <2>6, <2>7 DEF AsterInv
  <1>4. CASE GatherTile
    <2>1. PICK r \in Requests : request = r /\ Handling(r)
      BY <1>4 DEF AsterInv, GatherTile
    <2>2. pc = "gather" /\ pc' = "gather" /\ request' = r /\ UNCHANGED <<start, t, image, result>>
      BY <1>4, <2>1 DEF GatherTile
    <2>3. ~Stitching /\ ~Stitching'
      BY <2>2 DEF Stitching
    <2>4. Gathering(r) /\ Gathering(r)'
      BY <1>4, <2>1, <2>2, GatheringGoesOn DEF Handling
    <2>5. Handling(r)'
      BY <2>3, <2>4 DEF Handling
    <2>6. touched' \in Seq(Tiles)
      BY <2>4 DEF Gathering, Holds
    <2>7. at' \in [x: Int, y: Int]
      BY <2>4, RequestTiles DEF Gathering
    <2> QED BY <2>2, <2>3, <2>5, <2>6, <2>7 DEF AsterInv
  <1>5. CASE EndGather
    <2>1. PICK r \in Requests : request = r /\ Handling(r)
      BY <1>5 DEF AsterInv, EndGather
    <2>2. /\ pc = "gather" /\ request' = r /\ UNCHANGED <<touched, at, t, image>>
          /\ start' = [start EXCEPT ![1] = StartX(r)]
          /\ IF Num(X(r)) > MaxNumAsterTiles \/ Num(Y(r)) > MaxNumAsterTiles
               THEN result' = "InvalidBBox" /\ pc' = "reply"
               ELSE pc' = "load" /\ result' = result
      BY <1>5, <2>1 DEF EndGather, Reply
    <2>3. Gathering(r) /\ t = 1 /\ DOMAIN image = {}
      BY <2>1, <2>2 DEF Handling, AsterInv, Stitching
    <2>4. start'[1] \in -NumASTERTilesX .. NumASTERTilesX - 1 /\ start'[2] \in Int
      <3>1. start' = <<StartX(r), BeginY(r)>>
        BY <2>2, <2>3 DEF Gathering
      <3> QED BY <3>1, StartStays, RequestTiles
    <2>5. CASE Num(X(r)) > MaxNumAsterTiles \/ Num(Y(r)) > MaxNumAsterTiles
      <3>1. ~Stitching' /\ pc' = "reply" /\ result' = "InvalidBBox"
        BY <2>2, <2>3, <2>5 DEF Stitching
      <3>2. Handling(r)'
        BY <3>1 DEF Handling
      <3> QED BY <2>2, <2>3, <2>4, <3>1, <3>2 DEF AsterInv, Results
    <2>6. CASE ~(Num(X(r)) > MaxNumAsterTiles \/ Num(Y(r)) > MaxNumAsterTiles)
      <3>1. pc' = "load" /\ result' = result
        BY <2>2, <2>6
      <3>2. Num(X(r)) <= MaxNumAsterTiles /\ Num(Y(r)) <= MaxNumAsterTiles
        BY <2>6, RequestTiles DEF MaxNumAsterTiles
      <3>3. Selected(r)'
        BY <1>5, <2>1, <2>2, <2>3, <3>2, SelectionEnds
      <3>4. Stitched'
        <4>1. t' = 1 /\ DOMAIN image' = {} /\ touched' \in Seq(Tiles)
          BY <2>2, <2>3, <3>3 DEF Selected, Holds
        <4>2. 1 .. t' - 1 = {} /\ Len(touched') \in Nat
          BY <4>1, LenProperties
        <4> QED BY <4>1, <4>2 DEF Stitched
      <3>5. Handling(r)' /\ Stitching'
        BY <3>1, <3>3, <3>4 DEF Handling, Stitching
      <3> QED BY <2>2, <2>4, <3>1, <3>5 DEF AsterInv
    <2> QED BY <2>5, <2>6
  <1>6. CASE LoadTile
    <2>1. PICK r \in Requests : request = r /\ Handling(r)
      BY <1>6 DEF AsterInv, LoadTile
    <2>2. /\ pc = "load" /\ pc' = "load" /\ request' = r /\ UNCHANGED <<start, touched, at, result>>
      BY <1>6, <2>1 DEF LoadTile
    <2>3. Stitching /\ Stitching'
      BY <2>2 DEF Stitching
    <2>4. Selected(r)' /\ Stitched'
      BY <1>6, <2>1, <2>3, StitchesOneMore DEF Handling
    <2>5. Handling(r)'
      BY <2>2, <2>4 DEF Handling
    <2> QED BY <2>2, <2>3, <2>5 DEF AsterInv
  <1>7. CASE LoadFails \/ SecondTransformFails
    <2>1. PICK r \in Requests : request = r /\ Handling(r)
      BY <1>7 DEF AsterInv, LoadFails, SecondTransformFails
    <2>2. /\ pc = "load" /\ pc' = "reply" /\ request' = r /\ UNCHANGED <<start, touched, at, t, image>>
          /\ result' \in {"InternalError", "InvalidBBox"}
      BY <1>7, <2>1 DEF LoadFails, SecondTransformFails, Reply
    <2>3. Stitching
      BY <2>2 DEF Stitching
    <2>4. Handling(r)'
      BY <2>1, <2>2, <2>3, HandlingStays
    <2>5. ~Stitching' => t' = 1 /\ DOMAIN image' = {}
      <3>1. SUFFICES ASSUME ~Stitching' PROVE t' = 1 /\ DOMAIN image' = {}
        OBVIOUS
      <3>2. t \in Nat /\ t >= 1 /\ DOMAIN image = {pixelOffset(touched[i]) : i \in 1 .. t - 1}
        BY <2>1, <2>3, LenProperties DEF Handling, Stitched, AsterInv
      <3>3. t = 1
        BY <2>2, <3>1, <3>2 DEF Stitching
      <3>4. 1 .. t - 1 = {}
        BY <3>3
      <3> QED BY <2>2, <3>2, <3>3, <3>4
    <2> QED BY <2>2, <2>4, <2>5 DEF AsterInv, Results
  <1>8. CASE Sample
    <2>1. PICK r \in Requests : request = r /\ Handling(r)
      BY <1>8 DEF AsterInv, Sample
    <2>2. /\ pc = "load" /\ pc' = "reply" /\ request' = r /\ UNCHANGED <<start, touched, at, t, image>>
          /\ result' = "OK" /\ t > Len(touched)
      BY <1>8, <2>1 DEF Sample, Reply
    <2>3. Stitching /\ Stitching'
      BY <2>2 DEF Stitching
    <2>4. Handling(r)'
      BY <2>1, <2>2, <2>3, HandlingStays
    <2>5. t = Len(touched) + 1
      BY <2>1, <2>2, <2>3, LenProperties DEF Handling, Stitched, AsterInv
    <2> QED BY <2>2, <2>3, <2>4, <2>5 DEF AsterInv, Results
  <1>9. CASE Return
    <2>1. /\ pc' = "idle" /\ request' = NoRequest /\ start' = <<0, 0>> /\ touched' = <<>>
          /\ at' = [x |-> 0, y |-> 0] /\ t' = 1 /\ image' = <<>> /\ result' = "OK"
      BY <1>9 DEF Return
    <2>2. touched' \in Seq(Tiles) /\ DOMAIN image' = {}
      BY <2>1, EmptySeq
    <2>3. start'[1] \in -NumASTERTilesX .. NumASTERTilesX - 1 /\ start'[2] \in Int
      BY <2>1, GlobeSize
    <2> QED BY <2>1, <2>2, <2>3 DEF AsterInv, Stitching, Results
  <1>10. CASE UNCHANGED vars
    <2>1. UNCHANGED <<pc, request, start, touched, at, t, image, result>>
      BY <1>10 DEF vars
    <2>2. Stitching' <=> Stitching
      BY <2>1 DEF Stitching
    <2>3. ASSUME NEW r \in Requests, Handling(r), request = r PROVE Handling(r)'
      <3>1. CASE pc # "gather"
        BY <2>1, <2>2, <2>3, <3>1, HandlingStays
      <3>2. CASE pc = "gather"
        <4>1. Gathering(r)' <=> Gathering(r)
          BY <2>1 DEF Gathering, Visited, Places
        <4> QED BY <2>1, <2>3, <3>2, <4>1 DEF Handling, Stitching
      <3> QED BY <3>1, <3>2
    <2> QED BY <2>1, <2>2, <2>3 DEF AsterInv
  <1> QED BY <1>1, <1>2, <1>3, <1>4, <1>5, <1>6, <1>7, <1>8, <1>9, <1>10 DEF Next

LEMMA AsterInvAlways == Spec => []AsterInv
PROOF BY BeginsRight, StepsRight, PTL DEF Spec

\* What is stitched, place by place.
LEMMA ImagePlaces ==
  ASSUME NEW r \in Requests, request = r, Selected(r), Stitched, NEW offset \in DOMAIN image
  PROVE  \E x \in BeginX(r) .. EndX(r), y \in clampedStartY(r) .. EndY(r) :
           /\ offset = pixelOffset(TileAt(x, y))
           /\ image[offset] = TileAt(x, y)
           /\ TileAt(x, y) \in Tiles
PROOF
  <1>1. PICK i \in 1 .. t - 1 : offset = pixelOffset(touched[i])
    BY DEF Stitched
  <1>2. image[offset] = touched[i]
    BY <1>1 DEF Stitched
  <1>3. touched \in Seq(Tiles) /\ Len(touched) \in Nat
    BY LenProperties DEF Selected, Holds
  <1>4. i \in 1 .. Len(touched)
    BY <1>3 DEF Stitched
  <1>5. touched[i] \in Tiles
    BY <1>3, <1>4, ElementOfSeq
  <1>6. PICK x \in BeginX(r) .. EndX(r), y \in clampedStartY(r) .. EndY(r) : touched[i] = TileAt(x, y)
    BY <1>4, PlaceOfTile
  <1> QED BY <1>1, <1>2, <1>5, <1>6

\* Every state of the layer has the types of TypeOK; no tile is written before
\* the image or in place of another kind of value.
THEOREM AsterTypes == Spec => []TypeOK
PROOF
  <1>1. AsterInv => TypeOK
    <2> SUFFICES ASSUME AsterInv PROVE TypeOK
      OBVIOUS
    <2>1. pc = "idle" <=> request = NoRequest
      BY NoRequestIsNone DEF AsterInv
    <2>2. t \in 1 .. Len(touched) + 1
      <3>1. Len(touched) \in Nat
        BY LenProperties DEF AsterInv
      <3>2. CASE Stitching
        BY <3>2 DEF AsterInv, Handling, Stitching, Stitched
      <3>3. CASE ~Stitching
        BY <3>1, <3>3 DEF AsterInv
      <3> QED BY <3>2, <3>3
    <2>3. ASSUME NEW offset \in DOMAIN image PROVE offset \in Nat /\ image[offset] \in Tiles
      <3>1. Stitching
        BY DEF AsterInv
      <3>2. PICK r \in Requests : request = r /\ Selected(r) /\ Stitched
        BY <3>1 DEF AsterInv, Handling, Stitching
      <3>3. PICK x \in BeginX(r) .. EndX(r), y \in clampedStartY(r) .. EndY(r) :
              /\ offset = pixelOffset(TileAt(x, y)) /\ image[offset] = TileAt(x, y)
              /\ TileAt(x, y) \in Tiles
        BY <3>2, ImagePlaces
      <3> DEFINE c == x - BeginX(r)
                 w == Num(Y(r)) - (y - BeginY(r)) - 1
      <3>4. /\ c \in 0 .. Num(X(r)) - 1 /\ w \in 0 .. Num(Y(r)) - 1
            /\ offset = (w * Pitch + c) * AsterPixelsPerDegree
        BY <3>2, <3>3, PlaceInImage
      <3> HIDE DEF c, w
      <3>5. offset \in Nat
        BY <3>2, <3>4, OffsetOfPlace
      <3> QED BY <3>3, <3>5
    <2> QED BY <2>1, <2>2, <2>3 DEF AsterInv, TypeOK
  <1> QED BY <1>1, AsterInvAlways, PTL

-----------------------------------------------------------------------------
(* The sampler's window                                                    *)

LEMMA CeilingBounds ==
  ASSUME NEW i \in Nat, NEW j \in Nat \ {0}
  PROVE  /\ Ceiling(i, j) \in Int
         /\ i <= Ceiling(i, j) * j /\ (Ceiling(i, j) - 1) * j < i
PROOF
  <1> DEFINE q == (-i) \div j
  <1>1. -i \in Int /\ q \in Int
    OBVIOUS
  <1>2. q * j <= -i /\ -i < (q + 1) * j
    BY <1>1, QuotientAtLeast, QuotientAtMost
  <1>3. Ceiling(i, j) = -q
    BY DEF Ceiling
  <1> HIDE DEF q
  <1>4. (-q) * j = -(q * j) /\ (-q - 1) * j = -((q + 1) * j)
        /\ q * j \in Int /\ (q + 1) * j \in Int
    BY <1>1
  <1> QED BY <1>1, <1>2, <1>3, <1>4

\* The padding is wider than all of the filter but its outermost pixel.
LEMMA WindowWidth ==
  ASSUME NEW a \in Axis
  PROVE  /\ imgLanczosWindow(a) \in Nat /\ imgLanczosWindow(a) >= 3
         /\ (imgLanczosWindow(a) - 1) * Pixel(a) < Padding(a)
PROOF
  <1> DEFINE e == a.extent
             p == Pixel(a)
             c == Ceiling(3 * e, p)
  <1>1. e \in Nat /\ p \in Nat \ {0}
    BY AxisUnits DEF Axis
  <1>2. c \in Int /\ (c - 1) * p < 3 * e
    BY <1>1, CeilingBounds
  <1>3. imgLanczosWindow(a) = IF 3 > c THEN 3 ELSE c
    BY DEF imgLanczosWindow, Bigger, LanczosWindowSize
  <1>4. Padding(a) = 3 * (IF p > e THEN p ELSE e)
    BY DEF Padding, Bigger, LanczosWindowSize
  <1> HIDE DEF e, p, c
  <1>5. CASE 3 > c
    BY <1>1, <1>3, <1>4, <1>5 DEF p
  <1>6. CASE ~(3 > c)
    <2>1. imgLanczosWindow(a) = c
      BY <1>3, <1>6
    <2>2. 3 * e <= Padding(a) /\ Padding(a) \in Int
      BY <1>1, <1>4
    <2>3. (c - 1) * p \in Int
      BY <1>1, <1>2
    <2>4. (c - 1) * p < Padding(a)
      BY <1>1, <1>2, <2>2, <2>3
    <2> QED BY <1>2, <1>6, <2>1, <2>4 DEF p
  <1> QED BY <1>5, <1>6

\* One axis of the sampler: m source pixels are p units wide, o is the offset of
\* the answer in them, and w pixels are weighed on each side.
Fits(p, h, w, pad, e, n, m, o) ==
  /\ p \in Nat \ {0} /\ h \in Nat /\ p = 2 * h
  /\ w \in Nat /\ w >= 3 /\ pad \in Nat /\ (w - 1) * p < pad
  /\ e \in Nat /\ n \in Nat \ {0} /\ m \in Nat /\ o \in Int
  /\ pad + h <= o /\ o + e * n <= m * p - pad + h

LEMMA LastPixel ==
  ASSUME NEW e \in Nat, NEW n \in Nat \ {0}, NEW x \in 0 .. n - 1
  PROVE  x * e \in Nat /\ x * e + e <= e * n /\ e * n \in Nat
PROOF
  <1>1. (x + 1) * e <= n * e /\ (x + 1) * e = x * e + e /\ n * e = e * n
    BY ProductOrder
  <1> QED BY <1>1

LEMMA ColumnInside ==
  ASSUME NEW p, NEW h, NEW w, NEW pad, NEW e, NEW n, NEW m, NEW o,
         Fits(p, h, w, pad, e, n, m, o), NEW x \in 0 .. n - 1
  PROVE  /\ (x * e + o) \div p \in Int
         /\ ((x * e + o) \div p) - w + 1 >= 0
         /\ ((x * e + o) \div p) + w - 1 <= m
PROOF
  <1> DEFINE k == x * e
             u == (w - 1) * p
             v == m * p
             z == e * n
             g == k + o
  <1>1. /\ p \in Nat \ {0} /\ h \in Nat /\ p = 2 * h /\ w \in Nat /\ pad \in Nat
        /\ e \in Nat /\ n \in Nat \ {0} /\ m \in Nat /\ o \in Int
        /\ u < pad /\ pad + h <= o /\ o + z <= v - pad + h
    BY DEF Fits
  <1>2. k \in Nat /\ k + e <= z /\ z \in Nat
    BY <1>1, LastPixel
  <1>3. u \in Int /\ v \in Int /\ g \in Int
    BY <1>1, <1>2
  <1>4. (m - w + 2) * p = v - u + p
    BY <1>1
  <1> HIDE DEF k, u, v, z
  <1>5. u <= g
    BY <1>1, <1>2, <1>3
  <1>6. g < v - u + p
    BY <1>1, <1>2, <1>3
  <1> HIDE DEF g
  <1>7. w - 1 <= g \div p
    <2>1. w - 1 \in Int /\ (w - 1) * p <= g
      BY <1>1, <1>5 DEF u
    <2> QED BY <1>1, <1>3, <2>1, QuotientAtLeast
  <1>8. g \div p <= m - w + 1
    <2>1. m - w + 1 \in Int /\ g < ((m - w + 1) + 1) * p
      <3>1. (m - w + 1) + 1 = m - w + 2
        BY <1>1
      <3> QED BY <1>1, <1>4, <1>6, <3>1
    <2> QED BY <1>1, <1>3, <2>1, QuotientAtMost
  <1>9. g \div p \in Int
    BY <1>1, <1>3, Division
  <1>10. (g \div p) - w + 1 >= 0 /\ (g \div p) + w - 1 <= m
    BY <1>1, <1>7, <1>8, <1>9
  <1> QED BY <1>9, <1>10 DEF g, k

LEMMA NoQuotient ==
  ASSUME NEW d \in Nat \ {0}, NEW a \in Nat, a < d
  PROVE  a \div d = 0
PROOF OBVIOUS

LEMMA RowInside ==
  ASSUME NEW p, NEW h, NEW w, NEW pad, NEW e, NEW n, NEW m, NEW o,
         Fits(p, h, w, pad, e, n, m, o), NEW y \in 0 .. n - 1,
         NEW s, s = (IF o - w * p < 0 THEN -((-(o - w * p)) \div p) ELSE (o - w * p) \div p)
  PROVE  /\ s \in Int /\ (y * e) \div p \in Int
         /\ s + ((y * e) \div p) + 1 >= 0
         /\ s + w + ((y * e) \div p) + w - 1 <= m
PROOF
  <1> DEFINE k == y * e
             u == w * p
             v == m * p
             z == e * n
             f == o - u
             q == k \div p
  <1>1. /\ p \in Nat \ {0} /\ h \in Nat /\ p = 2 * h /\ w \in Nat /\ pad \in Nat
        /\ e \in Nat /\ n \in Nat \ {0} /\ m \in Nat /\ o \in Int
        /\ (w - 1) * p < pad /\ pad + h <= o /\ o + z <= v - pad + h
    BY DEF Fits
  <1>2. k \in Nat /\ k + e <= z /\ z \in Nat
    BY <1>1, LastPixel
  <1>3. u \in Int /\ v \in Int /\ f \in Int /\ (w - 1) * p = u - p
    BY <1>1, <1>2
  <1>4. q \in Int /\ 0 <= q /\ q * p <= k
    <2>1. q \in Int
      BY <1>1, <1>2, Division
    <2>2. 0 * p <= k /\ k \in Int
      BY <1>1, <1>2
    <2> HIDE DEF k
    <2>3. 0 <= k \div p
      BY <1>1, <2>2, QuotientAtLeast
    <2>4. q * p <= k
      <3>1. q <= k \div p
        BY <2>1
      <3> HIDE DEF q
      <3> QED BY <1>1, <2>1, <2>2, <3>1, QuotientAtLeast
    <2> QED BY <2>1, <2>3, <2>4
  <1>5. s = IF f < 0 THEN -((-f) \div p) ELSE f \div p
    OBVIOUS
  <1> HIDE DEF k, u, v, z, q
  <1>6. s \in Nat /\ (s * p <= f \/ s = 0)
    <2>1. CASE f < 0
      <3>1. -f \in 0 .. p - 1 /\ -f \in Int
        BY <1>1, <1>2, <1>3, <2>1
      <3> HIDE DEF f
      <3> DEFINE g == -f
      <3>2. g \in Nat /\ g < p
        BY <1>1, <3>1
      <3> HIDE DEF g
      <3>3. g \div p = 0
        BY <1>1, <3>2, NoQuotient
      <3> USE DEF g
      <3> QED BY <1>5, <2>1, <3>3
    <2>2. CASE ~(f < 0)
      <3>1. f \in Int /\ p \in Nat \ {0}
        BY <1>1, <1>3
      <3>2. s = f \div p
        BY <1>5, <2>2
      <3> HIDE DEF f
      <3>3. f \div p \in Int
        BY <3>1, Division
      <3>4. s \in Int
        BY <3>2, <3>3
      <3>5. s <= f \div p
        BY <3>2, <3>4
      <3>6. s * p <= f
        BY <3>1, <3>4, <3>5, QuotientAtLeast
      <3>7. 0 * p <= f
        BY <3>1, <2>2
      <3>8. 0 <= f \div p
        BY <3>1, <3>7, QuotientAtLeast
      <3>9. 0 <= s
        BY <3>2, <3>8
      <3> QED BY <3>4, <3>6, <3>9
    <2> QED BY <2>1, <2>2
  <1> DEFINE l == s + w + q + w - 1
             a == s * p
             b == q * p
  <1>7. l * p = a + u + b + u - p /\ l \in Int /\ a \in Int /\ b \in Int /\ (s = 0 => a = 0)
    BY <1>1, <1>4, <1>6 DEF u
  <1>8. b <= k /\ (a <= f \/ a = 0)
    BY <1>4, <1>6, <1>7
  <1>9. (m + 1) * p = v + p
    BY <1>1 DEF v
  <1> HIDE DEF a, b
  <1>10. a + u + b + u - p < v + p
    BY <1>1, <1>2, <1>3, <1>7, <1>8
  <1> HIDE DEF l
  <1>11. l * p < (m + 1) * p /\ m + 1 \in Int
    BY <1>1, <1>7, <1>9, <1>10
  <1>12. l < m + 1
    BY <1>1, <1>7, <1>11, ProductStrict
  <1>13. l <= m
    BY <1>1, <1>7, <1>12
  <1>14. s \in Int /\ s + q + 1 >= 0
    BY <1>4, <1>6
  <1> QED BY <1>4, <1>13, <1>14 DEF l, q, k

\* The last row of the intermediate image is that of the row after the last one of the
\* source at most, and not even that where the window is no wider than the padding.
LEMMA LastRowRead ==
  ASSUME NEW p, NEW h, NEW w, NEW pad, NEW e, NEW n, NEW m, NEW o,
         Fits(p, h, w, pad, e, n, m, o),
         NEW s, s = (IF o - w * p < 0 THEN -((-(o - w * p)) \div p) ELSE (o - w * p) \div p)
  PROVE  /\ s \in Nat /\ Ceiling(e * n, p) \in Int
         /\ s + (Ceiling(e * n, p) + 2 * w) - 1 <= m + 1
         /\ w * p = pad => s + (Ceiling(e * n, p) + 2 * w) - 1 <= m
PROOF
  <1> DEFINE u == w * p
             v == m * p
             z == e * n
             c == Ceiling(z, p)
             f == o - u
             l == s + (c + 2 * w) - 1
  <1>1. /\ p \in Nat \ {0} /\ h \in Nat /\ p = 2 * h /\ w \in Nat /\ pad \in Nat
        /\ e \in Nat /\ n \in Nat \ {0} /\ m \in Nat /\ o \in Int
        /\ (w - 1) * p < pad /\ pad + h <= o /\ o + z <= v - pad + h
    BY DEF Fits
  <1>2. z \in Nat
    BY <1>1
  <1>3. c \in Int /\ (c - 1) * p < z
    BY <1>1, <1>2, CeilingBounds
  <1>4. u \in Int /\ v \in Int /\ f \in Int /\ (w - 1) * p = u - p
    BY <1>1
  <1>5. s \in Nat /\ (s * p <= f \/ (s = 0 /\ f < 0))
    <2>0. 0 \in 0 .. n - 1
      BY <1>1
    <2>1. s \in Int
      BY <2>0, RowInside
    <2>2. CASE f < 0
      <3> DEFINE g == -f
      <3>1. g \in Nat /\ g < p
        BY <1>1, <1>4, <2>2
      <3>2. s = -(g \div p)
        BY <2>2
      <3> HIDE DEF g
      <3>3. g \div p = 0
        BY <1>1, <3>1, NoQuotient
      <3> QED BY <2>2, <3>2, <3>3
    <2>3. CASE ~(f < 0)
      <3>1. s = f \div p
        BY <2>3
      <3> HIDE DEF f
      <3>2. s * p <= f /\ 0 <= f \div p
        <4>1. p \in Nat \ {0} /\ f \in Int /\ 0 * p <= f
          BY <1>1, <1>4, <2>3
        <4>2. s <= f \div p
          BY <2>1, <3>1
        <4>3. s * p <= f
          BY <2>1, <4>1, <4>2, QuotientAtLeast
        <4>4. 0 <= f \div p
          BY <4>1, QuotientAtLeast
        <4> QED BY <4>3, <4>4
      <3> QED BY <2>1, <3>1, <3>2
    <2> QED BY <2>2, <2>3
  <1> DEFINE a == s * p
             b == (c - 1) * p
  <1>6. /\ a \in Int /\ b \in Int /\ (s = 0 => a = 0)
        /\ l \in Int /\ l * p = a + b + 2 * u
    <2> HIDE DEF c
    <2> QED BY <1>1, <1>3, <1>5
  <1>7. (m + 1) * p = v + p /\ (m + 2) * p = v + 2 * p
    BY <1>1
  <1>8. b < z /\ (a <= f \/ (a = 0 /\ f < 0))
    BY <1>3, <1>5, <1>6
  <1> HIDE DEF a, b, c, l, u, v, z
  <1>9. a + b + 2 * u < v + 2 * p /\ (u = pad => a + b + 2 * u < v + p)
    BY <1>1, <1>2, <1>4, <1>6, <1>8
  <1>10. l < m + 2
    <2>1. l * p < (m + 2) * p /\ m + 2 \in Int
      BY <1>1, <1>6, <1>7, <1>9
    <2> QED BY <1>1, <1>6, <2>1, ProductStrict
  <1>11. u = pad => l < m + 1
    <2>1. u = pad => l * p < (m + 1) * p /\ m + 1 \in Int
      BY <1>1, <1>6, <1>7, <1>9
    <2> QED BY <1>1, <1>6, <2>1, ProductStrict
  <1>12. l <= m + 1 /\ (u = pad => l <= m)
    BY <1>1, <1>6, <1>10, <1>11
  <1> QED BY <1>3, <1>5, <1>12 DEF l, c, u, z

\* A request that is no coarser than the source weighs three pixels to each side, and
\* its padding is as wide.
LEMMA FineWindow ==
  ASSUME NEW a \in Axis, a.extent <= Pixel(a)
  PROVE  imgLanczosWindow(a) * Pixel(a) = Padding(a)
PROOF
  <1> DEFINE e == a.extent
             p == Pixel(a)
             c == Ceiling(3 * e, p)
  <1>1. e \in Nat /\ p \in Nat \ {0} /\ e <= p
    BY AxisUnits DEF Axis
  <1>2. c \in Int /\ (c - 1) * p < 3 * e
    BY <1>1, CeilingBounds
  <1>3. imgLanczosWindow(a) = IF 3 > c THEN 3 ELSE c
    BY DEF imgLanczosWindow, Bigger, LanczosWindowSize
  <1>4. Padding(a) = 3 * (IF p > e THEN p ELSE e)
    BY DEF Padding, Bigger, LanczosWindowSize
  <1> HIDE DEF c
  <1>5. c - 1 < 3
    <2> HIDE DEF e, p
    <2>1. (c - 1) * p < 3 * p
      <3>1. 3 * e <= 3 * p /\ (c - 1) * p \in Int
        BY <1>1, <1>2
      <3> QED BY <1>1, <1>2, <3>1
    <2> QED BY <1>1, <1>2, <2>1, ProductStrict
  <1>6. imgLanczosWindow(a) = 3 /\ Padding(a) = 3 * p
    <2> HIDE DEF e, p
    <2> QED BY <1>1, <1>2, <1>3, <1>4, <1>5
  <1> QED BY <1>6

\* Both axes of a request fit, wherever its stitched image begins and ends.
LEMMA HalfPixel ==
  ASSUME NEW a \in Axis
  PROVE  Pixel(a) \div 2 \in Nat /\ Pixel(a) = 2 * (Pixel(a) \div 2)
PROOF
  <1>1. Sub \in Nat /\ Sub % 2 = 0 /\ a.n \in Nat
    BY AsterAssumption DEF Axis
  <1>2. PICK s \in Nat : Sub = 2 * s
    <2>1. Sub \div 2 \in Nat /\ Sub = 2 * (Sub \div 2)
      BY <1>1
    <2> QED BY <2>1
  <1> DEFINE n == a.n
  <1>3. Pixel(a) = Sub * n /\ n \in Nat
    BY <1>1 DEF Pixel
  <1> HIDE DEF n
  <1>4. Pixel(a) = 2 * (s * n) /\ s * n \in Nat
    BY <1>2, <1>3
  <1> QED BY <1>4

LEMMA AxisFits ==
  ASSUME NEW a \in Axis, NEW o,
         \/ o = a.min * a.n - First(a) * Degree(a) + (Pixel(a) \div 2)
         \/ o = (Last(a) + 1) * Degree(a) - (a.min + a.extent) * a.n + (Pixel(a) \div 2)
  PROVE  Fits(Pixel(a), Pixel(a) \div 2, imgLanczosWindow(a), Padding(a), a.extent, a.n,
              Num(a) * AsterPixelsPerDegree, o)
PROOF
  <1> DEFINE p == Pixel(a)
             h == Pixel(a) \div 2
             d == Degree(a)
             pad == Padding(a)
             f == First(a)
             l == Last(a)
             c == a.min * a.n
             z == a.extent * a.n
             m == Num(a) * AsterPixelsPerDegree
  <1>1. /\ p \in Nat \ {0} /\ h \in Nat /\ p = 2 * h /\ pad \in Nat
    BY AxisUnits, HalfPixel
  <1>2. /\ imgLanczosWindow(a) \in Nat /\ imgLanczosWindow(a) >= 3
        /\ (imgLanczosWindow(a) - 1) * p < pad
    BY WindowWidth
  <1>3. a.extent \in Nat /\ a.n \in Nat \ {0} /\ a.min \in Int
    BY DEF Axis
  <1>4. c \in Int /\ z \in Nat /\ (a.min + a.extent) * a.n = c + z
    <2> DEFINE i == a.min
               e == a.extent
               n == a.n
    <2>1. i \in Int /\ e \in Nat /\ n \in Nat
      BY <1>3
    <2> HIDE DEF i, e, n
    <2>2. i * n \in Int /\ e * n \in Nat /\ (i + e) * n = i * n + e * n
      BY <2>1
    <2> QED BY <2>2 DEF i, e, n
  <1>5. Low(a) = c - pad /\ High(a) = c + z + pad
    BY <1>4 DEF Low, High
  <1>6. /\ f \in Int /\ l \in Int /\ d \in Nat \ {0} /\ Num(a) \in Nat \ {0} /\ l = f + Num(a) - 1
        /\ f * d <= Low(a) /\ High(a) <= (l + 1) * d
    BY AxisTiles, AxisUnits
  <1>7. d = AsterPixelsPerDegree * p /\ AsterPixelsPerDegree \in Nat
    BY AsterAssumption DEF Degree
  <1>8. m \in Nat /\ (l + 1) * d = f * d + m * p /\ f * d \in Int /\ m * p \in Int
    <2> DEFINE k == Num(a)
               g == AsterPixelsPerDegree
    <2>1. k \in Nat /\ g \in Nat /\ l + 1 = f + k /\ d = g * p
      BY <1>6, <1>7
    <2> HIDE DEF k, g, f, l, d, p
    <2>2. (f + k) * d = f * d + k * d /\ k * d = (k * g) * p /\ k * g \in Nat
      BY <1>1, <1>6, <2>1
    <2>3. f * d \in Int /\ (k * g) * p \in Int
      BY <1>1, <1>6, <2>2
    <2> QED BY <2>1, <2>2, <2>3 DEF k, g
  <1> DEFINE x == f * d
             v == m * p
             y == (l + 1) * d
  <1>9. o = c - x + h \/ o = y - (c + z) + h
    BY <1>4
  <1>10. /\ x \in Int /\ v \in Int /\ y = x + v /\ x <= c - pad /\ c + z + pad <= y
    BY <1>5, <1>6, <1>8
  <1> HIDE DEF x, v, y, c, z, h, pad, p, m
  <1>11. o \in Int /\ pad + h <= o /\ o + z <= v - pad + h
    BY <1>1, <1>4, <1>9, <1>10
  <1> QED BY <1>1, <1>2, <1>3, <1>8, <1>11 DEF Fits, z, v, p, h, pad, m

\* Where the sampler begins in the stitched image.
LEMMA OffsetsOfSampler ==
  ASSUME NEW r \in Requests, request = r, Selected(r)
  PROVE  /\ offsetX = X(r).min * X(r).n - First(X(r)) * Degree(X(r)) + (Pixel(X(r)) \div 2)
         /\ offsetY = (Last(Y(r)) + 1) * Degree(Y(r)) - (Y(r).min + Y(r).extent) * Y(r).n
                        + (Pixel(Y(r)) \div 2)
         /\ LoadedWest = First(X(r)) * Degree(X(r))
         /\ LoadedNorth = (Last(Y(r)) + 1) * Degree(Y(r))
PROOF
  <1>1. start[1] = BeginX(r) /\ start[2] = BeginY(r)
    BY DEF Selected
  <1>2. /\ First(X(r)) \in Int /\ First(Y(r)) \in Int /\ Num(Y(r)) \in Nat
        /\ Last(Y(r)) = First(Y(r)) + Num(Y(r)) - 1 /\ Last(Y(r)) \in Int
    BY AxesOfRequest, AxisTiles
  <1>3. start[1] + AsterTileStartLongitude = First(X(r))
    BY <1>1, <1>2, GlobeSize DEF BeginX
  <1>4. start[2] + asterTileStartLatitude + Num(Y(r)) = Last(Y(r)) + 1
    BY <1>1, <1>2, TableRows DEF BeginY
  <1>5. LoadedWest = First(X(r)) * Degree(X(r)) /\ LoadedNorth = (Last(Y(r)) + 1) * Degree(Y(r))
    BY <1>3, <1>4 DEF LoadedWest, LoadedNorth, Loaded
  <1> QED BY <1>5 DEF offsetX, offsetY

LEMMA WindowFits ==
  ASSUME NEW r \in Requests, request = r, Selected(r)
  PROVE  /\ \A x \in {0, r.columns - 1} : ColumnsRead(x) \subseteq 0 .. Pitch - 1
         /\ \A y \in {0, r.rows - 1} : RowsUsed(y) \subseteq 0 .. Pixels(Num(Y(request))) - 1
         /\ RowsRead \subseteq 0 .. Pixels(Num(Y(request))) - 1
                                  + (IF Y(request).extent > Pixel(Y(request)) THEN 1 ELSE 0)
PROOF
  <1>1. X(r) \in Axis /\ Y(r) \in Axis
    BY AxesOfRequest
  <1>2. X(r).n = r.columns /\ Y(r).n = r.rows /\ r.columns \in Nat \ {0} /\ r.rows \in Nat \ {0}
    BY <1>1 DEF Axis, X, Y
  <1>3. ASSUME NEW x \in 0 .. X(r).n - 1 PROVE ColumnsRead(x) \subseteq 0 .. Pitch - 1
    <2> DEFINE a == X(r)
               p == Pixel(a)
               w == imgLanczosWindow(a)
               m == Num(a) * AsterPixelsPerDegree
               i == (x * a.extent + offsetX) \div p
    <2>1. Fits(p, p \div 2, w, Padding(a), a.extent, a.n, m, offsetX)
      BY <1>1, OffsetsOfSampler, AxisFits
    <2>2. i \in Int /\ i - w + 1 >= 0 /\ i + w - 1 <= m
      <3> HIDE DEF a, p, w, m
      <3> QED BY <1>3, <2>1, ColumnInside DEF a
    <2>3. m \in Nat /\ w \in Nat
      <3> HIDE DEF p, w, m, a
      <3> QED BY <2>1 DEF Fits
    <2>4. Pitch - 1 = m
      BY <2>3 DEF Pitch, Pixels
    <2>5. ColumnsRead(x) = i - w + 1 .. i + w - 1
      BY DEF ColumnsRead
    <2> HIDE DEF i, w, m
    <2> QED BY <2>2, <2>3, <2>4, <2>5
  <1>4. ASSUME NEW y \in 0 .. Y(r).n - 1
        PROVE  RowsUsed(y) \subseteq 0 .. Pixels(Num(Y(request))) - 1
    <2> DEFINE a == Y(r)
               p == Pixel(a)
               w == imgLanczosWindow(a)
               m == Num(a) * AsterPixelsPerDegree
               s == tmpImageOffsetY
               q == (y * a.extent) \div p
    <2>1. Fits(p, p \div 2, w, Padding(a), a.extent, a.n, m, offsetY)
      BY <1>1, OffsetsOfSampler, AxisFits
    <2>2. s = IF offsetY - w * p < 0 THEN -((-(offsetY - w * p)) \div p)
              ELSE (offsetY - w * p) \div p
      BY DEF tmpImageOffsetY
    <2>3. s \in Int /\ q \in Int /\ s + q + 1 >= 0 /\ s + w + q + w - 1 <= m
      <3> HIDE DEF a, p, w, m, s
      <3> QED BY <1>4, <2>1, <2>2, RowInside DEF a
    <2>4. m \in Nat /\ w \in Nat
      <3> HIDE DEF p, w, m, a
      <3> QED BY <2>1 DEF Fits
    <2>5. Pixels(Num(Y(request))) - 1 = m
      BY <2>4 DEF Pixels
    <2>6. RowsUsed(y) = (s + w + q) - w + 1 .. (s + w + q) + w - 1
      BY DEF RowsUsed
    <2> HIDE DEF s, q, w, m
    <2> QED BY <2>3, <2>4, <2>5, <2>6
  <1>5. RowsRead \subseteq 0 .. Pixels(Num(Y(request))) - 1
                              + (IF Y(request).extent > Pixel(Y(request)) THEN 1 ELSE 0)
    <2> DEFINE a == Y(r)
               p == Pixel(a)
               w == imgLanczosWindow(a)
               m == Num(a) * AsterPixelsPerDegree
               s == tmpImageOffsetY
               c == Ceiling(a.extent * a.n, p)
    <2>1. Fits(p, p \div 2, w, Padding(a), a.extent, a.n, m, offsetY)
      BY <1>1, OffsetsOfSampler, AxisFits
    <2>2. s = IF offsetY - w * p < 0 THEN -((-(offsetY - w * p)) \div p)
              ELSE (offsetY - w * p) \div p
      BY DEF tmpImageOffsetY
    <2>3. /\ s \in Nat /\ c \in Int /\ s + (c + 2 * w) - 1 <= m + 1
          /\ w * p = Padding(a) => s + (c + 2 * w) - 1 <= m
      <3> HIDE DEF a, p, w, m, s
      <3> QED BY <2>1, <2>2, LastRowRead DEF a
    <2>4. m \in Nat /\ w \in Nat /\ p \in Nat /\ a.extent \in Nat
      <3> HIDE DEF p, w, m, a
      <3> QED BY <2>1 DEF Fits
    <2>5. Pixels(Num(Y(request))) - 1 = m
      BY <2>4 DEF Pixels
    <2>6. ~(a.extent > p) => w * p = Padding(a)
      <3>1. ~(a.extent > p) => a.extent <= p
        BY <2>4
      <3> QED BY <1>1, <3>1, FineWindow
    <2>7. RowsRead = s .. s + (c + 2 * w) - 1
      BY DEF RowsRead, tmpImageHeight
    <2> DEFINE below == IF a.extent > p THEN 1 ELSE 0
    <2>8. below \in {0, 1} /\ s + (c + 2 * w) - 1 <= m + below
      <3> HIDE DEF c, w, m, s, a, p
      <3> QED BY <2>3, <2>4, <2>6
    <2> HIDE DEF s, c, w, m, below
    <2>9. RowsRead \subseteq 0 .. m + below
      BY <2>3, <2>4, <2>7, <2>8
    <2> QED BY <2>5, <2>9 DEF below
  <1> QED BY <1>2, <1>3, <1>4, <1>5

\* As many places are written as tiles are loaded.
LEMMA ImageSize ==
  ASSUME NEW r \in Requests, request = r, Selected(r), Stitched
  PROVE  Cardinality(DOMAIN image) = t - 1
PROOF
  <1> DEFINE D == DOMAIN image
             f == [i \in 1 .. t - 1 |-> pixelOffset(touched[i])]
  <1>1. touched \in Seq(Tiles) /\ Len(touched) \in Nat /\ t \in 1 .. Len(touched) + 1 /\ t \in Nat
    BY LenProperties DEF Selected, Holds, Stitched
  <1>2. D = {f[i] : i \in 1 .. t - 1}
    BY DEF Stitched
  <1>3. \A i, j \in 1 .. t - 1 : f[i] = f[j] => i = j
    <2> SUFFICES ASSUME NEW i \in 1 .. t - 1, NEW j \in 1 .. t - 1, f[i] = f[j] PROVE i = j
      OBVIOUS
    <2>1. i \in 1 .. Len(touched) /\ j \in 1 .. Len(touched)
      BY <1>1
    <2>2. pixelOffset(touched[i]) = pixelOffset(touched[j])
      OBVIOUS
    <2> QED BY <2>1, <2>2, OffsetsDiffer
  <1>4. f \in [1 .. t - 1 -> D]
    BY <1>2
  <1>5. f \in Injection(1 .. t - 1, D)
    BY <1>3, <1>4 DEF Injection, IsInjective
  <1>6. f \in Surjection(1 .. t - 1, D)
    BY <1>2, <1>4 DEF Surjection
  <1> HIDE DEF D, f
  <1>7. ExistsBijection(1 .. t - 1, D)
    BY <1>5, <1>6 DEF ExistsBijection, Bijection
  <1>8. IsFiniteSet(1 .. t - 1) /\ Cardinality(1 .. t - 1) = t - 1
    <2> DEFINE k == t - 1
    <2>1. k \in Nat
      BY <1>1
    <2> HIDE DEF k
    <2>2. IsFiniteSet(1 .. k) /\ Cardinality(1 .. k) = IF 1 > k THEN 0 ELSE k - 1 + 1
      BY <2>1, FS_Interval
    <2>3. IsFiniteSet(1 .. k) /\ Cardinality(1 .. k) = k
      BY <2>1, <2>2
    <2> QED BY <2>3 DEF k
  <1> QED BY <1>7, <1>8, FS_Bijection DEF D

\* Each offset that is written to is that of a column and of a row of tiles.
LEMMA OffsetPlace ==
  ASSUME NEW r \in Requests, request = r, Selected(r), Stitched, NEW offset \in DOMAIN image
  PROVE  \E x \in BeginX(r) .. EndX(r), y \in clampedStartY(r) .. EndY(r) :
           /\ image[offset] = TileAt(x, y)
           /\ offset % Pitch = (x - BeginX(r)) * AsterPixelsPerDegree
           /\ offset \div Pitch = (Num(Y(r)) - (y - BeginY(r)) - 1) * AsterPixelsPerDegree
           /\ (offset % Pitch) + AsterPixelsPerDegree < Pitch
           /\ (offset \div Pitch) + AsterPixelsPerDegree < Pixels(Num(Y(request)))
PROOF
  <1>1. PICK x \in BeginX(r) .. EndX(r), y \in clampedStartY(r) .. EndY(r) :
          /\ offset = pixelOffset(TileAt(x, y)) /\ image[offset] = TileAt(x, y)
    BY ImagePlaces
  <1> DEFINE c == x - BeginX(r)
             w == Num(Y(r)) - (y - BeginY(r)) - 1
  <1>2. /\ c \in 0 .. Num(X(r)) - 1 /\ w \in 0 .. Num(Y(r)) - 1
        /\ offset = (w * Pitch + c) * AsterPixelsPerDegree
    BY <1>1, PlaceInImage
  <1> HIDE DEF c, w
  <1>3. /\ offset % Pitch = c * AsterPixelsPerDegree
        /\ offset \div Pitch = w * AsterPixelsPerDegree
        /\ (offset % Pitch) + AsterPixelsPerDegree < Pitch
        /\ (offset \div Pitch) + AsterPixelsPerDegree < Pixels(Num(Y(request)))
    BY <1>2, OffsetOfPlace
  <1> QED BY <1>1, <1>3 DEF c, w

\* For every request, the tiles that are stitched have places of their own within
\* the image that was allocated, the sampler weighs nothing outside of it, and it reads
\* no more outside of it than one row, whatever the sizes of the request, of its pixels
\* and of those of the source.
THEOREM NothingBeyondImage == Spec => []WithinImage
PROOF
  <1>1. AsterInv => WithinImage
    <2> SUFFICES ASSUME AsterInv, pc = "load" PROVE WithinImage
      BY DEF WithinImage, TilesFit, WindowInside
    <2>1. PICK r \in Requests : request = r /\ Selected(r) /\ Stitched
      BY DEF AsterInv, Handling, Stitching
    <2>2. TilesFit
      <3>1. Len(touched) <= MaxNumAsterTiles * MaxNumAsterTiles
        BY <2>1 DEF Selected
      <3>2. Cardinality(DOMAIN image) = t - 1
        BY <2>1, ImageSize
      <3>3. ASSUME NEW offset \in DOMAIN image
            PROVE  /\ (offset % Pitch) + AsterPixelsPerDegree < Pitch
                   /\ (offset \div Pitch) + AsterPixelsPerDegree < Pixels(Num(Y(request)))
        BY <2>1, OffsetPlace
      <3> QED BY <3>1, <3>2, <3>3 DEF TilesFit
    <2>3. WindowInside
      BY <2>1, WindowFits DEF WindowInside
    <2> QED BY <2>2, <2>3 DEF WithinImage
  <1> QED BY <1>1, AsterInvAlways, PTL

-----------------------------------------------------------------------------
(* Where the tiles lie                                                     *)

LEMMA Multiple ==
  ASSUME NEW d \in Nat \ {0}, NEW q \in Int
  PROVE  (q * d) % d = 0
PROOF
  <1> DEFINE a == q * d
  <1>1. a \in Int /\ a = q * d + 0 /\ 0 \in 0 .. d - 1
    OBVIOUS
  <1> HIDE DEF a
  <1>2. a % d = 0
    BY <1>1, Quotient
  <1> QED BY <1>2 DEF a

\* On every globe and for every request, also across the date border, the pixels
\* of a tile lie where the sampler takes them to be.
THEOREM TilesWhereSampled == Spec => []TilesInPlace
PROOF
  <1>1. AsterInv => TilesInPlace
    <2> SUFFICES ASSUME AsterInv, NEW offset \in DOMAIN image
                 PROVE  LET column == offset % Pitch
                            row == offset \div Pitch
                            west == LoadedWest \div Pixel(X(request))
                            north == LoadedNorth \div Pixel(Y(request))
                        IN  /\ (image[offset][1] * AsterPixelsPerDegree - (west + column)) % Globe = 0
                            /\ (image[offset][2] + 1) * AsterPixelsPerDegree = north - row
      BY DEF TilesInPlace
    <2>1. PICK r \in Requests : request = r /\ Selected(r) /\ Stitched
      BY DEF AsterInv, Handling, Stitching
    <2>2. PICK x \in BeginX(r) .. EndX(r), y \in clampedStartY(r) .. EndY(r) :
            /\ image[offset] = TileAt(x, y)
            /\ offset % Pitch = (x - BeginX(r)) * AsterPixelsPerDegree
            /\ offset \div Pitch = (Num(Y(r)) - (y - BeginY(r)) - 1) * AsterPixelsPerDegree
      BY <2>1, OffsetPlace
    <2> DEFINE g == AsterPixelsPerDegree
               n == NumASTERTilesX
               f == First(X(r))
               l == Last(Y(r))
               s == AsterTileStartLongitude
               u == asterTileStartLatitude
    <2>3. /\ g \in Nat \ {0} /\ n \in Nat \ {0} /\ s \in Int /\ u \in Int
      BY AsterAssumption, GlobeSize, TableRows
    <2>4. /\ f \in Int /\ l \in Int /\ BeginX(r) = f - s /\ l = First(Y(r)) + Num(Y(r)) - 1
          /\ BeginY(r) = First(Y(r)) - u /\ First(Y(r)) \in Int /\ Num(Y(r)) \in Nat
      BY AxesOfRequest, AxisTiles DEF BeginX, BeginY
    <2>5. x \in Int /\ y \in Int
      BY RequestTiles
    <2>6. LoadedWest \div Pixel(X(r)) = f * g
      <3> DEFINE p == Pixel(X(r))
                 w == LoadedWest
      <3>1. p \in Nat \ {0} /\ w = f * Degree(X(r)) /\ Degree(X(r)) = g * p
        BY <2>1, AxesOfRequest, AxisUnits, OffsetsOfSampler DEF Degree
      <3> HIDE DEF f, g, p, w
      <3>2. w = (f * g) * p + 0 /\ f * g \in Int /\ w \in Int /\ 0 \in 0 .. p - 1
        BY <2>3, <2>4, <3>1
      <3> DEFINE q == f * g
      <3>3. w = q * p + 0 /\ q \in Int
        BY <3>2
      <3> HIDE DEF q
      <3>4. w \div p = q
        BY <3>1, <3>2, <3>3, Quotient
      <3> QED BY <3>4 DEF q, p, w
    <2>7. LoadedNorth \div Pixel(Y(r)) = (l + 1) * g
      <3> DEFINE p == Pixel(Y(r))
                 w == LoadedNorth
      <3>1. p \in Nat \ {0} /\ w = (l + 1) * Degree(Y(r)) /\ Degree(Y(r)) = g * p
        BY <2>1, AxesOfRequest, AxisUnits, OffsetsOfSampler DEF Degree
      <3> DEFINE k == l + 1
      <3>5. k \in Int
        BY <2>4
      <3> HIDE DEF k, g, p, w
      <3>2. w = (k * g) * p + 0 /\ k * g \in Int /\ w \in Int /\ 0 \in 0 .. p - 1
        BY <2>3, <3>1, <3>5 DEF k
      <3> DEFINE q == k * g
      <3>3. w = q * p + 0 /\ q \in Int
        BY <3>2
      <3> HIDE DEF q
      <3>4. w \div p = q
        BY <3>1, <3>2, <3>3, Quotient
      <3> QED BY <3>4 DEF q, p, w, k
    <2>8. (image[offset][1] * g - (f * g + (x - BeginX(r)) * g)) % Globe = 0
      <3> DEFINE q == (x + n) \div n
                 c == (x + n) % n
      <3>1. q \in Int /\ c \in Int /\ x + n = n * q + c
        <4>1. x + n \in Int
          BY <2>3, <2>5
        <4> QED BY <2>3, <4>1, Division
      <3>2. image[offset][1] = s + c
        BY <2>2 DEF TileAt
      <3> HIDE DEF q, c, g, n, f, s
      <3>3. (s + c) - (f + (x - (f - s))) = n * (1 - q)
        BY <2>3, <2>4, <2>5, <3>1
      <3>4. (s + c) * g - (f * g + (x - (f - s)) * g) = ((s + c) - (f + (x - (f - s)))) * g
        BY <2>3, <2>4, <2>5, <3>1
      <3>5. (n * (1 - q)) * g = (1 - q) * (n * g) /\ n * g \in Nat \ {0} /\ 1 - q \in Int
        BY <2>3, <3>1
      <3>6. ((1 - q) * (n * g)) % (n * g) = 0
        BY <3>5, Multiple
      <3>7. Globe = n * g
        BY DEF Globe, n, g
      <3> QED BY <2>4, <3>2, <3>3, <3>4, <3>5, <3>6, <3>7
    <2>9. (image[offset][2] + 1) * g = (l + 1) * g - (Num(Y(r)) - (y - BeginY(r)) - 1) * g
      <3>1. image[offset][2] = u + y
        BY <2>2 DEF TileAt
      <3> DEFINE k == Num(Y(r))
                 h == First(Y(r))
      <3>2. k \in Int /\ h \in Int /\ l = h + k - 1 /\ BeginY(r) = h - u
        BY <2>4
      <3> HIDE DEF k, h, g, u, l
      <3>3. u + y + 1 = (l + 1) - (k - (y - (h - u)) - 1)
        BY <2>3, <2>5, <3>2
      <3>4. (l + 1) * g - (k - (y - (h - u)) - 1) * g = ((l + 1) - (k - (y - (h - u)) - 1)) * g
        BY <2>3, <2>4, <2>5, <3>2
      <3> QED BY <3>1, <3>2, <3>3, <3>4 DEF k
    <2> QED BY <2>1, <2>2, <2>6, <2>7, <2>8, <2>9
  <1> QED BY <1>1, AsterInvAlways, PTL

-----------------------------------------------------------------------------
(* Which tiles are selected                                                *)

\* The places of a request are those of the tiles that meet its padded box.
LEMMA TilesTouched ==
  ASSUME NEW r \in Requests, Num(X(r)) <= MaxNumAsterTiles, NEW tile \in Tiles
  PROVE  Touches(tile, r) <=> \E p \in Places(r) : tile = TileAt(p[1], p[2])
PROOF
  <1> DEFINE n == NumASTERTilesX
             s == AsterTileStartLongitude
             u == asterTileStartLatitude
             f == First(X(r))
             l == Last(X(r))
             h == First(Y(r))
             k == Last(Y(r))
  <1>1. /\ n \in Nat \ {0} /\ n >= 4 /\ s \in Int /\ u \in Int /\ n = -2 * s
        /\ AsterTileEndLongitude = -s - 1
        /\ asterTileEndLatitude \in Int /\ u <= asterTileEndLatitude
    BY GlobeSize, TableRows
  <1>2. /\ f \in Int /\ l \in Int /\ l = f + Num(X(r)) - 1 /\ Num(X(r)) \in 1 .. 4
        /\ h \in Int /\ k \in Int /\ f <= l /\ h <= k
    BY AxesOfRequest, AxisTiles DEF MaxNumAsterTiles
  <1>3. BeginX(r) = f - s /\ EndX(r) = l - s /\ f - s \in -n .. n - 1
    BY RequestTiles DEF BeginX, EndX
  <1>4. /\ clampedStartY(r) = IF h - u > 0 THEN h - u ELSE 0
        /\ EndY(r) = IF k < asterTileEndLatitude THEN k - u ELSE asterTileEndLatitude - u
    BY DEF clampedStartY, BeginY, EndY, Bigger, Smaller
  <1>5. /\ tile[1] \in s .. -s - 1 /\ tile[2] \in u .. asterTileEndLatitude
        /\ tile = <<tile[1], tile[2]>>
    BY <1>1, TableRows
  <1> DEFINE A(z) == z * Degree(X(r)) < High(X(r)) /\ (z + 1) * Degree(X(r)) > Low(X(r))
             B(z) == z * Degree(Y(r)) < High(Y(r)) /\ (z + 1) * Degree(Y(r)) > Low(Y(r))
  <1>6. \A z \in Int : (z \in f .. l <=> A(z)) /\ (z \in h .. k <=> B(z))
    BY AxesOfRequest, AxisTiles
  <1>7. Touches(tile, r) <=> (\E turn \in -1 .. 1 : A(tile[1] + turn * n)) /\ B(tile[2])
    BY DEF Touches
  <1> HIDE DEF A, B, f, l, h, k, s, u, n
  <1>8. tile[1] \in Int /\ tile[2] \in Int
    BY <1>1, <1>5
  <1>9. ASSUME Touches(tile, r) PROVE \E p \in Places(r) : tile = TileAt(p[1], p[2])
    <2>1. PICK turn \in -1 .. 1 : A(tile[1] + turn * n)
      BY <1>7, <1>9
    <2> DEFINE x == tile[1] + turn * n - s
               y == tile[2] - u
    <2>2. turn * n \in Int /\ turn \in Int
      BY <1>1
    <2>3. tile[1] + turn * n \in f .. l
      <3>1. tile[1] + turn * n \in Int
        BY <1>8, <2>2
      <3> QED BY <1>6, <2>1, <3>1
    <2>4. x \in BeginX(r) .. EndX(r) /\ x \in Int
      <3> DEFINE z == tile[1] + turn * n
      <3>1. z \in f .. l
        BY <2>3
      <3> HIDE DEF z
      <3>2. z - s \in f - s .. l - s /\ z - s \in Int
        BY <1>1, <1>2, <3>1
      <3>3. x = z - s
        BY <1>1, <1>8, <2>2 DEF z
      <3> HIDE DEF x
      <3> QED BY <1>3, <3>2, <3>3
    <2>5. tile[2] \in h .. k
      BY <1>6, <1>7, <1>8, <1>9
    <2>6. y \in clampedStartY(r) .. EndY(r)
      BY <1>1, <1>2, <1>4, <1>5, <1>8, <2>5
    <2>7. (x + n) % n = tile[1] - s
      <3> DEFINE c == tile[1] - s
      <3>1. c \in 0 .. n - 1 /\ turn + 1 \in Int
        BY <1>1, <1>5, <1>8
      <3>2. x + n = (turn + 1) * n + c /\ x + n \in Int
        BY <1>1, <1>8, <2>2, <2>4
      <3> HIDE DEF c, x
      <3>3. (x + n) % n = c
        BY <1>1, <3>1, <3>2, Quotient
      <3> QED BY <3>3 DEF c
    <2>8. TileAt(x, y) = tile
      <3>1. s + ((x + n) % n) = tile[1] /\ u + y = tile[2]
        BY <1>1, <1>8, <2>7
      <3>2. TileAt(x, y) = <<s + ((x + n) % n), u + y>>
        BY DEF TileAt, s, u, n
      <3> QED BY <1>5, <3>1, <3>2
    <2>9. <<x, y>> \in Places(r)
      BY <2>4, <2>6 DEF Places
    <2> HIDE DEF x, y
    <2> QED BY <2>8, <2>9
  <1>10. ASSUME NEW p \in Places(r), tile = TileAt(p[1], p[2]) PROVE Touches(tile, r)
    <2> DEFINE x == p[1]
               y == p[2]
               q == (x + n) \div n
               c == (x + n) % n
    <2>1. x \in BeginX(r) .. EndX(r) /\ y \in clampedStartY(r) .. EndY(r)
      BY DEF Places
    <2>2. x \in f - s .. l - s /\ x \in -n .. 2 * n - 1 /\ x \in Int
      <3> HIDE DEF x
      <3> QED BY <1>1, <1>2, <1>3, <2>1
    <2>3. c \in 0 .. n - 1 /\ q \in Int /\ x + n = n * q + c
      <3>1. x + n \in Int
        BY <1>1, <2>2
      <3> QED BY <1>1, <3>1, Division
    <2>4. tile[1] = s + c /\ tile[2] = u + y
      BY <1>10 DEF TileAt, s, u, n
    <2> HIDE DEF x, y, q, c
    <2>5. q \in 0 .. 2
      <3>1. 0 * n <= x + n /\ x + n < (2 + 1) * n /\ x + n \in Int
        BY <1>1, <2>2
      <3>2. 0 <= (x + n) \div n /\ (x + n) \div n <= 2
        BY <1>1, <3>1, QuotientAtLeast, QuotientAtMost
      <3> QED BY <2>3, <3>2 DEF q
    <2>6. q - 1 \in -1 .. 1 /\ tile[1] + (q - 1) * n = x + s
      <3>1. (q - 1) * n = n * q - n /\ n * q \in Int
        BY <1>1, <2>3
      <3> QED BY <1>1, <2>2, <2>3, <2>4, <2>5, <3>1
    <2>7. A(tile[1] + (q - 1) * n)
      <3>1. x + s \in f .. l /\ x + s \in Int
        BY <1>1, <1>2, <2>2
      <3> QED BY <1>6, <2>6, <3>1
    <2>8. B(tile[2])
      <3>1. tile[2] \in h .. k
        BY <1>1, <1>2, <1>4, <2>1, <2>4
      <3> QED BY <1>6, <1>8, <3>1
    <2>9. \E turn \in -1 .. 1 : A(tile[1] + turn * n)
      BY <2>6, <2>7
    <2> QED BY <1>7, <2>8, <2>9
  <1> QED BY <1>9, <1>10

\* An answer is computed of all the tiles that meet the padded box and of nothing
\* else, on every globe, whatever tiles there are and wherever the box lies.
THEOREM NoTileLeftOut == Spec => []AnswersAreWhole
PROOF
  <1>1. AsterInv => AnswersAreWhole
    <2> SUFFICES ASSUME AsterInv, pc = "reply", result = "OK"
                 PROVE  {image[offset] : offset \in DOMAIN image}
                          = {tile \in Tiles : Touches(tile, request)}
      BY DEF AnswersAreWhole
    <2>1. PICK r \in Requests : request = r /\ Selected(r) /\ Stitched
      BY DEF AsterInv, Handling, Stitching
    <2>2. t = Len(touched) + 1
      BY DEF AsterInv
    <2>3. touched \in Seq(Tiles) /\ Len(touched) \in Nat /\ t - 1 = Len(touched)
      BY <2>2, LenProperties DEF AsterInv
    <2>4. /\ DOMAIN image = {pixelOffset(touched[i]) : i \in 1 .. Len(touched)}
          /\ \A i \in 1 .. Len(touched) : image[pixelOffset(touched[i])] = touched[i]
      BY <2>1, <2>3 DEF Stitched
    <2>5. {image[offset] : offset \in DOMAIN image} = {touched[i] : i \in 1 .. Len(touched)}
      <3> DEFINE f(i) == pixelOffset(touched[i])
      <3>1. /\ DOMAIN image = {f(i) : i \in 1 .. Len(touched)}
            /\ \A i \in 1 .. Len(touched) : image[f(i)] = touched[i]
        BY <2>4
      <3> HIDE DEF f
      <3> QED BY <3>1
    <2>6. ASSUME NEW i \in 1 .. Len(touched)
          PROVE  touched[i] \in Tiles /\ Touches(touched[i], r)
      <3>1. touched[i] \in Tiles
        BY <2>3, ElementOfSeq
      <3>2. \E p \in Places(r) : touched[i] = TileAt(p[1], p[2])
        BY <2>1 DEF Selected, Holds
      <3>3. Num(X(r)) <= MaxNumAsterTiles
        BY <2>1 DEF Selected
      <3> QED BY <3>1, <3>2, <3>3, TilesTouched
    <2>7. ASSUME NEW tile \in Tiles, Touches(tile, r)
          PROVE  \E i \in 1 .. Len(touched) : touched[i] = tile
      <3>1. Num(X(r)) <= MaxNumAsterTiles
        BY <2>1 DEF Selected
      <3>2. PICK p \in Places(r) : tile = TileAt(p[1], p[2])
        BY <2>7, <3>1, TilesTouched
      <3>3. \E i \in 1 .. Len(touched) : touched[i] = TileAt(p[1], p[2])
        BY <2>1, <3>2 DEF Selected, Holds
      <3> QED BY <3>2, <3>3
    <2> QED BY <2>1, <2>5, <2>6, <2>7
  <1> QED BY <1>1, AsterInvAlways, PTL
=============================================================================
