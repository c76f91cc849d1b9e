--------------------------- MODULE TileCacheProofs ---------------------------
(***************************************************************************)
(* Proofs about TileCache, for every grid, every set of valid source       *)
(* tiles, every number of threads and any number of faults.                *)
(***************************************************************************)
EXTENDS TileCache, FiniteSetTheorems, TLAPS

-----------------------------------------------------------------------------
(* The geometry of the grid and the order of its traversal *)

\* A tile is the triple of its components.
LEMMA TileTriple ==
  ASSUME NEW t \in Tile
  PROVE  /\ t[1] \in Levels
         /\ t[2] \in 0 .. TilesX(t[1]) - 1
         /\ t[3] \in 0 .. TilesY(t[1]) - 1
         /\ t = <<t[1], t[2], t[3]>>
PROOF
  <1>1. t \in Levels \X (0 .. NumTilesX - 1) \X (0 .. NumTilesY - 1)
    BY DEF Tile
  <1>2. TilesX(t[1]) \in Nat /\ TilesY(t[1]) \in Nat
    BY <1>1, GridAssumption
  <1> QED BY <1>1, <1>2 DEF Tile

\* Columns and rows within a level make a tile.
LEMMA TripleIsTile ==
  ASSUME NEW l \in Levels,
         NEW x \in 0 .. TilesX(l) - 1,
         NEW y \in 0 .. TilesY(l) - 1
  PROVE  <<l, x, y>> \in Tile
PROOF
  <1>1. /\ TilesX(l) \in 1 .. NumTilesX /\ TilesY(l) \in 1 .. NumTilesY
        /\ NumTilesX \in Nat /\ NumTilesY \in Nat
    BY GridAssumption
  <1>2. x \in 0 .. NumTilesX - 1 /\ y \in 0 .. NumTilesY - 1
        /\ x < TilesX(l) /\ y < TilesY(l)
    BY <1>1
  <1> QED BY <1>2 DEF Tile

\* The iterations of a row are source tiles.
LEMMA SourceAtIsTile ==
  ASSUME row \in 0 .. NumTilesY - 1, NEW x \in Column
  PROVE  SourceAt(x) \in SourceTile
PROOF
  <1>1. Top \in Levels
    BY GridAssumption DEF Top, Levels
  <1>2. x \in 0 .. TilesX(Top) - 1 /\ row \in 0 .. TilesY(Top) - 1
    BY GridAssumption DEF Column
  <1>3. <<Top, x, row>> \in Tile
    BY <1>1, <1>2, TripleIsTile
  <1> QED BY <1>3 DEF SourceAt, SourceTile

\* The four sub-tiles of a tile are tiles of the next finer level.
LEMMA SubTileIsTile ==
  ASSUME NEW t \in Tile, t[1] # Top, NEW i \in 0 .. 3
  PROVE  SubTile(t, i) \in Tile /\ SubTile(t, i)[1] = t[1] + 1
PROOF
  <1>1. /\ t[1] \in Levels \ {Top} /\ t[1] + 1 \in Levels
        /\ t[2] \in 0 .. TilesX(t[1]) - 1 /\ t[3] \in 0 .. TilesY(t[1]) - 1
    BY TileTriple, GridAssumption DEF Levels, Top
  <1>2. /\ TilesX(t[1] + 1) = 2 * TilesX(t[1]) /\ TilesX(t[1]) \in Nat
        /\ TilesY(t[1] + 1) = 2 * TilesY(t[1]) /\ TilesY(t[1]) \in Nat
    BY <1>1, GridAssumption
  <1>3. i % 2 \in 0 .. 1 /\ i \div 2 \in 0 .. 1
    OBVIOUS
  <1>4. /\ 2 * t[2] + (i % 2) \in 0 .. TilesX(t[1] + 1) - 1
        /\ 2 * t[3] + (i \div 2) \in 0 .. TilesY(t[1] + 1) - 1
    BY <1>1, <1>2, <1>3
  <1>5. SubTile(t, i) \in Tile
    BY <1>1, <1>4, TripleIsTile DEF SubTile
  <1> QED BY <1>5 DEF SubTile

\* The loops visit tiles only ...
LEMMA NextTileIsTile ==
  ASSUME NEW t \in Tile, ~IsLastTile(t)
  PROVE  NextTile(t) \in Tile
PROOF
  <1>1. /\ t[1] \in Levels
        /\ t[2] \in 0 .. TilesX(t[1]) - 1 /\ t[3] \in 0 .. TilesY(t[1]) - 1
        /\ TilesX(t[1]) \in Nat /\ TilesY(t[1]) \in Nat
    BY TileTriple, GridAssumption
  <1>2. CASE t[2] < TilesX(t[1]) - 1
    <2>1. t[2] + 1 \in 0 .. TilesX(t[1]) - 1
      BY <1>1, <1>2
    <2>2. <<t[1], t[2] + 1, t[3]>> \in Tile
      BY <1>1, <2>1, TripleIsTile
    <2> QED BY <1>2, <2>2 DEF NextTile
  <1>3. CASE ~(t[2] < TilesX(t[1]) - 1) /\ t[3] < TilesY(t[1]) - 1
    <2>1. t[3] + 1 \in 0 .. TilesY(t[1]) - 1 /\ 0 \in 0 .. TilesX(t[1]) - 1
      BY <1>1, <1>3
    <2>2. <<t[1], 0, t[3] + 1>> \in Tile
      BY <1>1, <2>1, TripleIsTile
    <2> QED BY <1>3, <2>2 DEF NextTile
  <1>4. CASE ~(t[2] < TilesX(t[1]) - 1) /\ ~(t[3] < TilesY(t[1]) - 1)
    <2>1. IsLastOfLevel(t)
      BY <1>1, <1>4 DEF IsLastOfLevel
    <2>2. t[1] # 0
      BY <2>1 DEF IsLastTile
    <2>3. t[1] - 1 \in Levels
      BY <1>1, <2>2, GridAssumption DEF Levels, Top
    <2>4. 0 \in 0 .. TilesX(t[1] - 1) - 1 /\ 0 \in 0 .. TilesY(t[1] - 1) - 1
      BY <2>3, GridAssumption
    <2>5. <<t[1] - 1, 0, 0>> \in Tile
      BY <2>3, <2>4, TripleIsTile
    <2> QED BY <1>4, <2>5 DEF NextTile
  <1> QED BY <1>2, <1>3, <1>4

\* ... and skip none: what precedes the next tile is visited already.
LEMMA NextTileSkipsNone ==
  ASSUME NEW t \in Tile, ~IsLastTile(t), NEW s \in Tile, Before(s, NextTile(t))
  PROVE  Before(s, t) \/ s = t
PROOF
  <1>1. /\ t[1] \in Int /\ t[2] \in 0 .. TilesX(t[1]) - 1 /\ t[3] \in 0 .. TilesY(t[1]) - 1
        /\ TilesX(t[1]) \in Nat /\ TilesY(t[1]) \in Nat
        /\ t = <<t[1], t[2], t[3]>>
    BY TileTriple, GridAssumption DEF Levels
  <1>2. /\ s[1] \in Int /\ s[2] \in 0 .. TilesX(s[1]) - 1 /\ s[3] \in 0 .. TilesY(s[1]) - 1
        /\ TilesX(s[1]) \in Nat /\ TilesY(s[1]) \in Nat
        /\ s = <<s[1], s[2], s[3]>>
    BY TileTriple, GridAssumption DEF Levels
  <1>3. SUFFICES s[1] > t[1] \/ (s[1] = t[1] /\ s[3] < t[3])
                 \/ (s[1] = t[1] /\ s[3] = t[3] /\ s[2] <= t[2])
    BY <1>1, <1>2 DEF Before
  <1>4. CASE t[2] < TilesX(t[1]) - 1
    BY <1>1, <1>2, <1>4 DEF Before, NextTile
  <1>5. CASE ~(t[2] < TilesX(t[1]) - 1) /\ t[3] < TilesY(t[1]) - 1
    BY <1>1, <1>2, <1>5 DEF Before, NextTile
  <1>6. CASE ~(t[2] < TilesX(t[1]) - 1) /\ ~(t[3] < TilesY(t[1]) - 1)
    <2>1. NextTile(t) = <<t[1] - 1, 0, 0>>
      BY <1>6 DEF NextTile
    <2>2. s[1] >= t[1]
      BY <1>1, <1>2, <2>1 DEF Before
    <2>3. CASE s[1] = t[1]
      BY <1>1, <1>2, <1>6, <2>3
    <2> QED BY <1>1, <1>2, <2>2, <2>3
  <1> QED BY <1>4, <1>5, <1>6

\* The loops never return to a finer level.
LEMMA NextTileLevel ==
  ASSUME NEW t \in Tile, t[1] < Top
  PROVE  NextTile(t)[1] < Top
PROOF
  <1>1. t[1] \in Int /\ Top \in Int
    BY TileTriple, GridAssumption DEF Levels, Top
  <1> QED BY <1>1 DEF NextTile

\* The first tile of the coarsest level.
LEMMA OriginIsTile == <<0, 0, 0>> \in Tile
PROOF
  <1>1. 0 \in Levels
    BY GridAssumption DEF Levels, Top
  <1>2. 0 \in 0 .. TilesX(0) - 1 /\ 0 \in 0 .. TilesY(0) - 1
    BY <1>1, GridAssumption
  <1> QED BY <1>1, <1>2, TripleIsTile

\* The first tile of the finest level of mip tiles.
LEMMA FirstMipIsTile ==
  ASSUME Top # 0
  PROVE  <<Top - 1, 0, 0>> \in Tile
PROOF
  <1>1. Top - 1 \in Levels
    BY GridAssumption DEF Levels, Top
  <1>2. 0 \in 0 .. TilesX(Top - 1) - 1 /\ 0 \in 0 .. TilesY(Top - 1) - 1
    BY <1>1, GridAssumption
  <1> QED BY <1>1, <1>2, TripleIsTile

-----------------------------------------------------------------------------
(* Type correctness *)

\* Recording a tile keeps the table of file states well-typed.
LEMMA RecordType ==
  ASSUME fileStatus \in [Tile -> Status], NEW t, NEW content, Record(t, content)
  PROVE  fileStatus' \in [Tile -> Status]
PROOF BY DEF Record, Status

\* Writing a file keeps the directory well-typed.
LEMMA PutType ==
  ASSUME file \in [Tile -> FileState], pixels \in [Tile -> Content],
         NEW t, NEW state \in FileState, NEW content \in Content,
         Put(t, state, content)
  PROVE  file' \in [Tile -> FileState] /\ pixels' \in [Tile -> Content]
PROOF BY DEF Put

\* The loops stay on the grid.
LEMMA AdvanceType ==
  ASSUME mip \in Tile, mip[1] < Top, NEW goOn, Advance(goOn)
  PROVE  /\ phase' \in Phase /\ mip' \in Tile /\ mpc' \in MipPC
         /\ sub' \in 0 .. 4 /\ higherLevel' \in Content
         /\ phase' = "Mips" => mip'[1] < Top
PROOF
  <1>1. CASE goOn /\ ~IsLastTile(mip)
    BY <1>1, NextTileIsTile, NextTileLevel DEF Advance, Phase, MipPC, Content
  <1>2. CASE ~(goOn /\ ~IsLastTile(mip))
    BY <1>2, OriginIsTile DEF Advance, Phase, MipPC, Content
  <1> QED BY <1>1, <1>2

\* The death of the process leaves the state well-typed.
LEMMA DieType ==
  ASSUME TypeOK, Die, faults' \in 0 .. MaxFaults
  PROVE  TypeOK'
PROOF
  <1>1. PICK cut \in [Writing -> {"zero", "torn"}] :
          /\ file' = [t \in Tile |-> IF t \in Writing THEN cut[t] ELSE file[t]]
          /\ pixels' = [t \in Tile |-> IF t \in Writing THEN {} ELSE pixels[t]]
    BY DEF Die
  <1>2. file' \in [Tile -> FileState]
    BY <1>1 DEF TypeOK, FileState
  <1>3. pixels' \in [Tile -> Content]
    BY <1>1 DEF TypeOK, Content
  <1>4. Writing \subseteq Tile
    BY SourceAtIsTile DEF Writing, TypeOK, SourceTile
  <1>5. damage' \subseteq Tile
    BY <1>4 DEF TypeOK, Die
  <1>6. row' \in 0 .. NumTilesY - 1
    BY GridAssumption DEF Die
  <1> QED BY <1>2, <1>3, <1>5, <1>6, OriginIsTile
          DEF TypeOK, Die, Phase, WorkerPC, MipPC, Content

\* Every step of an iteration of the parallel loop is well-typed.
LEMMA IterationType ==
  ASSUME TypeOK, NEW x \in Column, Iteration(x)
  PROVE  TypeOK'
PROOF
  <1> USE DEF mipVars, memVars, diskVars, histVars
  <1>0. SourceAt(x) \in SourceTile /\ SourceAt(x) \in Tile
    BY SourceAtIsTile DEF TypeOK, SourceTile
  <1>1. {SourceAt(x)} \in Content /\ {} \in Content
    BY <1>0 DEF Content
  <1>2. \A st \in {"zero", "torn", "whole"} : st \in FileState
    BY DEF FileState
  <1>3. CASE Begin(x)
    BY <1>3 DEF TypeOK, Begin, GoTo, WorkerPC
  <1>4. CASE Request(x)
    BY <1>4 DEF TypeOK, Request, Step, GoTo, WorkerPC
  <1>5. CASE Reply(x)
    BY <1>5 DEF TypeOK, Reply, Step, GoTo, WorkerPC
  <1>6. CASE ReplyFails(x)
    BY <1>6 DEF TypeOK, ReplyFails, Step, GoTo, WorkerPC
  <1>7. CASE StoreFails(x)
    BY <1>7 DEF TypeOK, StoreFails, Step, GoTo, WorkerPC
  <1>8. CASE OpenTile(x)
    <2>1. file' \in [Tile -> FileState] /\ pixels' \in [Tile -> Content]
      BY <1>1, <1>2, <1>8, PutType DEF OpenTile, TypeOK
    <2> QED BY <1>8, <2>1 DEF TypeOK, OpenTile, Step, GoTo, WorkerPC
  <1>9. CASE WriteTile(x)
    <2>1. file' \in [Tile -> FileState] /\ pixels' \in [Tile -> Content]
      BY <1>1, <1>2, <1>9, PutType DEF WriteTile, TypeOK
    <2>2. fileStatus' \in [Tile -> Status]
      BY <1>9, RecordType DEF WriteTile, TypeOK
    <2> QED BY <1>9, <2>1, <2>2 DEF TypeOK, WriteTile, Step, GoTo, WorkerPC
  <1>10. CASE ShortWriteTile(x)
    <2>1. PICK st \in {"zero", "torn"} : Put(SourceAt(x), st, {})
      BY <1>10 DEF ShortWriteTile
    <2>2. file' \in [Tile -> FileState] /\ pixels' \in [Tile -> Content]
      BY <1>1, <1>2, <2>1, PutType DEF TypeOK
    <2>3. fileStatus' \in [Tile -> Status]
      BY <1>10, RecordType DEF ShortWriteTile, TypeOK
    <2>4. faults' \in 0 .. MaxFaults
      BY <1>10, CacheAssumption DEF ShortWriteTile, Fault, TypeOK
    <2> QED BY <1>0, <1>10, <2>2, <2>3, <2>4
            DEF TypeOK, ShortWriteTile, Step, GoTo, WorkerPC
  <1>11. CASE ConvertEmpty(x)
    BY <1>11 DEF TypeOK, ConvertEmpty, Step, GoTo, WorkerPC
  <1>12. CASE OpenEmpty(x)
    <2>1. file' \in [Tile -> FileState] /\ pixels' \in [Tile -> Content]
      BY <1>1, <1>2, <1>12, PutType DEF OpenEmpty, TypeOK
    <2> QED BY <1>12, <2>1 DEF TypeOK, OpenEmpty, Step, GoTo, WorkerPC
  <1>13. CASE WriteEmpty(x)
    <2>1. file' \in [Tile -> FileState] /\ pixels' \in [Tile -> Content]
      BY <1>1, <1>2, <1>13, PutType DEF WriteEmpty, TypeOK
    <2>2. fileStatus' \in [Tile -> Status]
      BY <1>13, RecordType DEF WriteEmpty, TypeOK
    <2> QED BY <1>13, <2>1, <2>2 DEF TypeOK, WriteEmpty, Step, GoTo, WorkerPC
  <1>14. CASE WriteRacedEmpty(x)
    <2>1. PICK st \in {"zero", "torn"} : Put(SourceAt(x), st, {})
      BY <1>14 DEF WriteRacedEmpty
    <2>2. file' \in [Tile -> FileState] /\ pixels' \in [Tile -> Content]
      BY <1>1, <1>2, <2>1, PutType DEF TypeOK
    <2>3. fileStatus' \in [Tile -> Status]
      BY <1>14, RecordType DEF WriteRacedEmpty, TypeOK
    <2> QED BY <1>0, <1>14, <2>2, <2>3
            DEF TypeOK, WriteRacedEmpty, Step, GoTo, WorkerPC
  <1>15. CASE ShortWriteEmpty(x)
    <2>1. PICK st \in {"zero", "torn"} : Put(SourceAt(x), st, {})
      BY <1>15 DEF ShortWriteEmpty
    <2>2. file' \in [Tile -> FileState] /\ pixels' \in [Tile -> Content]
      BY <1>1, <1>2, <2>1, PutType DEF TypeOK
    <2>3. fileStatus' \in [Tile -> Status]
      BY <1>15, RecordType DEF ShortWriteEmpty, TypeOK
    <2>4. faults' \in 0 .. MaxFaults
      BY <1>15, CacheAssumption DEF ShortWriteEmpty, Fault, TypeOK
    <2> QED BY <1>0, <1>15, <2>2, <2>3, <2>4
            DEF TypeOK, ShortWriteEmpty, Step, GoTo, WorkerPC
  <1> QED BY <1>3, <1>4, <1>5, <1>6, <1>7, <1>8, <1>9, <1>10, <1>11, <1>12,
             <1>13, <1>14, <1>15 DEF Iteration

\* What is loaded is on the grid.
LEMMA LoadingIsTile ==
  ASSUME TypeOK, AtSubTile
  PROVE  Loading \in Tile
PROOF
  <1>1. mip \in Tile /\ mip[1] # Top /\ sub \in 0 .. 3
    BY GridAssumption DEF TypeOK, AtSubTile, At, Top
  <1> QED BY <1>1, SubTileIsTile DEF Loading

\* Every step of the mip loops is well-typed.
LEMMA MipStepType ==
  ASSUME TypeOK, MipStep
  PROVE  TypeOK'
PROOF
  <1> USE DEF memVars, diskVars, histVars
  <1>1. CASE SkipMip
    <2>1. mip \in Tile /\ mip[1] < Top /\ Advance(TRUE)
      BY <1>1 DEF SkipMip, TypeOK, At
    <2> QED BY <1>1, <2>1, AdvanceType DEF TypeOK, SkipMip
  <1>2. CASE BeginMip
    BY <1>2 DEF TypeOK, BeginMip, MipPC
  <1>3. CASE SkipSubTile
    BY <1>3 DEF TypeOK, SkipSubTile, AtSubTile
  <1>4. CASE LoadSubTile
    <2>1. Loading \in Tile
      BY <1>4, LoadingIsTile DEF LoadSubTile
    <2>2. pixels[Loading] \in Content /\ higherLevel \in Content
      BY <2>1 DEF TypeOK
    <2>3. higherLevel' \in Content
      BY <1>4, <2>2 DEF LoadSubTile, Content
    <2> QED BY <1>4, <2>3 DEF TypeOK, LoadSubTile, AtSubTile
  <1>5. CASE GiveUpLoading /\ AtSubTile /\ faults' \in 0 .. MaxFaults
    <2>1. sub' \in 0 .. 4
      BY <1>5 DEF GiveUpLoading
    <2>2. damage' \subseteq Tile
      BY <1>5 DEF TypeOK, GiveUpLoading
    <2>3. keepRunning' \in BOOLEAN
      BY <1>5 DEF GiveUpLoading
    <2> QED BY <1>5, <2>1, <2>2, <2>3 DEF TypeOK, GiveUpLoading
  <1>6. CASE LoadError
    BY <1>5, <1>6, CacheAssumption DEF LoadError, Fault, TypeOK
  <1>7. CASE LoadDamaged
    BY <1>5, <1>7 DEF LoadDamaged, TypeOK
  <1>8. CASE LoadJunk
    BY <1>8 DEF TypeOK, LoadJunk, AtSubTile, Content
  <1>9. CASE LoadCrash
    BY <1>9, DieType DEF LoadCrash, TypeOK
  <1>10. CASE OpenMip
    <2>1. file' \in [Tile -> FileState] /\ pixels' \in [Tile -> Content]
      BY <1>10, PutType DEF OpenMip, TypeOK, FileState, Content
    <2> QED BY <1>10, <2>1 DEF TypeOK, OpenMip, MipPC
  <1>11. CASE StoreMipFails
    <2>1. mip \in Tile /\ mip[1] < Top /\ Advance(FALSE)
      BY <1>11 DEF StoreMipFails, TypeOK, AtStore, At
    <2>2. faults' \in 0 .. MaxFaults
      BY <1>11, CacheAssumption DEF StoreMipFails, Fault, TypeOK
    <2> QED BY <1>11, <2>1, <2>2, AdvanceType DEF TypeOK, StoreMipFails
  <1>12. CASE WriteMip
    <2>0. "whole" \in FileState /\ higherLevel \in Content
      BY DEF FileState, TypeOK
    <2>1. file' \in [Tile -> FileState] /\ pixels' \in [Tile -> Content]
      BY <1>12, <2>0, PutType DEF WriteMip, TypeOK
    <2>2. fileStatus' \in [Tile -> Status]
      BY <1>12, RecordType DEF WriteMip, TypeOK
    <2>3. mip \in Tile /\ mip[1] < Top /\ Advance(keepRunning)
      BY <1>12 DEF WriteMip, TypeOK, At
    <2> QED BY <1>12, <2>1, <2>2, <2>3, AdvanceType DEF TypeOK, WriteMip
  <1>13. CASE ShortWriteMip
    <2>1. PICK st \in {"zero", "torn"} : Put(mip, st, {})
      BY <1>13 DEF ShortWriteMip
    <2>0. st \in FileState /\ {} \in Content
      BY DEF FileState, Content
    <2>2. file' \in [Tile -> FileState] /\ pixels' \in [Tile -> Content]
      BY <2>0, <2>1, PutType DEF TypeOK
    <2>3. fileStatus' \in [Tile -> Status]
      BY <1>13, RecordType DEF ShortWriteMip, TypeOK
    <2>4. mip \in Tile /\ mip[1] < Top /\ Advance(keepRunning)
      BY <1>13 DEF ShortWriteMip, TypeOK, At
    <2>5. faults' \in 0 .. MaxFaults
      BY <1>13, CacheAssumption DEF ShortWriteMip, Fault, TypeOK
    <2> QED BY <1>13, <2>2, <2>3, <2>4, <2>5, AdvanceType DEF TypeOK, ShortWriteMip
  <1> QED BY <1>1, <1>2, <1>3, <1>4, <1>6, <1>7, <1>8, <1>9, <1>10, <1>11,
             <1>12, <1>13 DEF MipStep

LEMMA NextType ==
  ASSUME TypeOK, [Next]_vars
  PROVE  TypeOK'
PROOF
  <1> USE DEF mipVars, memVars, diskVars, histVars
  <1>1. CASE Start
    BY <1>1 DEF TypeOK, Start, EnumerateFiles, Enumerated, Status, Phase
  <1>2. CASE Crash
    BY <1>2, DieType, CacheAssumption DEF Crash, Fault, TypeOK
  <1>3. CASE \E x \in Column : Iteration(x)
    BY <1>3, IterationType
  <1>4. CASE RaceCrash
    BY <1>4, DieType DEF RaceCrash, TypeOK
  <1>5. CASE NextRow
    <2>1. row' \in 0 .. NumTilesY - 1
      BY <1>5, GridAssumption DEF NextRow, TypeOK
    <2> QED BY <1>5, <2>1 DEF TypeOK, NextRow, WorkerPC
  <1>6. CASE FinishLevel0
    <2>1. row' \in 0 .. NumTilesY - 1
      BY <1>6, GridAssumption DEF FinishLevel0
    <2>2. mip' \in Tile /\ phase' \in Phase
      BY <1>6, FirstMipIsTile DEF FinishLevel0, TypeOK, Phase
    <2>3. phase' = "Mips" => mip'[1] < Top
      BY <1>6, GridAssumption DEF FinishLevel0, Top
    <2> QED BY <1>6, <2>1, <2>2, <2>3 DEF TypeOK, FinishLevel0, WorkerPC
  <1>7. CASE MipStep
    BY <1>7, MipStepType
  <1>8. CASE UNCHANGED vars
    BY <1>8 DEF TypeOK, vars
  <1> QED BY <1>1, <1>2, <1>3, <1>4, <1>5, <1>6, <1>7, <1>8 DEF Next

(***************************************************************************)
(* Every reachable state of the cache is well-typed: in particular the     *)
(* loops never leave the grid and never index the tables out of range.     *)
(***************************************************************************)
THEOREM TypeCorrect == Spec => []TypeOK
PROOF
  <1>1. Init => TypeOK
    BY OriginIsTile, GridAssumption, CacheAssumption
       DEF Init, TypeOK, Status, FileState, Content, Phase, WorkerPC, MipPC
  <1>2. TypeOK /\ [Next]_vars => TypeOK'
    BY NextType
  <1> QED BY <1>1, <1>2, PTL DEF Spec

-----------------------------------------------------------------------------
(* The inductive invariant *)

\* The rows done and the finished columns have a state; the busy ones not yet.
RowInv ==
  phase = "Level0" =>
    /\ \A t \in SourceTile : t[3] < row => fileStatus[t] # "Missing"
    /\ \A x \in Column :
         /\ worker[x] = "Finished" => fileStatus[SourceAt(x)] # "Missing"
         /\ worker[x] \notin {"Idle", "Finished"} => fileStatus[SourceAt(x)] = "Missing"

\* All the tiles before the one the mip loops stand at have a state.
MipInv ==
  phase = "Mips" =>
    /\ \A t \in Tile : Before(t, mip) => fileStatus[t] # "Missing"
    /\ mpc # "visit" => fileStatus[mip] = "Missing"

\* Outside its own phase each half of the work is at its start.
RestInv ==
  /\ phase # "Level0" => row = 0 /\ \A x \in Column : worker[x] = "Idle"
  /\ phase # "Mips" => mpc = "visit"

\* A file is cut short only while it is written, or for good by a fault.
DamageInv ==
  \A t \in Tile : /\ file[t] \in {"zero", "torn"} => t \in damage \cup Writing
                  /\ t \in Writing => file[t] = "zero"

IInv ==
  /\ TypeOK
  /\ RowInv
  /\ MipInv
  /\ RestInv
  /\ DamageInv
  /\ StatusTracksDisk
  /\ Grounded
  /\ DoneMeansComplete

\* What moving one column to another place does to the set of open files.
LEMMA WritingMoves ==
  ASSUME TypeOK, phase = "Level0", phase' = phase, row' = row,
         NEW x \in Column, NEW to, GoTo(x, to)
  PROVE  /\ to \in {"WriteTile", "WriteEmpty"} => Writing' = Writing \cup {SourceAt(x)}
         /\ to \notin {"WriteTile", "WriteEmpty"} => Writing' = Writing \ {SourceAt(x)}
         /\ worker[x] \in {"WriteTile", "WriteEmpty"} <=> SourceAt(x) \in Writing
PROOF
  <1>1. \A z \in Column : worker'[z] = IF z = x THEN to ELSE worker[z]
    BY DEF TypeOK, GoTo
  <1>2. \A z \in Column : SourceAt(z)' = SourceAt(z) /\ (SourceAt(z) = SourceAt(x) <=> z = x)
    BY DEF SourceAt
  <1>3. Writing = {SourceAt(z) : z \in {c \in Column : worker[c] \in {"WriteTile", "WriteEmpty"}}}
    BY DEF Writing
  <1>4. Writing' = {SourceAt(z) : z \in {c \in Column : worker'[c] \in {"WriteTile", "WriteEmpty"}}}
    BY <1>2 DEF Writing
  <1> QED BY <1>1, <1>2, <1>3, <1>4

\* A step of an iteration that touches neither the table nor the directory.
LEMMA QuietIteration ==
  ASSUME IInv, TypeOK', phase = "Level0", phase' = phase, row' = row,
         NEW x \in Column, NEW to, GoTo(x, to),
         to \notin {"Idle", "WriteTile", "WriteEmpty"},
         worker[x] \notin {"WriteTile", "WriteEmpty"},
         to = "Finished" => fileStatus[SourceAt(x)] # "Missing",
         to # "Finished" => fileStatus[SourceAt(x)] = "Missing",
         UNCHANGED <<fileStatus, file, pixels, damage, mpc>>
  PROVE  IInv'
PROOF
  <1>1. Writing' = Writing
    BY WritingMoves DEF IInv
  <1>2. RowInv'
    <2>1. \A z \in Column : worker'[z] = IF z = x THEN to ELSE worker[z]
      BY DEF IInv, TypeOK, GoTo
    <2> QED BY <2>1 DEF IInv, RowInv, SourceAt
  <1>3. MipInv' /\ RestInv'
    BY DEF IInv, MipInv, RestInv
  <1>4. DamageInv'
    BY <1>1 DEF IInv, DamageInv
  <1>5. StatusTracksDisk'
    BY <1>1 DEF IInv, StatusTracksDisk
  <1>6. Grounded' /\ DoneMeansComplete'
    BY DEF IInv, Grounded, DoneMeansComplete
  <1> QED BY <1>2, <1>3, <1>4, <1>5, <1>6 DEF IInv

\* A source tile has no sub-tiles, so opening its file needs none.
LEMMA OpenIteration ==
  ASSUME IInv, TypeOK', phase = "Level0", phase' = phase, row' = row,
         NEW x \in Column, NEW to \in {"WriteTile", "WriteEmpty"}, GoTo(x, to),
         worker[x] \in {"Store", "OpenEmpty"},
         Put(SourceAt(x), "zero", {}),
         UNCHANGED <<fileStatus, damage, mpc>>
  PROVE  IInv'
PROOF
  <1>0. SourceAt(x) \in Tile /\ SourceAt(x) \in SourceTile
    BY SourceAtIsTile DEF IInv, TypeOK, SourceTile
  <1>1. Writing' = Writing \cup {SourceAt(x)}
    BY WritingMoves DEF IInv
  <1>2. fileStatus[SourceAt(x)] = "Missing"
    BY DEF IInv, RowInv
  <1>3. \A t \in Tile : /\ file'[t] = IF t = SourceAt(x) THEN "zero" ELSE file[t]
                        /\ t # SourceAt(x) => pixels'[t] = pixels[t]
    BY DEF Put, IInv, TypeOK
  <1>4. RowInv'
    <2>1. \A z \in Column : worker'[z] = IF z = x THEN to ELSE worker[z]
      BY DEF IInv, TypeOK, GoTo
    <2> QED BY <1>2, <2>1 DEF IInv, RowInv, SourceAt
  <1>5. MipInv' /\ RestInv' /\ DoneMeansComplete'
    BY DEF IInv, MipInv, RestInv, DoneMeansComplete
  <1>6. DamageInv'
    BY <1>1, <1>3 DEF IInv, DamageInv
  <1>7. StatusTracksDisk'
    BY <1>1, <1>2, <1>3 DEF IInv, StatusTracksDisk
  <1>8. Grounded'
    <2>1. SubTiles(SourceAt(x)) = {}
      BY <1>0 DEF SourceTile, SubTiles
    <2>2. \A t \in Tile : file[t] # "absent" => file'[t] # "absent"
      BY <1>3
    <2> SUFFICES ASSUME NEW t \in Tile, file'[t] # "absent", NEW s \in SubTiles(t)
                 PROVE  file'[s] # "absent"
      BY DEF Grounded
    <2>3. t # SourceAt(x)
      BY <2>1
    <2>4. file[s] # "absent"
      BY <1>3, <2>3 DEF IInv, Grounded
    <2>5. s \in Tile
      BY SubTileIsTile DEF SubTiles
    <2> QED BY <2>2, <2>4, <2>5
  <1> QED BY <1>4, <1>5, <1>6, <1>7, <1>8 DEF IInv

\* The file is complete, or cut short and counted as damage; either way the
\* table knows it now.
LEMMA CloseIteration ==
  ASSUME IInv, TypeOK', phase = "Level0", phase' = phase, row' = row,
         NEW x \in Column, GoTo(x, "Finished"),
         worker[x] \in {"WriteTile", "WriteEmpty"},
         NEW state \in {"zero", "torn", "whole"}, NEW content, NEW known,
         Put(SourceAt(x), state, content),
         Record(SourceAt(x), known),
         known = {} /\ SourceAt(x) \notin damage' => content = {},
         damage \subseteq damage', mpc' = mpc,
         state # "whole" => SourceAt(x) \in damage'
  PROVE  IInv'
PROOF
  <1>0. SourceAt(x) \in Tile
    BY SourceAtIsTile DEF IInv, TypeOK, SourceTile
  <1>1. Writing' = Writing \ {SourceAt(x)} /\ SourceAt(x) \in Writing
    BY WritingMoves DEF IInv
  <1>2. \A t \in Tile : /\ file'[t] = IF t = SourceAt(x) THEN state ELSE file[t]
                        /\ pixels'[t] = IF t = SourceAt(x) THEN content ELSE pixels[t]
    BY DEF Put, IInv, TypeOK
  <1>3. \A t \in Tile : fileStatus'[t] = IF t # SourceAt(x) THEN fileStatus[t]
                                        ELSE IF known = {} THEN "Empty" ELSE "Exists"
    BY DEF Record, IInv, TypeOK
  <1>4. RowInv'
    <2>1. \A z \in Column : worker'[z] = IF z = x THEN "Finished" ELSE worker[z]
      BY DEF IInv, TypeOK, GoTo
    <2>2. \A z \in Column : /\ SourceAt(z) \in Tile
                            /\ z # x => SourceAt(z) # SourceAt(x)
      BY SourceAtIsTile DEF SourceAt, IInv, TypeOK, SourceTile
    <2>3. \A z \in Column :
            /\ worker'[z] = "Finished" => fileStatus'[<<Top, z, row>>] # "Missing"
            /\ worker'[z] \notin {"Idle", "Finished"}
                 => fileStatus'[<<Top, z, row>>] = "Missing"
      <3> TAKE z \in Column
      <3>1. CASE z = x
        BY <1>0, <1>3, <2>1, <3>1 DEF SourceAt
      <3>2. CASE z # x
        <4>0. SourceAt(z) \in Tile
          BY <2>2
        <4>2. SourceAt(z) # SourceAt(x)
          BY <2>2, <3>2
        <4>1. fileStatus'[SourceAt(z)] = fileStatus[SourceAt(z)]
          BY <1>3, <4>0, <4>2
        <4> QED BY <2>1, <3>2, <4>1 DEF IInv, RowInv, SourceAt
      <3> QED BY <3>1, <3>2
    <2>4. \A t \in SourceTile : t[3] < row => fileStatus'[t] # "Missing"
      BY <1>3 DEF IInv, RowInv, SourceTile
    <2> QED BY <2>3, <2>4 DEF RowInv, SourceAt
  <1>5. MipInv' /\ RestInv' /\ DoneMeansComplete'
    BY DEF IInv, MipInv, RestInv, DoneMeansComplete
  <1>6. DamageInv'
    BY <1>1, <1>2 DEF IInv, DamageInv
  <1>7. StatusTracksDisk'
    BY <1>1, <1>2, <1>3 DEF IInv, StatusTracksDisk
  <1>8. Grounded'
    <2>1. file[SourceAt(x)] # "absent"
      BY <1>0, <1>1 DEF IInv, StatusTracksDisk, DamageInv, RowInv
    <2>2. \A t \in Tile : file'[t] # "absent" <=> file[t] # "absent"
      BY <1>2, <2>1
    <2>3. \A t \in Tile : SubTiles(t) \subseteq Tile
      BY SubTileIsTile DEF SubTiles
    <2> QED BY <2>2, <2>3 DEF IInv, Grounded
  <1> QED BY <1>4, <1>5, <1>6, <1>7, <1>8 DEF IInv

\* Every step of an iteration preserves the invariant.
LEMMA IterationInv ==
  ASSUME IInv, TypeOK', NEW x \in Column, Iteration(x)
  PROVE  IInv'
PROOF
  <1> USE DEF mipVars, memVars, diskVars, histVars
  <1>1. CASE Begin(x)
    <2>1. PICK to \in {"Finished", "Request"} :
            /\ GoTo(x, to)
            /\ to = "Finished" <=> fileStatus[SourceAt(x)] # "Missing"
      BY <1>1 DEF Begin
    <2> QED BY <1>1, <2>1, QuietIteration DEF Begin
  <1>2. CASE Request(x)
    BY <1>2, QuietIteration DEF Request, Step, IInv, RowInv
  <1>3. CASE Reply(x)
    <2>1. PICK to \in {"Store", "Convert"} : GoTo(x, to)
      BY <1>3 DEF Reply, Step
    <2> QED BY <1>3, <2>1, QuietIteration DEF Reply, Step, IInv, RowInv
  <1>4. CASE ReplyFails(x)
    BY <1>4, QuietIteration DEF ReplyFails, Step, IInv, RowInv
  <1>5. CASE StoreFails(x)
    BY <1>5, QuietIteration DEF StoreFails, Step, IInv, RowInv
  <1>6. CASE OpenTile(x)
    BY <1>6, OpenIteration DEF OpenTile, Step
  <1>7. CASE WriteTile(x)
    BY <1>7, CloseIteration DEF WriteTile, Step
  <1>8. CASE ShortWriteTile(x)
    BY <1>8, CloseIteration DEF ShortWriteTile, Step
  <1>9. CASE ConvertEmpty(x)
    BY <1>9, QuietIteration DEF ConvertEmpty, Step, IInv, RowInv
  <1>10. CASE OpenEmpty(x)
    BY <1>10, OpenIteration DEF OpenEmpty, Step
  <1>11. CASE WriteEmpty(x)
    BY <1>11, CloseIteration DEF WriteEmpty, Step
  <1>12. CASE WriteRacedEmpty(x)
    BY <1>12, CloseIteration DEF WriteRacedEmpty, Step
  <1>13. CASE ShortWriteEmpty(x)
    BY <1>13, CloseIteration DEF ShortWriteEmpty, Step
  <1> QED BY <1>1, <1>2, <1>3, <1>4, <1>5, <1>6, <1>7, <1>8, <1>9, <1>10,
             <1>11, <1>12, <1>13 DEF Iteration

\* The process may die anywhere.
LEMMA DieInv ==
  ASSUME IInv, TypeOK', Die
  PROVE  IInv'
PROOF
  <1>1. PICK cut \in [Writing -> {"zero", "torn"}] :
          file' = [t \in Tile |-> IF t \in Writing THEN cut[t] ELSE file[t]]
    BY DEF Die
  <1>2. Writing' = {} /\ damage' = damage \cup Writing
    BY DEF Die, Writing
  <1>3. RowInv' /\ MipInv' /\ StatusTracksDisk' /\ DoneMeansComplete'
    BY DEF Die, RowInv, MipInv, StatusTracksDisk, DoneMeansComplete
  <1>4. RestInv'
    BY DEF Die, RestInv
  <1>5. DamageInv'
    BY <1>1, <1>2 DEF IInv, DamageInv
  <1>6. Grounded'
    <2>1. \A t \in Tile : file'[t] # "absent" <=> file[t] # "absent"
      BY <1>1 DEF IInv, DamageInv
    <2>2. \A t \in Tile : SubTiles(t) \subseteq Tile
      BY SubTileIsTile DEF SubTiles
    <2> QED BY <2>1, <2>2 DEF IInv, Grounded
  <1> QED BY <1>3, <1>4, <1>5, <1>6 DEF IInv

\* What the directory tells a new process is what the last one knew.
LEMMA StartInv ==
  ASSUME IInv, TypeOK', Start
  PROVE  IInv'
PROOF
  <1> USE DEF mipVars, memVars, diskVars, histVars
  <1>1. /\ row' = 0 /\ mpc' = "visit" /\ Writing = {}
        /\ \A x \in Column : worker'[x] = "Idle"
    BY DEF Start, IInv, RestInv, Writing
  <1>2. Writing' = {}
    BY <1>1 DEF Start, Writing
  <1>3. RowInv'
    <2>1. \A t \in SourceTile : ~(t[3] < 0)
      BY DEF SourceTile, Tile
    <2> QED BY <1>1, <2>1 DEF RowInv
  <1>4. MipInv' /\ DoneMeansComplete' /\ RestInv'
    BY <1>1 DEF Start, MipInv, DoneMeansComplete, RestInv
  <1>5. DamageInv' /\ Grounded'
    BY <1>1, <1>2 DEF Start, IInv, DamageInv, Grounded
  <1>6. StatusTracksDisk'
    <2>1. \A t \in Tile : fileStatus'[t] = Enumerated(t)
      BY DEF Start, EnumerateFiles
    <2>2. \A t \in Tile : file[t] \in {"zero", "torn"} => t \in damage
      BY <1>1 DEF IInv, DamageInv
    <2>3. file' = file /\ pixels' = pixels /\ damage' = damage
      BY DEF Start
    <2>4. \A t \in Tile : file[t] \in FileState
      BY DEF IInv, TypeOK
    <2> QED BY <1>2, <2>1, <2>2, <2>3, <2>4 DEF StatusTracksDisk, Enumerated, FileState
  <1> QED BY <1>3, <1>4, <1>5, <1>6 DEF IInv

\* When all columns of a row are finished, the whole row has a state.
LEMMA RowDone ==
  ASSUME IInv, RowFinished
  PROVE  /\ Writing = {}
         /\ \A t \in SourceTile : t[3] <= row => fileStatus[t] # "Missing"
PROOF
  <1>1. Writing = {}
    BY DEF RowFinished, Writing
  <1>2. \A t \in SourceTile : /\ t[2] \in Column /\ t[3] \in Int
                              /\ t = <<Top, t[2], t[3]>>
    BY TileTriple, GridAssumption DEF SourceTile, Column
  <1>3. \A x \in Column : fileStatus[SourceAt(x)] # "Missing"
    BY DEF RowFinished, IInv, RowInv
  <1>4. row \in Int
    BY GridAssumption DEF IInv, TypeOK
  <1>5. \A t \in SourceTile : t[3] = row => t = SourceAt(t[2])
    BY <1>2 DEF SourceAt
  <1>6. \A t \in SourceTile : t[3] = row => fileStatus[t] # "Missing"
    BY <1>2, <1>3, <1>5
  <1>7. \A t \in SourceTile : t[3] < row => fileStatus[t] # "Missing"
    BY DEF RowFinished, IInv, RowInv
  <1> QED BY <1>1, <1>2, <1>4, <1>6, <1>7

\* The barrier between two rows.
LEMMA NextRowInv ==
  ASSUME IInv, TypeOK', NextRow
  PROVE  IInv'
PROOF
  <1> USE DEF mipVars, diskVars, histVars
  <1>1. /\ Writing = {}
        /\ \A t \in SourceTile : t[3] <= row => fileStatus[t] # "Missing"
    BY RowDone DEF NextRow
  <1>2. phase' = "Level0" /\ \A x \in Column : worker'[x] = "Idle"
    BY DEF NextRow, RowFinished
  <1>3. Writing' = {}
    BY <1>2 DEF Writing
  <1>4. RowInv'
    <2>1. \A t \in SourceTile : t[3] \in Int
      BY TileTriple, GridAssumption DEF SourceTile
    <2>2. row \in Int /\ row' = row + 1 /\ fileStatus' = fileStatus
      BY GridAssumption DEF IInv, TypeOK, NextRow
    <2> QED BY <1>1, <1>2, <2>1, <2>2 DEF RowInv
  <1>5. MipInv' /\ RestInv' /\ DoneMeansComplete'
    BY <1>2 DEF NextRow, RowFinished, IInv, RestInv, MipInv, DoneMeansComplete
  <1>6. DamageInv' /\ Grounded'
    BY <1>1, <1>3 DEF NextRow, IInv, DamageInv, Grounded
  <1>7. StatusTracksDisk'
    BY <1>1, <1>3 DEF NextRow, RowFinished, IInv, StatusTracksDisk
  <1> QED BY <1>4, <1>5, <1>6, <1>7 DEF IInv

\* After the last row all source tiles have a state, and the mip loops begin.
LEMMA FinishLevel0Inv ==
  ASSUME IInv, TypeOK', FinishLevel0
  PROVE  IInv'
PROOF
  <1> USE DEF diskVars, histVars
  <1>1. /\ Writing = {} /\ mpc = "visit"
        /\ \A t \in SourceTile : t[3] <= row => fileStatus[t] # "Missing"
    BY RowDone DEF FinishLevel0, RowFinished, IInv, RestInv
  <1>2. \A t \in SourceTile : fileStatus[t] # "Missing"
    <2>1. \A t \in SourceTile : t[3] \in 0 .. NumTilesY - 1
      BY DEF SourceTile, Tile
    <2>2. row = NumTilesY - 1 /\ NumTilesY \in Int
      BY GridAssumption DEF FinishLevel0
    <2> QED BY <1>1, <2>1, <2>2
  <1>3. /\ phase' \in {"Mips", "Done"} /\ mpc' = "visit" /\ fileStatus' = fileStatus
        /\ row' = 0 /\ \A x \in Column : worker'[x] = "Idle"
    BY <1>1 DEF FinishLevel0
  <1>4. Writing' = {}
    BY <1>3 DEF Writing
  <1>5. RowInv' /\ RestInv'
    BY <1>3 DEF RowInv, RestInv
  <1>6. \A t \in Tile : t[1] \in 0 .. Top /\ Top \in Int
    BY TileTriple, GridAssumption DEF Levels, Top
  <1>7. MipInv'
    <2>1. SUFFICES ASSUME phase' = "Mips", NEW t \in Tile, Before(t, <<Top - 1, 0, 0>>)
                   PROVE  t \in SourceTile
      BY <1>2, <1>3 DEF MipInv, FinishLevel0
    <2>2. t[3] \in Nat /\ t[2] \in Nat
      BY DEF Tile
    <2> QED BY <1>6, <2>1, <2>2 DEF Before, SourceTile
  <1>8. DoneMeansComplete'
    <2>1. phase' = "Done" => Top = 0
      BY DEF FinishLevel0
    <2>2. Top = 0 => Tile = SourceTile
      BY <1>6 DEF SourceTile
    <2> QED BY <1>2, <1>3, <2>1, <2>2 DEF DoneMeansComplete
  <1>9. DamageInv' /\ Grounded'
    BY <1>1, <1>4 DEF FinishLevel0, IInv, DamageInv, Grounded
  <1>10. StatusTracksDisk'
    BY <1>1, <1>4 DEF FinishLevel0, RowFinished, IInv, StatusTracksDisk
  <1> QED BY <1>5, <1>7, <1>8, <1>9, <1>10 DEF IInv

\* The last tile in loop order comes after all others.
LEMMA LastTileIsLast ==
  ASSUME NEW m \in Tile, IsLastTile(m), NEW t \in Tile
  PROVE  Before(t, m) \/ t = m
PROOF
  <1>1. /\ m[1] = 0 /\ m[2] = TilesX(0) - 1 /\ m[3] = TilesY(0) - 1
        /\ m = <<m[1], m[2], m[3]>>
    BY TileTriple DEF IsLastTile, IsLastOfLevel
  <1>2. /\ t[1] \in Nat
        /\ t[2] \in 0 .. TilesX(t[1]) - 1 /\ t[3] \in 0 .. TilesY(t[1]) - 1
        /\ TilesX(t[1]) \in Nat /\ TilesY(t[1]) \in Nat
        /\ t = <<t[1], t[2], t[3]>>
    BY TileTriple, GridAssumption DEF Levels
  <1>3. CASE t[1] > 0
    BY <1>1, <1>3 DEF Before
  <1>4. CASE t[1] = 0
    BY <1>1, <1>2, <1>4 DEF Before
  <1> QED BY <1>2, <1>3, <1>4

\* The end of the body of the mip loops: with the tile it stood at in the
\* table, or on the way out.
LEMMA AdvanceInv ==
  ASSUME IInv, TypeOK', phase = "Mips", NEW goOn, Advance(goOn),
         row' = row, worker' = worker,
         \A t \in Tile : fileStatus[t] # "Missing" => fileStatus'[t] # "Missing",
         goOn => fileStatus'[mip] # "Missing",
         keepRunning' => goOn
  PROVE  RowInv' /\ MipInv' /\ RestInv' /\ DoneMeansComplete' /\ Writing' = {}
PROOF
  <1>1. phase' \in {"Mips", "Done"} /\ mpc' = "visit"
    BY DEF Advance
  <1>2. RowInv' /\ RestInv' /\ Writing' = {}
    BY <1>1 DEF RowInv, RestInv, IInv, Writing
  <1>3. mip \in Tile
    BY DEF IInv, TypeOK
  <1>4. MipInv'
    <2> SUFFICES ASSUME phase' = "Mips", NEW t \in Tile, Before(t, mip')
                 PROVE  fileStatus'[t] # "Missing"
      BY <1>1 DEF MipInv
    <2>1. goOn /\ ~IsLastTile(mip) /\ mip' = NextTile(mip)
      BY DEF Advance
    <2>2. Before(t, mip) \/ t = mip
      BY <1>3, <2>1, NextTileSkipsNone
    <2> QED BY <2>1, <2>2 DEF IInv, MipInv
  <1>5. DoneMeansComplete'
    <2> SUFFICES ASSUME phase' = "Done", keepRunning', NEW t \in Tile
                 PROVE  fileStatus'[t] # "Missing"
      BY DEF DoneMeansComplete
    <2>1. goOn /\ IsLastTile(mip)
      BY DEF Advance
    <2>2. Before(t, mip) \/ t = mip
      BY <1>3, <2>1, LastTileIsLast
    <2> QED BY <2>1, <2>2 DEF IInv, MipInv
  <1> QED BY <1>2, <1>4, <1>5

\* A step of the mip loops that stays at its tile and stores nothing.
LEMMA QuietMip ==
  ASSUME IInv, TypeOK', phase = "Mips", mpc # "write",
         mpc' = "load", fileStatus[mip] = "Missing", damage \subseteq damage',
         UNCHANGED <<phase, mip, fileStatus, file, pixels, row, worker>>
  PROVE  IInv'
PROOF
  <1>1. Writing = {} /\ Writing' = {}
    BY DEF Writing
  <1>2. RowInv' /\ MipInv' /\ RestInv' /\ DoneMeansComplete'
    BY DEF IInv, RowInv, MipInv, RestInv, DoneMeansComplete
  <1>3. DamageInv' /\ Grounded' /\ StatusTracksDisk'
    BY <1>1 DEF IInv, DamageInv, Grounded, StatusTracksDisk
  <1> QED BY <1>2, <1>3 DEF IInv

\* The mip tile was open; now it is stored, whole or cut short.
LEMMA CloseMip ==
  ASSUME IInv, TypeOK', At("write"), Advance(keepRunning),
         row' = row, worker' = worker, keepRunning' = keepRunning,
         NEW state \in {"zero", "torn", "whole"}, NEW content,
         Put(mip, state, content),
         Record(mip, higherLevel),
         higherLevel = {} /\ mip \notin damage' => content = {},
         damage \subseteq damage',
         state # "whole" => mip \in damage'
  PROVE  IInv'
PROOF
  <1>0. mip \in Tile /\ Writing = {mip}
    BY DEF At, Writing, IInv, TypeOK
  <1>1. \A t \in Tile : /\ file'[t] = IF t = mip THEN state ELSE file[t]
                        /\ pixels'[t] = IF t = mip THEN content ELSE pixels[t]
    BY DEF Put, IInv, TypeOK
  <1>2. \A t \in Tile : fileStatus'[t] = IF t # mip THEN fileStatus[t]
                                        ELSE IF higherLevel = {} THEN "Empty" ELSE "Exists"
    BY DEF Record, IInv, TypeOK
  <1>3. RowInv' /\ MipInv' /\ RestInv' /\ DoneMeansComplete' /\ Writing' = {}
    <2>1. \A t \in Tile : fileStatus[t] # "Missing" => fileStatus'[t] # "Missing"
      BY <1>2
    <2>2. fileStatus'[mip] # "Missing"
      BY <1>0, <1>2
    <2> QED BY <2>1, <2>2, AdvanceInv DEF At
  <1>4. DamageInv'
    BY <1>0, <1>1, <1>3 DEF IInv, DamageInv
  <1>5. StatusTracksDisk'
    BY <1>0, <1>1, <1>2, <1>3 DEF IInv, StatusTracksDisk, At
  <1>6. Grounded'
    <2>1. file[mip] # "absent"
      BY <1>0 DEF IInv, DamageInv
    <2>2. \A t \in Tile : file'[t] # "absent" <=> file[t] # "absent"
      BY <1>1, <2>1
    <2>3. \A t \in Tile : SubTiles(t) \subseteq Tile
      BY SubTileIsTile DEF SubTiles
    <2> QED BY <2>2, <2>3 DEF IInv, Grounded
  <1> QED BY <1>3, <1>4, <1>5, <1>6 DEF IInv

\* When the loops stand at a tile, the tiles it is made of are all there.
LEMMA SubTilesArePresent ==
  ASSUME IInv, phase = "Mips", NEW s \in SubTiles(mip)
  PROVE  s \in Tile /\ file[s] # "absent"
PROOF
  <1>1. mip \in Tile /\ mip[1] # Top
    BY GridAssumption DEF IInv, TypeOK, Top
  <1>2. s \in Tile /\ s[1] = mip[1] + 1
    BY <1>1, SubTileIsTile DEF SubTiles
  <1>3. mip[1] \in Int
    BY <1>1, TileTriple DEF Levels
  <1>4. Before(s, mip)
    BY <1>2, <1>3 DEF Before
  <1>5. fileStatus[s] # "Missing"
    BY <1>2, <1>4 DEF IInv, MipInv
  <1> QED BY <1>2, <1>5 DEF IInv, StatusTracksDisk

\* The file of a mip tile is created over those of its sub-tiles.
LEMMA OpenMipInv ==
  ASSUME IInv, TypeOK', OpenMip
  PROVE  IInv'
PROOF
  <1> USE DEF memVars, diskVars, histVars
  <1>0. /\ mip \in Tile /\ phase = "Mips" /\ mpc = "load" /\ fileStatus[mip] = "Missing"
        /\ Writing = {} /\ Writing' = {mip}
    BY DEF OpenMip, AtStore, At, Writing, IInv, TypeOK, MipInv
  <1>1. \A t \in Tile : /\ file'[t] = IF t = mip THEN "zero" ELSE file[t]
                        /\ t # mip => pixels'[t] = pixels[t]
    BY DEF OpenMip, Put, IInv, TypeOK
  <1>2. RowInv' /\ MipInv' /\ RestInv' /\ DoneMeansComplete'
    BY <1>0 DEF OpenMip, IInv, RowInv, MipInv, RestInv, DoneMeansComplete
  <1>3. DamageInv'
    BY <1>0, <1>1 DEF OpenMip, IInv, DamageInv
  <1>4. StatusTracksDisk'
    BY <1>0, <1>1 DEF OpenMip, IInv, StatusTracksDisk
  <1>5. Grounded'
    <2>1. \A t \in Tile : file[t] # "absent" => file'[t] # "absent"
      BY <1>1
    <2> SUFFICES ASSUME NEW t \in Tile, file'[t] # "absent", NEW s \in SubTiles(t)
                 PROVE  file'[s] # "absent"
      BY DEF Grounded
    <2>2. s \in Tile
      BY SubTileIsTile DEF SubTiles
    <2>3. CASE t = mip
      BY <1>0, <2>1, <2>3, SubTilesArePresent
    <2>4. CASE t # mip
      BY <1>1, <2>1, <2>2, <2>4 DEF IInv, Grounded
    <2> QED BY <2>3, <2>4
  <1> QED BY <1>2, <1>3, <1>4, <1>5 DEF IInv

\* Every step of the mip loops preserves the invariant.
LEMMA MipStepInv ==
  ASSUME IInv, TypeOK', MipStep
  PROVE  IInv'
PROOF
  <1> USE DEF memVars, diskVars, histVars
  <1>1. ASSUME AtSubTile
        PROVE  phase = "Mips" /\ mpc = "load" /\ fileStatus[mip] = "Missing"
    BY <1>1 DEF AtSubTile, At, IInv, MipInv
  <1>2. CASE SkipMip
    <2>1. RowInv' /\ MipInv' /\ RestInv' /\ DoneMeansComplete' /\ Writing' = {}
      BY <1>2, AdvanceInv DEF SkipMip, At
    <2>2. Writing = {}
      BY <1>2 DEF SkipMip, At, Writing
    <2>3. DamageInv' /\ Grounded' /\ StatusTracksDisk'
      BY <1>2, <2>1, <2>2 DEF SkipMip, At, IInv, DamageInv, Grounded, StatusTracksDisk
    <2> QED BY <2>1, <2>3 DEF IInv
  <1>3. CASE BeginMip
    BY <1>3, QuietMip DEF BeginMip, At
  <1>4. CASE SkipSubTile
    BY <1>1, <1>4, QuietMip DEF SkipSubTile
  <1>5. CASE LoadSubTile
    BY <1>1, <1>5, QuietMip DEF LoadSubTile
  <1>6. CASE LoadError
    BY <1>1, <1>6, QuietMip, CacheAssumption DEF LoadError, GiveUpLoading, IInv, RestInv
  <1>7. CASE LoadDamaged
    BY <1>1, <1>7, QuietMip DEF LoadDamaged, GiveUpLoading
  <1>8. CASE LoadJunk
    BY <1>1, <1>8, QuietMip DEF LoadJunk
  <1>9. CASE LoadCrash
    BY <1>9, DieInv DEF LoadCrash
  <1>10. CASE OpenMip
    BY <1>10, OpenMipInv
  <1>11. CASE StoreMipFails
    <2>1. RowInv' /\ MipInv' /\ RestInv' /\ DoneMeansComplete' /\ Writing' = {}
      BY <1>11, AdvanceInv DEF StoreMipFails, AtStore, At
    <2>2. Writing = {}
      BY <1>11 DEF StoreMipFails, AtStore, At, Writing
    <2>3. DamageInv' /\ Grounded' /\ StatusTracksDisk'
      BY <1>11, <2>1, <2>2
         DEF StoreMipFails, AtStore, At, IInv, DamageInv, Grounded, StatusTracksDisk
    <2> QED BY <2>1, <2>3 DEF IInv
  <1>12. CASE WriteMip
    BY <1>12, CloseMip DEF WriteMip
  <1>13. CASE ShortWriteMip
    BY <1>13, CloseMip DEF ShortWriteMip
  <1> QED BY <1>2, <1>3, <1>4, <1>5, <1>6, <1>7, <1>8, <1>9, <1>10, <1>11,
             <1>12, <1>13 DEF MipStep

(***************************************************************************)
(* The invariant holds in every reachable state.                           *)
(***************************************************************************)
THEOREM Invariance == Spec => []IInv
PROOF
  <1>1. Init => IInv
    <2> SUFFICES ASSUME Init PROVE IInv
      OBVIOUS
    <2>1. TypeOK
      BY OriginIsTile, GridAssumption, CacheAssumption
         DEF Init, TypeOK, Status, FileState, Content, Phase, WorkerPC, MipPC
    <2>2. RowInv /\ MipInv /\ RestInv /\ StatusTracksDisk /\ DoneMeansComplete
      BY DEF Init, RowInv, MipInv, RestInv, StatusTracksDisk, DoneMeansComplete
    <2>3. Writing = {}
      BY DEF Init, Writing
    <2>4. DamageInv /\ Grounded
      BY <2>3 DEF Init, DamageInv, Grounded
    <2> QED BY <2>1, <2>2, <2>4 DEF IInv
  <1>2. IInv /\ [Next]_vars => IInv'
    <2> SUFFICES ASSUME IInv, [Next]_vars PROVE IInv'
      OBVIOUS
    <2> USE DEF mipVars, memVars, diskVars, histVars
    <2>0. TypeOK'
      BY NextType DEF IInv
    <2>1. CASE Start
      BY <2>0, <2>1, StartInv
    <2>2. CASE Crash
      BY <2>0, <2>2, DieInv DEF Crash
    <2>3. CASE \E x \in Column : Iteration(x)
      BY <2>0, <2>3, IterationInv
    <2>4. CASE RaceCrash
      BY <2>0, <2>4, DieInv DEF RaceCrash
    <2>5. CASE NextRow
      BY <2>0, <2>5, NextRowInv
    <2>6. CASE FinishLevel0
      BY <2>0, <2>6, FinishLevel0Inv
    <2>7. CASE MipStep
      BY <2>0, <2>7, MipStepInv
    <2>8. CASE UNCHANGED vars
      <3>1. Writing' = Writing
        BY <2>8 DEF vars, Writing, SourceAt
      <3> QED BY <2>0, <2>8, <3>1
              DEF vars, IInv, RowInv, MipInv, RestInv, DamageInv, StatusTracksDisk,
                  Grounded, DoneMeansComplete, SourceAt
    <2> QED BY <2>1, <2>2, <2>3, <2>4, <2>5, <2>6, <2>7, <2>8 DEF Next
  <1> QED BY <1>1, <1>2, PTL DEF Spec

(***************************************************************************)
(* Whatever fails and whenever the process dies: no mip tile without the   *)
(* four tiles under it.                                                    *)
(***************************************************************************)
THEOREM GroundedAlways == Spec => []Grounded
PROOF
  <1>1. IInv => Grounded
    BY DEF IInv
  <1> QED BY <1>1, Invariance, PTL

(***************************************************************************)
(* The table of file states is true of the directory, except of tiles that *)
(* a fault has damaged.                                                    *)
(***************************************************************************)
THEOREM StatusTracksDiskAlways == Spec => []StatusTracksDisk
PROOF
  <1>1. IInv => StatusTracksDisk
    BY DEF IInv
  <1> QED BY <1>1, Invariance, PTL

(***************************************************************************)
(* A thread that ends without an error has left no tile Missing.           *)
(***************************************************************************)
THEOREM DoneMeansCompleteAlways == Spec => []DoneMeansComplete
PROOF
  <1>1. IInv => DoneMeansComplete
    BY DEF IInv
  <1> QED BY <1>1, Invariance, PTL

-----------------------------------------------------------------------------
(* What a step may do to the directory *)

\* Nothing; or create the file of one tile over its sub-tiles; or end writing.
DiskStep ==
  \/ UNCHANGED diskVars /\ Writing' \subseteq Writing
  \/ \E t \in Tile : /\ file[t] = "absent"
                     /\ \A s \in SubTiles(t) : s \in Tile /\ file[s] # "absent"
                     /\ Put(t, "zero", {})
                     /\ Writing' = Writing \cup {t}
  \/ /\ Writing' \subseteq Writing
     /\ \A t \in Tile : /\ t \notin Writing => file'[t] = file[t] /\ pixels'[t] = pixels[t]
                        /\ t \in Writing => file'[t] # "absent"

\* The iteration of a column creates or ends the file of its own tile only.
LEMMA IterationDisk ==
  ASSUME IInv, NEW x \in Column, Iteration(x)
  PROVE  DiskStep
PROOF
  <1> USE DEF mipVars, memVars, diskVars, histVars
  <1> DEFINE S == SourceAt(x)
  <1>0. S \in Tile /\ S \in SourceTile
    BY SourceAtIsTile DEF IInv, TypeOK, SourceTile
  <1>1. ASSUME NEW to \in WorkerPC \ {"WriteTile", "WriteEmpty"},
               phase = "Level0", phase' = phase, row' = row, GoTo(x, to),
               UNCHANGED <<file, pixels>>
        PROVE  DiskStep
    <2>1. Writing' = Writing \ {S}
      BY <1>1, WritingMoves DEF IInv
    <2> QED BY <1>1, <2>1 DEF DiskStep
  <1>2. ASSUME worker[x] \in {"Store", "OpenEmpty"}, NEW to \in {"WriteTile", "WriteEmpty"},
               phase = "Level0", phase' = phase, row' = row, GoTo(x, to),
               Put(S, "zero", {})
        PROVE  DiskStep
    <2>1. fileStatus[S] = "Missing"
      BY <1>2 DEF IInv, RowInv
    <2>2. S \notin Writing /\ Writing' = Writing \cup {S}
      BY <1>2, WritingMoves DEF IInv
    <2>3. file[S] = "absent"
      BY <1>0, <1>2, <2>1, <2>2 DEF IInv, StatusTracksDisk
    <2>4. SubTiles(S) = {}
      BY <1>0 DEF SourceTile, SubTiles
    <2> QED BY <1>0, <1>2, <2>2, <2>3, <2>4 DEF DiskStep
  <1>3. ASSUME worker[x] \in {"WriteTile", "WriteEmpty"},
               phase = "Level0", phase' = phase, row' = row, GoTo(x, "Finished"),
               NEW st \in {"zero", "torn", "whole"}, NEW content, Put(S, st, content)
        PROVE  DiskStep
    <2>1. S \in Writing /\ Writing' = Writing \ {S}
      BY <1>3, WritingMoves DEF IInv
    <2>2. \A t \in Tile : /\ t # S => file'[t] = file[t] /\ pixels'[t] = pixels[t]
                          /\ t = S => file'[t] = st
      BY <1>3 DEF Put, IInv, TypeOK
    <2>3. \A t \in Writing : file[t] # "absent" \/ t \notin Tile
      BY DEF IInv, DamageInv
    <2> QED BY <1>3, <2>1, <2>2, <2>3 DEF DiskStep
  <1>4. CASE Begin(x)
    <2>1. PICK to \in {"Finished", "Request"} : GoTo(x, to)
      BY <1>4 DEF Begin
    <2> QED BY <1>1, <1>4, <2>1 DEF Begin, WorkerPC
  <1>5. CASE Request(x) \/ ReplyFails(x) \/ StoreFails(x) \/ ConvertEmpty(x)
    BY <1>1, <1>5 DEF Request, ReplyFails, StoreFails, ConvertEmpty, Step, WorkerPC
  <1>6. CASE Reply(x)
    <2>1. PICK to \in {"Store", "Convert"} : GoTo(x, to)
      BY <1>6 DEF Reply, Step
    <2> QED BY <1>1, <1>6, <2>1 DEF Reply, Step, WorkerPC
  <1>7. CASE OpenTile(x) \/ OpenEmpty(x)
    BY <1>2, <1>7 DEF OpenTile, OpenEmpty, Step
  <1>8. CASE WriteTile(x) \/ WriteEmpty(x)
    BY <1>3, <1>8 DEF WriteTile, WriteEmpty, Step
  <1>9. CASE ShortWriteTile(x) \/ ShortWriteEmpty(x) \/ WriteRacedEmpty(x)
    <2>1. PICK st \in {"zero", "torn"} : Put(S, st, {})
      BY <1>9 DEF ShortWriteTile, ShortWriteEmpty, WriteRacedEmpty
    <2> QED BY <1>3, <1>9, <2>1 DEF ShortWriteTile, ShortWriteEmpty, WriteRacedEmpty, Step
  <1> QED BY <1>4, <1>5, <1>6, <1>7, <1>8, <1>9 DEF Iteration

\* The mip loops end the writing of the tile they stand at.
LEMMA MipDisk ==
  ASSUME IInv, At("write"), NEW goOn, Advance(goOn),
         NEW st \in {"zero", "torn", "whole"}, NEW content, Put(mip, st, content)
  PROVE  DiskStep
PROOF
  <1>1. Writing = {mip} /\ Writing' = {}
    BY DEF At, Advance, Writing
  <1>2. \A t \in Tile : /\ t # mip => file'[t] = file[t] /\ pixels'[t] = pixels[t]
                        /\ t = mip => file'[t] = st
    BY DEF Put, IInv, TypeOK
  <1> QED BY <1>1, <1>2 DEF DiskStep

LEMMA DiskSteps ==
  ASSUME IInv, [Next]_vars
  PROVE  DiskStep
PROOF
  <1> USE DEF mipVars, memVars, diskVars, histVars
  <1>1. CASE UNCHANGED vars
    <2>1. Writing' = Writing
      BY <1>1 DEF vars, Writing, SourceAt
    <2> QED BY <1>1, <2>1 DEF DiskStep, vars
  <1>2. CASE Die
    <2>1. PICK cut \in [Writing -> {"zero", "torn"}] :
            /\ file' = [t \in Tile |-> IF t \in Writing THEN cut[t] ELSE file[t]]
            /\ pixels' = [t \in Tile |-> IF t \in Writing THEN {} ELSE pixels[t]]
      BY <1>2 DEF Die
    <2>2. Writing' = {}
      BY <1>2 DEF Die, Writing
    <2> QED BY <2>1, <2>2 DEF DiskStep
  <1>3. CASE \E x \in Column : Iteration(x)
    BY <1>3, IterationDisk
  <1>4. CASE Start
    <2>1. Writing' = {}
      BY <1>4 DEF Start, IInv, RestInv, Writing
    <2> QED BY <1>4, <2>1 DEF Start, DiskStep
  <1>5. CASE NextRow
    <2>1. Writing' = {}
      BY <1>5 DEF NextRow, RowFinished, Writing
    <2> QED BY <1>5, <2>1 DEF NextRow, DiskStep
  <1>6. CASE FinishLevel0
    <2>1. Writing' = {}
      BY <1>6 DEF FinishLevel0, RowFinished, IInv, RestInv, Writing
    <2> QED BY <1>6, <2>1 DEF FinishLevel0, DiskStep
  <1>7. CASE SkipMip \/ StoreMipFails
    <2>1. Writing' = {}
      BY <1>7 DEF SkipMip, StoreMipFails, Advance, Writing
    <2> QED BY <1>7, <2>1 DEF SkipMip, StoreMipFails, DiskStep
  <1>8. CASE BeginMip \/ SkipSubTile \/ LoadSubTile \/ LoadError \/ LoadDamaged \/ LoadJunk
    <2>1. Writing' = {}
      BY <1>8 DEF BeginMip, SkipSubTile, LoadSubTile, LoadError, LoadDamaged, LoadJunk,
                  GiveUpLoading, AtSubTile, At, Writing
    <2> QED BY <1>8, <2>1
            DEF BeginMip, SkipSubTile, LoadSubTile, LoadError, LoadDamaged, LoadJunk,
                GiveUpLoading, DiskStep
  <1>9. CASE OpenMip
    <2>1. /\ mip \in Tile /\ phase = "Mips" /\ fileStatus[mip] = "Missing"
          /\ Writing = {} /\ Writing' = {mip}
      BY <1>9 DEF OpenMip, AtStore, At, Writing, IInv, TypeOK, MipInv
    <2>2. file[mip] = "absent"
      BY <2>1 DEF IInv, StatusTracksDisk
    <2>3. \A s \in SubTiles(mip) : s \in Tile /\ file[s] # "absent"
      BY <2>1, SubTilesArePresent
    <2>4. Writing' = Writing \cup {mip}
      BY <2>1
    <2>5. Put(mip, "zero", {})
      BY <1>9 DEF OpenMip
    <2> QED BY <2>1, <2>2, <2>3, <2>4, <2>5 DEF DiskStep
  <1>10. CASE WriteMip
    BY <1>10, MipDisk DEF WriteMip
  <1>11. CASE ShortWriteMip
    BY <1>11, MipDisk DEF ShortWriteMip
  <1> QED BY <1>1, <1>2, <1>3, <1>4, <1>5, <1>6, <1>7, <1>8, <1>9, <1>10, <1>11
          DEF Next, Crash, RaceCrash, MipStep, LoadCrash

(***************************************************************************)
(* No file is changed or opened again once it is no longer being written,  *)
(* in this process or in a later one.                                      *)
(***************************************************************************)
THEOREM FilesAreFinalAlways == Spec => FilesAreFinal
PROOF
  <1> DEFINE Final == \A t \in Tile : file[t] # "absent" /\ t \notin Writing =>
                        file'[t] = file[t] /\ pixels'[t] = pixels[t] /\ t \notin Writing'
  <1>1. ASSUME IInv, [Next]_vars
        PROVE  Final
    <2>1. DiskStep
      BY <1>1, DiskSteps
    <2>2. CASE UNCHANGED diskVars /\ Writing' \subseteq Writing
      BY <2>2 DEF diskVars
    <2>3. ASSUME NEW u \in Tile, file[u] = "absent", Put(u, "zero", {}),
                 Writing' = Writing \cup {u}
          PROVE  Final
      <3>1. \A t \in Tile : t # u => file'[t] = file[t] /\ pixels'[t] = pixels[t]
        BY <1>1, <2>3 DEF Put, IInv, TypeOK
      <3> QED BY <2>3, <3>1
    <2>4. CASE /\ Writing' \subseteq Writing
               /\ \A t \in Tile : t \notin Writing => file'[t] = file[t] /\ pixels'[t] = pixels[t]
      BY <2>4
    <2> QED BY <2>1, <2>2, <2>3, <2>4 DEF DiskStep
  <1>2. IInv /\ [Next]_vars => [Final]_vars
    BY <1>1
  <1> QED BY <1>2, Invariance, PTL DEF Spec, FilesAreFinal

\* The tiles that have a file; TilePyramid's "built".
Present == {t \in Tile : file[t] # "absent"}

\* They grow by one tile at a time, over its sub-tiles.
LEMMA PresentGrows ==
  ASSUME IInv, DiskStep
  PROVE  \/ Present' = Present
         \/ \E t \in Tile : /\ t \notin Present
                            /\ SubTiles(t) \subseteq Present
                            /\ Present' = Present \cup {t}
PROOF
  <1>1. CASE UNCHANGED diskVars
    BY <1>1 DEF diskVars, Present
  <1>2. ASSUME NEW t \in Tile, file[t] = "absent", Put(t, "zero", {}),
               \A s \in SubTiles(t) : s \in Tile /\ file[s] # "absent"
        PROVE  /\ t \notin Present /\ SubTiles(t) \subseteq Present
               /\ Present' = Present \cup {t}
    <2>1. \A u \in Tile : file'[u] = IF u = t THEN "zero" ELSE file[u]
      BY <1>2 DEF Put, IInv, TypeOK
    <2>2. t \notin Present /\ SubTiles(t) \subseteq Present
      BY <1>2 DEF Present
    <2>3. Present' = Present \cup {t}
      BY <1>2, <2>1 DEF Present
    <2> QED BY <2>2, <2>3
  <1>3. CASE \A t \in Tile : /\ t \notin Writing => file'[t] = file[t] /\ pixels'[t] = pixels[t]
                             /\ t \in Writing => file'[t] # "absent"
    <2>1. \A t \in Tile : t \in Writing => file[t] # "absent"
      BY DEF IInv, DamageInv
    <2>2. \A t \in Tile : (file'[t] # "absent") <=> (file[t] # "absent")
      BY <1>3, <2>1
    <2> QED BY <2>2 DEF Present
  <1> QED BY <1>1, <1>2, <1>3 DEF DiskStep

(***************************************************************************)
(* The directory grows as TilePyramid says: from nothing, one tile at a    *)
(* time, each over its four sub-tiles.                                     *)
(***************************************************************************)
THEOREM Refinement == Spec => ImplementsPyramid
PROOF
  <1>0. /\ Pyramid!Tile = Tile
        /\ \A t : Pyramid!SubTiles(t) = SubTiles(t)
    BY DEF Pyramid!Tile, Tile, Pyramid!SubTiles, SubTiles, Pyramid!SubTile, SubTile,
           Pyramid!Levels, Levels, Pyramid!Top, Top, Pyramid!TilesX, TilesX,
           Pyramid!TilesY, TilesY
  <1>1. Init => Pyramid!Init
    BY DEF Init, Pyramid!Init
  <1>2. ASSUME IInv, [Next]_vars
        PROVE  Pyramid!Next \/ Present' = Present
    <2>1. \/ Present' = Present
          \/ \E t \in Tile : /\ t \notin Present
                             /\ SubTiles(t) \subseteq Present
                             /\ Present' = Present \cup {t}
      BY <1>2, DiskSteps, PresentGrows
    <2>2. ASSUME NEW t \in Tile, t \notin Present, SubTiles(t) \subseteq Present,
                 Present' = Present \cup {t}
          PROVE  Pyramid!Next
      <3>1. Pyramid!Build(t)
        BY <1>0, <2>2 DEF Pyramid!Build, Present
      <3> QED BY <1>0, <2>2, <3>1 DEF Pyramid!Next
    <2> QED BY <2>1, <2>2
  <1>3. IInv /\ [Next]_vars => [Pyramid!Next]_Present
    BY <1>2
  <1> QED BY <1>1, <1>3, Invariance, PTL DEF Spec, ImplementsPyramid, Pyramid!Spec, Present

-----------------------------------------------------------------------------
(* What lies under a tile *)

\* Halving after a division is dividing by twice as much.
LEMMA DivisionTwice ==
  ASSUME NEW a \in Nat, NEW q \in Nat \ {0}
  PROVE  /\ a \div q \in Nat /\ a \div (2 * q) \in Nat
         /\ (a \div q) \div 2 = a \div (2 * q)
PROOF
  <1> DEFINE d == a \div q
             h == d \div 2
  <1>1. d \in Nat /\ a = q * d + (a % q) /\ a % q \in 0 .. q - 1
    OBVIOUS
  <1>2. h \in Nat /\ d = 2 * h + (d % 2) /\ d % 2 \in 0 .. 1
    BY <1>1
  <1>3. a = (2 * q) * h + (q * (d % 2) + (a % q))
    <2> DEFINE e == d % 2
               r == a % q
    <2>1. d \in Nat /\ h \in Nat /\ e \in Nat /\ r \in Nat /\ a = q * d + r /\ d = 2 * h + e
      BY <1>1, <1>2
    <2> HIDE DEF d, h, e, r
    <2>2. q * d = q * (2 * h) + q * e
      BY <2>1
    <2>3. q * (2 * h) = (2 * q) * h
      BY <2>1
    <2>4. a = (2 * q) * h + (q * e + r)
      BY <2>1, <2>2, <2>3
    <2> QED BY <2>4 DEF e, r
  <1>4. q * (d % 2) + (a % q) \in 0 .. 2 * q - 1
    <2>1. q * (d % 2) \in {0, q}
      BY <1>2
    <2> QED BY <1>1, <2>1
  <1>5. h = a \div (2 * q)
    <2> HIDE DEF d, h
    <2>1. 2 * q \in Nat \ {0}
      OBVIOUS
    <2> DEFINE p == 2 * q
               r == q * (d % 2) + (a % q)
    <2>2. p \in Nat \ {0} /\ r \in 0 .. p - 1 /\ a = p * h + r
      BY <1>3, <1>4, <2>1
    <2> HIDE DEF p, r
    <2>3. h = a \div p
      BY <1>2, <2>2
    <2> QED BY <2>3 DEF p
  <1> QED BY <1>1, <1>2, <1>5

\* A tile lies under itself.
LEMMA UnderSelf ==
  ASSUME NEW t \in Tile
  PROVE  t \in Under(t)
PROOF
  <1>1. t[1] \in Int /\ t[2] \in Nat /\ t[3] \in Nat
    BY TileTriple DEF Tile, Levels
  <1>2. t[1] - t[1] = 0 /\ 2 ^ 0 = 1
    BY <1>1
  <1>3. t[2] \div 1 = t[2] /\ t[3] \div 1 = t[3]
    BY <1>1
  <1>4. /\ t[2] \div (2 ^ (t[1] - t[1])) = t[2]
        /\ t[3] \div (2 ^ (t[1] - t[1])) = t[3]
    BY <1>2, <1>3
  <1> QED BY <1>1, <1>4 DEF Under

\* Nothing of the same level lies under a tile but itself.
LEMMA UnderSameLevel ==
  ASSUME NEW t \in Tile, NEW u \in Under(t), u[1] = t[1]
  PROVE  u = t
PROOF
  <1>1. /\ u \in Tile
        /\ u[2] \div (2 ^ (u[1] - t[1])) = t[2]
        /\ u[3] \div (2 ^ (u[1] - t[1])) = t[3]
    BY DEF Under
  <1>2. t[1] \in Int /\ u[2] \in Nat /\ u[3] \in Nat
    BY <1>1, TileTriple DEF Tile, Levels
  <1>3. u[1] - t[1] = 0 /\ 2 ^ 0 = 1
    BY <1>2
  <1>4. u[2] \div 1 = u[2] /\ u[3] \div 1 = u[3]
    BY <1>2
  <1>5. u[2] = t[2] /\ u[3] = t[3]
    BY <1>1, <1>3, <1>4
  <1> QED BY <1>1, <1>5, TileTriple

\* Where a tile of a finer level lies, seen from a tile and from one of its sub-tiles.
LEMMA UnderTwice ==
  ASSUME NEW t \in Tile, NEW u \in Tile, u[1] >= t[1] + 1
  PROVE  LET half == 2 ^ (u[1] - (t[1] + 1))
             full == 2 ^ (u[1] - t[1])
         IN  /\ u[2] \div half \in Nat /\ u[3] \div half \in Nat
             /\ (u[2] \div half) \div 2 = u[2] \div full
             /\ (u[3] \div half) \div 2 = u[3] \div full
PROOF
  <1> DEFINE n == u[1] - (t[1] + 1)
  <1>1. u[1] \in 0 .. Top /\ t[1] \in 0 .. Top /\ Top \in Nat /\ u[2] \in Nat /\ u[3] \in Nat
    BY TileTriple, GridAssumption DEF Tile, Levels, Top
  <1>2. n \in Levels /\ u[1] - t[1] = n + 1
    BY <1>1 DEF Levels
  <1>3. 2 ^ n \in Nat \ {0} /\ 2 ^ (n + 1) = 2 * 2 ^ n
    BY <1>2, PowersAssumption
  <1> HIDE DEF n
  <1>4. /\ u[2] \div 2 ^ n \in Nat /\ u[3] \div 2 ^ n \in Nat
        /\ (u[2] \div 2 ^ n) \div 2 = u[2] \div (2 * 2 ^ n)
        /\ (u[3] \div 2 ^ n) \div 2 = u[3] \div (2 * 2 ^ n)
    BY <1>1, <1>3, DivisionTwice
  <1>5. /\ u[2] \div 2 ^ n \in Nat /\ u[3] \div 2 ^ n \in Nat
        /\ (u[2] \div 2 ^ n) \div 2 = u[2] \div 2 ^ (u[1] - t[1])
        /\ (u[3] \div 2 ^ n) \div 2 = u[3] \div 2 ^ (u[1] - t[1])
    BY <1>2, <1>3, <1>4
  <1> QED BY <1>5 DEF n

\* What lies under a sub-tile lies under the tile ...
LEMMA UnderSubTile ==
  ASSUME NEW t \in Tile, t[1] # Top, NEW i \in 0 .. 3
  PROVE  Under(SubTile(t, i)) \subseteq Under(t)
PROOF
  <1> DEFINE s == SubTile(t, i)
  <1>1. s = <<t[1] + 1, 2 * t[2] + (i % 2), 2 * t[3] + (i \div 2)>>
    BY DEF SubTile
  <1>2. t[1] \in Nat /\ t[2] \in Nat /\ t[3] \in Nat
    BY TileTriple DEF Tile, Levels
  <1> SUFFICES ASSUME NEW u \in Under(s) PROVE u \in Under(t)
    OBVIOUS
  <1>3. /\ u \in Tile /\ u[1] >= t[1] + 1
        /\ u[2] \div (2 ^ (u[1] - (t[1] + 1))) = 2 * t[2] + (i % 2)
        /\ u[3] \div (2 ^ (u[1] - (t[1] + 1))) = 2 * t[3] + (i \div 2)
    BY <1>1 DEF Under
  <1>4. /\ (2 * t[2] + (i % 2)) \div 2 = t[2]
        /\ (2 * t[3] + (i \div 2)) \div 2 = t[3]
    <2> DEFINE a == i % 2
               b == i \div 2
    <2>1. a \in 0 .. 1 /\ b \in 0 .. 1
      OBVIOUS
    <2>2. ASSUME NEW n \in Nat, NEW r \in 0 .. 1 PROVE (2 * n + r) \div 2 = n
      OBVIOUS
    <2> HIDE DEF a, b
    <2>3. (2 * t[2] + a) \div 2 = t[2] /\ (2 * t[3] + b) \div 2 = t[3]
      BY <1>2, <2>1, <2>2
    <2> QED BY <2>3 DEF a, b
  <1>5. /\ u[2] \div (2 ^ (u[1] - t[1])) = t[2]
        /\ u[3] \div (2 ^ (u[1] - t[1])) = t[3]
    BY <1>3, <1>4, UnderTwice
  <1>6. u[1] \in Nat
    BY <1>3, TileTriple DEF Levels
  <1> QED BY <1>2, <1>3, <1>5, <1>6 DEF Under

\* ... and what lies under the tile, itself aside, lies under one of its sub-tiles.
LEMMA UnderSplits ==
  ASSUME NEW t \in Tile, NEW u \in Under(t), u # t
  PROVE  t[1] # Top /\ \E i \in 0 .. 3 : u \in Under(SubTile(t, i))
PROOF
  <1>1. /\ u \in Tile /\ u[1] >= t[1] /\ u[1] # t[1]
        /\ u[2] \div (2 ^ (u[1] - t[1])) = t[2]
        /\ u[3] \div (2 ^ (u[1] - t[1])) = t[3]
    BY UnderSameLevel DEF Under
  <1>2. u[1] \in 0 .. Top /\ t[1] \in 0 .. Top /\ Top \in Nat /\ t[2] \in Nat /\ t[3] \in Nat
    BY <1>1, TileTriple, GridAssumption DEF Tile, Levels, Top
  <1>3. u[1] >= t[1] + 1 /\ t[1] # Top
    BY <1>1, <1>2
  <1> DEFINE a == u[2] \div (2 ^ (u[1] - (t[1] + 1)))
             b == u[3] \div (2 ^ (u[1] - (t[1] + 1)))
             i == (a % 2) + 2 * (b % 2)
  <1>4. a \in Nat /\ b \in Nat /\ a \div 2 = t[2] /\ b \div 2 = t[3]
    BY <1>1, <1>3, UnderTwice
  <1> HIDE DEF a, b
  <1>5. /\ a = 2 * t[2] + (a % 2) /\ b = 2 * t[3] + (b % 2)
        /\ a % 2 \in 0 .. 1 /\ b % 2 \in 0 .. 1
    BY <1>4
  <1>6. i \in 0 .. 3 /\ i % 2 = a % 2 /\ i \div 2 = b % 2
    BY <1>5
  <1>7. SubTile(t, i) = <<t[1] + 1, a, b>>
    BY <1>5, <1>6 DEF SubTile
  <1>8. u \in Under(SubTile(t, i))
    BY <1>1, <1>3, <1>7 DEF Under, a, b
  <1> QED BY <1>3, <1>6, <1>8

\* Only itself lies under a source tile.
LEMMA UnderSource ==
  ASSUME NEW t \in SourceTile
  PROVE  Under(t) = {t}
PROOF
  <1>1. t \in Tile /\ t[1] = Top
    BY DEF SourceTile
  <1> QED BY <1>1, UnderSelf, UnderSplits

-----------------------------------------------------------------------------
(* The content of the files *)

\* What a thread holds for a tile is what the source layer has of it.
SourceInv ==
  phase = "Level0" =>
    \A x \in Column :
      /\ worker[x] \in {"Store", "WriteTile"} => SourceAt(x) \in Valid
      /\ worker[x] \in {"Convert", "OpenEmpty", "WriteEmpty"} => SourceAt(x) \notin Valid

\* No more columns are at work than there are threads.
TeamInv == Cardinality(Busy) <= NumThreads

\* The source tiles with data under the sub-tiles that are loaded.
Gathered == {u \in Valid : \E i \in 0 .. 3 : i < sub /\ u \in Under(SubTile(mip, i))}

\* As long as no fault has hit the pyramid under the mip tile, its image holds what
\* the loaded sub-tiles hold.
GatheredInv ==
  /\ mpc = "visit" => sub = 0 /\ higherLevel = {}
  /\ phase = "Mips" =>
    /\ mpc = "write" => sub = 4
    /\ mpc # "visit" /\ Under(mip) \cap damage = {} => higherLevel = Gathered

ContentInv == SourceInv /\ TeamInv /\ GatheredInv /\ PyramidExact

\* What the files already held they hold still, and what is new among the whole
\* files is exact.
LEMMA PyramidKept ==
  ASSUME PyramidExact, damage \subseteq damage',
         \A t \in Tile : file'[t] = "whole" /\ Under(t) \cap damage' = {} =>
            \/ file[t] = "whole" /\ pixels'[t] = pixels[t]
            \/ pixels'[t] = Under(t) \cap Valid
  PROVE  PyramidExact'
PROOF
  <1>1. \A t \in Tile : Under(t) \cap damage' = {} => Under(t) \cap damage = {}
    OBVIOUS
  <1> QED BY <1>1 DEF PyramidExact

\* One column moves on with the right kind of content.
LEMMA SourceMoves ==
  ASSUME TypeOK, SourceInv, phase = "Level0", row' = row, NEW x \in Column, NEW to, GoTo(x, to),
         to \in {"Store", "WriteTile"} => SourceAt(x) \in Valid,
         to \in {"Convert", "OpenEmpty", "WriteEmpty"} => SourceAt(x) \notin Valid
  PROVE  SourceInv'
PROOF
  <1>1. \A z \in Column : worker'[z] = IF z = x THEN to ELSE worker[z]
    BY DEF TypeOK, GoTo
  <1> QED BY <1>1 DEF SourceInv, SourceAt

LEMMA ColumnsFinite ==
  ASSUME NEW S \in SUBSET Column
  PROVE  IsFiniteSet(S) /\ Cardinality(S) \in Nat
PROOF
  <1>1. IsFiniteSet(Column)
    BY FS_Interval, GridAssumption DEF Column
  <1> QED BY <1>1, FS_Subset, FS_CardinalityType

\* Nobody joins the team ...
LEMMA TeamKept ==
  ASSUME TeamInv, Busy' \subseteq Busy
  PROVE  TeamInv'
PROOF
  <1>1. IsFiniteSet(Busy) /\ Cardinality(Busy) \in Nat /\ Cardinality(Busy') \in Nat
    BY ColumnsFinite DEF Busy
  <1>2. Cardinality(Busy') <= Cardinality(Busy)
    BY <1>1, FS_Subset
  <1> QED BY <1>1, <1>2, CacheAssumption DEF TeamInv

\* ... or one does, when there is a thread for it.
LEMMA TeamJoined ==
  ASSUME NEW x \in Column, Cardinality(Busy) < NumThreads, Busy' \subseteq Busy \cup {x}
  PROVE  TeamInv'
PROOF
  <1>1. /\ IsFiniteSet(Busy) /\ Cardinality(Busy) \in Nat /\ Cardinality(Busy') \in Nat
        /\ IsFiniteSet(Busy \cup {x})
    BY ColumnsFinite DEF Busy
  <1>2. Cardinality(Busy \cup {x}) <= Cardinality(Busy) + 1 /\ Cardinality(Busy \cup {x}) \in Nat
    BY <1>1, FS_AddElement, FS_CardinalityType
  <1>3. Cardinality(Busy') <= Cardinality(Busy \cup {x})
    BY <1>1, FS_Subset
  <1> QED BY <1>1, <1>2, <1>3, CacheAssumption DEF TeamInv

\* Where a step of an iteration that stores nothing leaves the content.
LEMMA MovedContent ==
  ASSUME IInv, ContentInv, phase = "Level0", phase' = phase, row' = row,
         UNCHANGED <<mpc, sub, higherLevel>>,
         NEW x \in Column, worker[x] \notin {"Idle", "Finished"}, NEW to, GoTo(x, to),
         to \in {"Store", "WriteTile"} => SourceAt(x) \in Valid,
         to \in {"Convert", "OpenEmpty", "WriteEmpty"} => SourceAt(x) \notin Valid
  PROVE  SourceInv' /\ TeamInv' /\ GatheredInv'
PROOF
  <1>1. SourceInv'
    BY SourceMoves DEF IInv, ContentInv
  <1>2. GatheredInv'
    BY DEF ContentInv, GatheredInv
  <1>3. \A z \in Column : worker'[z] = IF z = x THEN to ELSE worker[z]
    BY DEF IInv, TypeOK, GoTo
  <1>4. Busy' \subseteq Busy
    BY <1>3 DEF Busy
  <1> QED BY <1>1, <1>2, <1>4, TeamKept DEF ContentInv

\* The iterations of a row keep what is loaded and stored exact.
LEMMA IterationContent ==
  ASSUME IInv, IInv', ContentInv, NEW x \in Column, Iteration(x)
  PROVE  ContentInv'
PROOF
  <1> USE DEF mipVars, memVars, diskVars, histVars
  <1> DEFINE S == SourceAt(x)
  <1>0. S \in Tile /\ S \in SourceTile
    BY SourceAtIsTile DEF IInv, TypeOK, SourceTile
  <1>1. ASSUME UNCHANGED <<file, pixels, damage>>
        PROVE  PyramidExact'
    BY <1>1, PyramidKept DEF ContentInv
  <1>2. ASSUME NEW state \in FileState, NEW content, Put(S, state, content), damage \subseteq damage',
               state = "whole" => content = {S} \cap Valid
        PROVE  PyramidExact'
    <2>1. \A t \in Tile : /\ file'[t] = IF t = S THEN state ELSE file[t]
                          /\ pixels'[t] = IF t = S THEN content ELSE pixels[t]
      BY <1>2 DEF Put, IInv, TypeOK
    <2>2. Under(S) = {S}
      BY <1>0, UnderSource
    <2> QED BY <1>2, <2>1, <2>2, PyramidKept DEF ContentInv
  <1>3. CASE Begin(x)
    <2>1. PICK to \in {"Finished", "Request"} : GoTo(x, to)
      BY <1>3 DEF Begin
    <2>2. SourceInv'
      BY <1>3, <2>1, SourceMoves DEF Begin, IInv, ContentInv
    <2>3. \A z \in Column : worker'[z] = IF z = x THEN to ELSE worker[z]
      BY <2>1 DEF IInv, TypeOK, GoTo
    <2>4. Busy' \subseteq Busy \cup {x}
      BY <2>3 DEF Busy
    <2>5. TeamInv' /\ GatheredInv'
      BY <1>3, <2>4, TeamJoined DEF Begin, ContentInv, GatheredInv
    <2> QED BY <1>1, <1>3, <2>2, <2>5 DEF Begin, ContentInv
  <1>4. CASE Request(x)
    BY <1>1, <1>4, MovedContent DEF Request, Step, ContentInv
  <1>5. CASE Reply(x)
    <2>1. PICK to \in {"Store", "Convert"} : GoTo(x, to) /\ (to = "Store" <=> SourceAt(x) \in Valid)
      BY <1>5 DEF Reply, Step
    <2>2. SourceInv' /\ TeamInv' /\ GatheredInv'
      BY <1>5, <2>1, MovedContent DEF Reply, Step
    <2> QED BY <1>1, <1>5, <2>2 DEF Reply, ContentInv
  <1>6. CASE ReplyFails(x)
    BY <1>1, <1>6, MovedContent DEF ReplyFails, Step, ContentInv
  <1>7. CASE StoreFails(x)
    BY <1>1, <1>7, MovedContent DEF StoreFails, Step, ContentInv
  <1>8. CASE ConvertEmpty(x)
    BY <1>1, <1>8, MovedContent DEF ConvertEmpty, Step, ContentInv, SourceInv
  <1>9. CASE OpenTile(x)
    <2>1. PyramidExact'
      BY <1>2, <1>9 DEF OpenTile, FileState
    <2>2. SourceAt(x) \in Valid
      BY <1>9 DEF OpenTile, Step, ContentInv, SourceInv
    <2> QED BY <1>9, <2>1, <2>2, MovedContent DEF OpenTile, Step, ContentInv
  <1>10. CASE OpenEmpty(x)
    <2>1. PyramidExact'
      BY <1>2, <1>10 DEF OpenEmpty, FileState
    <2>2. SourceAt(x) \notin Valid
      BY <1>10 DEF OpenEmpty, Step, ContentInv, SourceInv
    <2> QED BY <1>10, <2>1, <2>2, MovedContent DEF OpenEmpty, Step, ContentInv
  <1>11. CASE WriteTile(x)
    <2>1. SourceAt(x) \in Valid
      BY <1>11 DEF WriteTile, Step, ContentInv, SourceInv
    <2>2. PyramidExact'
      BY <1>2, <1>11, <2>1 DEF WriteTile, FileState
    <2> QED BY <1>11, <2>2, MovedContent DEF WriteTile, Step, ContentInv
  <1>12. CASE WriteEmpty(x)
    <2>1. SourceAt(x) \notin Valid
      BY <1>12 DEF WriteEmpty, Step, ContentInv, SourceInv
    <2>2. PyramidExact'
      BY <1>2, <1>12, <2>1 DEF WriteEmpty, FileState
    <2> QED BY <1>12, <2>2, MovedContent DEF WriteEmpty, Step, ContentInv
  <1>13. CASE ShortWriteTile(x) \/ ShortWriteEmpty(x) \/ WriteRacedEmpty(x)
    <2>1. PICK state \in {"zero", "torn"} : Put(S, state, {})
      BY <1>13 DEF ShortWriteTile, ShortWriteEmpty, WriteRacedEmpty
    <2>2. PyramidExact'
      BY <1>2, <1>13, <2>1 DEF ShortWriteTile, ShortWriteEmpty, WriteRacedEmpty, FileState
    <2> QED BY <1>13, <2>2, MovedContent
            DEF ShortWriteTile, ShortWriteEmpty, WriteRacedEmpty, Step, ContentInv
  <1> QED BY <1>3, <1>4, <1>5, <1>6, <1>7, <1>8, <1>9, <1>10, <1>11, <1>12, <1>13 DEF Iteration

\* A process that dies leaves no new file whole.
LEMMA DieContent ==
  ASSUME IInv, ContentInv, Die
  PROVE  ContentInv'
PROOF
  <1>1. PICK cut \in [Writing -> {"zero", "torn"}] :
          /\ file' = [t \in Tile |-> IF t \in Writing THEN cut[t] ELSE file[t]]
          /\ pixels' = [t \in Tile |-> IF t \in Writing THEN {} ELSE pixels[t]]
    BY DEF Die
  <1>2. PyramidExact'
    <2>1. damage \subseteq damage'
      BY DEF Die
    <2>2. \A t \in Tile : file'[t] = "whole" => file[t] = "whole" /\ pixels'[t] = pixels[t]
      BY <1>1
    <2> QED BY <2>1, <2>2, PyramidKept DEF ContentInv
  <1>3. SourceInv' /\ GatheredInv'
    BY DEF Die, SourceInv, GatheredInv
  <1>4. Busy' \subseteq Busy
    BY DEF Die, Busy
  <1> QED BY <1>2, <1>3, <1>4, TeamKept DEF ContentInv

\* In the mip loops nobody is in the team, and all files but one are as they were.
LEMMA MipContent ==
  ASSUME IInv, IInv', ContentInv, phase = "Mips", phase' \in {"Mips", "Done"},
         worker' = worker, damage \subseteq damage', NEW state, NEW content,
         \/ UNCHANGED <<file, pixels>>
         \/ Put(mip, state, content),
         state = "whole" /\ Under(mip) \cap damage' = {} => content = Under(mip) \cap Valid,
         GatheredInv'
  PROVE  ContentInv'
PROOF
  <1>1. PyramidExact'
    <2>1. mip \in Tile
      BY DEF IInv, TypeOK
    <2>2. CASE UNCHANGED <<file, pixels>>
      BY <2>2, PyramidKept DEF ContentInv
    <2>3. CASE Put(mip, state, content)
      <3>1. \A t \in Tile : /\ file'[t] = IF t = mip THEN state ELSE file[t]
                            /\ pixels'[t] = IF t = mip THEN content ELSE pixels[t]
        BY <2>3 DEF Put, IInv, TypeOK
      <3> QED BY <3>1, PyramidKept DEF ContentInv
    <2> QED BY <2>2, <2>3
  <1>2. SourceInv'
    BY DEF SourceInv
  <1>3. Busy' \subseteq Busy
    BY DEF Busy
  <1> QED BY <1>1, <1>2, <1>3, TeamKept DEF ContentInv

\* Under an undamaged tile the sub-tile to load next is whole and exact.
LEMMA LoadingIsExact ==
  ASSUME IInv, ContentInv, AtSubTile, Under(mip) \cap damage = {}
  PROVE  /\ file[Loading] = "whole" /\ fileStatus[Loading] # "Missing"
         /\ pixels[Loading] = Under(Loading) \cap Valid
PROOF
  <1>1. /\ phase = "Mips" /\ mpc = "load" /\ sub \in 0 .. 3 /\ mip \in Tile /\ mip[1] # Top
    BY GridAssumption DEF AtSubTile, At, IInv, TypeOK, Top
  <1>2. Loading \in SubTiles(mip) /\ Loading \in Tile
    BY <1>1, SubTileIsTile DEF Loading, SubTiles
  <1>3. Under(Loading) \subseteq Under(mip) /\ Loading \in Under(Loading)
    BY <1>1, <1>2, UnderSubTile, UnderSelf DEF Loading
  <1>4. Loading \notin damage /\ Under(Loading) \cap damage = {}
    BY <1>3
  <1>5. file[Loading] # "absent" /\ Writing = {}
    BY <1>1, <1>2, SubTilesArePresent DEF Writing
  <1>6. fileStatus[Loading] # "Missing"
    BY <1>1, <1>2, <1>5 DEF IInv, StatusTracksDisk
  <1>7. file[Loading] = "whole"
    BY <1>1, <1>2, <1>4, <1>6 DEF IInv, StatusTracksDisk
  <1> QED BY <1>2, <1>4, <1>6, <1>7 DEF ContentInv, PyramidExact

\* One more sub-tile is gathered.
LEMMA OneMoreGathered ==
  ASSUME sub \in 0 .. 3, sub' = sub + 1, mip' = mip
  PROVE  Gathered' = Gathered \cup (Under(Loading) \cap Valid)
PROOF
  <1>1. \A i \in 0 .. 3 : i < sub' <=> i < sub \/ i = sub
    OBVIOUS
  <1> QED BY <1>1 DEF Gathered, Loading

\* All four sub-tiles make up the tile, which is no source tile itself.
LEMMA AllGathered ==
  ASSUME mip \in Tile, mip[1] # Top, sub = 4
  PROVE  Gathered = Under(mip) \cap Valid
PROOF
  <1>1. mip \notin Valid
    BY CacheAssumption DEF SourceTile
  <1>2. \A i \in 0 .. 3 : Under(SubTile(mip, i)) \subseteq Under(mip)
    BY UnderSubTile
  <1>3. \A u \in Under(mip) \ {mip} : \E i \in 0 .. 3 : u \in Under(SubTile(mip, i))
    BY UnderSplits
  <1> QED BY <1>1, <1>2, <1>3 DEF Gathered

\* To the next tile with nothing gathered.
LEMMA AdvanceGathers ==
  ASSUME NEW goOn, Advance(goOn)
  PROVE  GatheredInv' /\ phase' \in {"Mips", "Done"}
PROOF
  BY DEF Advance, GatheredInv

LEMMA MipStepContent ==
  ASSUME IInv, IInv', ContentInv, MipStep
  PROVE  ContentInv'
PROOF
  <1> USE DEF memVars, diskVars, histVars
  <1>1. ASSUME AtSubTile
        PROVE  /\ phase = "Mips" /\ mpc = "load" /\ sub \in 0 .. 3
               /\ Under(mip) \cap damage = {} => higherLevel = Gathered
    BY <1>1 DEF AtSubTile, At, IInv, TypeOK, ContentInv, GatheredInv
  <1>2. CASE SkipMip
    <2>1. GatheredInv' /\ phase' \in {"Mips", "Done"}
      BY <1>2, AdvanceGathers DEF SkipMip
    <2> QED BY <1>2, <2>1, MipContent DEF SkipMip, At
  <1>3. CASE BeginMip
    <2>1. phase = "Mips" /\ sub = 0 /\ higherLevel = {}
      BY <1>3 DEF BeginMip, At, ContentInv, GatheredInv
    <2>2. Gathered' = {}
      BY <1>3, <2>1 DEF BeginMip, Gathered
    <2>3. GatheredInv'
      BY <1>3, <2>1, <2>2 DEF BeginMip, GatheredInv
    <2> QED BY <1>3, <2>1, <2>3, MipContent DEF BeginMip
  <1>4. CASE SkipSubTile
    <2>1. AtSubTile /\ phase' = "Mips" /\ mpc' = "load" /\ damage' = damage /\ mip' = mip
      BY <1>1, <1>4 DEF SkipSubTile
    <2>2. ASSUME Under(mip) \cap damage = {} PROVE higherLevel' = Gathered'
      <3>1. Under(Loading) \cap Valid = {}
        <4>1. Loading \in Tile
          BY <2>1, LoadingIsTile DEF IInv, AtSubTile, At
        <4>2. Loading \in Under(mip)
          BY <1>1, <2>1, <4>1, UnderSelf, UnderSubTile, GridAssumption
             DEF Loading, IInv, TypeOK, Top
        <4>3. fileStatus[Loading] = "Empty"
          BY <1>4, <2>1, <2>2, <4>1, LoadingIsExact DEF SkipSubTile, IInv, TypeOK, Status
        <4>4. pixels[Loading] = {}
          BY <1>1, <2>1, <2>2, <4>1, <4>2, <4>3 DEF IInv, StatusTracksDisk
        <4> QED BY <2>1, <2>2, <4>4, LoadingIsExact
      <3> QED BY <1>1, <1>4, <2>1, <2>2, <3>1, OneMoreGathered DEF SkipSubTile
    <2>3. GatheredInv'
      BY <2>1, <2>2 DEF GatheredInv
    <2> QED BY <1>1, <1>4, <2>1, <2>3, MipContent DEF SkipSubTile
  <1>5. CASE LoadSubTile
    <2>1. AtSubTile /\ phase' = "Mips" /\ mpc' = "load" /\ damage' = damage /\ mip' = mip
      BY <1>1, <1>5 DEF LoadSubTile
    <2>2. ASSUME Under(mip) \cap damage = {} PROVE higherLevel' = Gathered'
      BY <1>1, <1>5, <2>1, <2>2, LoadingIsExact, OneMoreGathered DEF LoadSubTile
    <2>3. GatheredInv'
      BY <2>1, <2>2 DEF GatheredInv
    <2> QED BY <1>1, <1>5, <2>1, <2>3, MipContent DEF LoadSubTile
  <1>6. CASE LoadError \/ LoadDamaged
    <2>1. /\ AtSubTile /\ phase' = "Mips" /\ mpc' = "load" /\ mip' = mip
          /\ damage' = damage \cup {mip} /\ worker' = worker /\ UNCHANGED <<file, pixels>>
      BY <1>1, <1>6 DEF LoadError, LoadDamaged, GiveUpLoading
    <2>2. mip \in Under(mip)
      BY UnderSelf DEF IInv, TypeOK
    <2>3. GatheredInv'
      BY <2>1, <2>2 DEF GatheredInv
    <2> QED BY <1>1, <2>1, <2>3, MipContent
  <1>7. CASE LoadJunk
    <2>1. AtSubTile /\ phase' = "Mips" /\ mpc' = "load" /\ damage' = damage /\ mip' = mip
      BY <1>1, <1>7 DEF LoadJunk
    <2>2. ASSUME Under(mip) \cap damage = {} PROVE FALSE
      BY <1>7, <2>1, <2>2, LoadingIsExact DEF LoadJunk
    <2>3. GatheredInv'
      BY <2>1, <2>2 DEF GatheredInv
    <2> QED BY <1>1, <1>7, <2>1, <2>3, MipContent DEF LoadJunk
  <1>8. CASE LoadCrash
    BY <1>8, DieContent DEF LoadCrash
  <1>9. CASE OpenMip
    <2>1. phase = "Mips" /\ phase' = "Mips" /\ mpc = "load" /\ mpc' = "write" /\ sub = 4
      BY <1>9 DEF OpenMip, AtStore, At
    <2>2. Gathered' = Gathered
      BY <1>9 DEF OpenMip, Gathered
    <2>3. GatheredInv'
      BY <1>9, <2>1, <2>2 DEF OpenMip, GatheredInv, ContentInv
    <2> QED BY <1>9, <2>1, <2>3, MipContent DEF OpenMip
  <1>10. CASE StoreMipFails
    <2>1. GatheredInv' /\ phase' \in {"Mips", "Done"}
      BY <1>10, AdvanceGathers DEF StoreMipFails
    <2> QED BY <1>10, <2>1, MipContent DEF StoreMipFails, AtStore, At
  <1>11. CASE WriteMip
    <2>1. GatheredInv' /\ phase' \in {"Mips", "Done"}
      BY <1>11, AdvanceGathers DEF WriteMip
    <2>2. /\ phase = "Mips" /\ sub = 4 /\ mip \in Tile /\ mip[1] # Top
          /\ Under(mip) \cap damage = {} => higherLevel = Gathered
      BY <1>11, GridAssumption DEF WriteMip, At, IInv, TypeOK, ContentInv, GatheredInv, Top
    <2>3. Under(mip) \cap damage = {} => higherLevel = Under(mip) \cap Valid
      BY <2>2, AllGathered
    <2> QED BY <1>11, <2>1, <2>2, <2>3, MipContent DEF WriteMip
  <1>12. CASE ShortWriteMip
    <2>1. GatheredInv' /\ phase' \in {"Mips", "Done"}
      BY <1>12, AdvanceGathers DEF ShortWriteMip
    <2>2. PICK state \in {"zero", "torn"} : Put(mip, state, {})
      BY <1>12 DEF ShortWriteMip
    <2> QED BY <1>12, <2>1, <2>2, MipContent DEF ShortWriteMip, At
  <1> QED BY <1>2, <1>3, <1>4, <1>5, <1>6, <1>7, <1>8, <1>9, <1>10, <1>11, <1>12 DEF MipStep

LEMMA NextContent ==
  ASSUME IInv, IInv', ContentInv, [Next]_vars
  PROVE  ContentInv'
PROOF
  <1> USE DEF mipVars, memVars, diskVars, histVars
  <1>1. ASSUME UNCHANGED <<file, pixels, damage>>, Busy' \subseteq Busy,
               phase' = "Level0" => \A x \in Column : worker'[x] = "Idle",
               mpc' = "visit" /\ sub' = 0 /\ higherLevel' = {}
        PROVE  ContentInv'
    BY <1>1, PyramidKept, TeamKept DEF ContentInv, SourceInv, GatheredInv
  <1>2. CASE Start
    <2>1. /\ \A x \in Column : worker[x] = "Idle"
          /\ mpc = "visit" /\ sub = 0 /\ higherLevel = {}
      BY <1>2 DEF Start, IInv, RestInv, ContentInv, GatheredInv
    <2> QED BY <1>1, <1>2, <2>1 DEF Start, Busy
  <1>3. CASE Crash \/ RaceCrash
    BY <1>3, DieContent DEF Crash, RaceCrash
  <1>4. CASE \E x \in Column : Iteration(x)
    BY <1>4, IterationContent
  <1>5. CASE NextRow
    <2>1. phase' = "Level0" /\ mpc = "visit" /\ sub = 0 /\ higherLevel = {}
      BY <1>5 DEF NextRow, RowFinished, IInv, RestInv, ContentInv, GatheredInv
    <2> QED BY <1>1, <1>5, <2>1 DEF NextRow, Busy
  <1>6. CASE FinishLevel0
    <2>1. mpc = "visit" /\ sub = 0 /\ higherLevel = {}
      BY <1>6 DEF FinishLevel0, RowFinished, IInv, RestInv, ContentInv, GatheredInv
    <2> QED BY <1>1, <1>6, <2>1 DEF FinishLevel0, Busy
  <1>7. CASE MipStep
    BY <1>7, MipStepContent
  <1>8. CASE UNCHANGED vars
    BY <1>8 DEF vars, ContentInv, SourceInv, TeamInv, GatheredInv, PyramidExact, Gathered, Busy, SourceAt
  <1> QED BY <1>2, <1>3, <1>4, <1>5, <1>6, <1>7, <1>8 DEF Next

\* The second half of the invariant, on top of the first.
LEMMA ContentInvariance == Spec => []ContentInv
PROOF
  <1>1. Init => ContentInv
    <2> SUFFICES ASSUME Init PROVE ContentInv
      OBVIOUS
    <2>1. SourceInv /\ GatheredInv /\ PyramidExact
      BY DEF Init, SourceInv, GatheredInv, PyramidExact
    <2>2. Busy = {}
      BY DEF Init, Busy
    <2>3. TeamInv
      BY <2>2, FS_EmptySet, CacheAssumption DEF TeamInv
    <2> QED BY <2>1, <2>3 DEF ContentInv
  <1>2. IInv /\ IInv' /\ ContentInv /\ [Next]_vars => ContentInv'
    BY NextContent
  <1> QED BY <1>1, <1>2, Invariance, PTL DEF Spec

(***************************************************************************)
(* Damage stays where it is: whatever else fails, the process dies or is   *)
(* started again, a file over tiles that no fault has hit holds the valid  *)
(* source tiles it covers and nothing else.                                *)
(***************************************************************************)
THEOREM PyramidExactAlways == Spec => []PyramidExact
PROOF
  <1>1. ContentInv => PyramidExact
    BY DEF ContentInv
  <1> QED BY <1>1, ContentInvariance, PTL

(***************************************************************************)
(* emptyTile is raced for only by several threads, in a row with several   *)
(* tiles without data, for every team and every grid.                      *)
(***************************************************************************)
THEOREM NoOtherRace == Spec => []NoEmptyTileRace
PROOF
  <1>1. ContentInv => NoEmptyTileRace
    <2> SUFFICES ASSUME ContentInv, Racing
                 PROVE  /\ NumThreads > 1
                        /\ Cardinality({x \in Column : SourceAt(x) \notin Valid}) > 1
      BY DEF NoEmptyTileRace
    <2>1. PICK x \in Converting : \E z \in Column \ {x} : worker[z] \in {"Convert", "WriteEmpty"}
      BY DEF Racing
    <2>2. PICK z \in Column \ {x} : worker[z] \in {"Convert", "WriteEmpty"}
      BY <2>1
    <2>3. phase = "Level0" /\ x \in Column /\ worker[x] = "Convert"
      BY <2>1 DEF Racing, Converting
    <2>4. ASSUME NEW S \in SUBSET Column, x \in S, z \in S
          PROVE  Cardinality(S) \in Nat /\ Cardinality(S) >= 2
      <3>1. IsFiniteSet({x}) /\ Cardinality({x}) = 1
        BY FS_Singleton
      <3>2. Cardinality({x} \cup {z}) = 2
        BY SMTT(20), <2>2, <3>1, FS_AddElement
      <3>3. Cardinality({x} \cup {z}) <= Cardinality(S)
        BY <2>4, ColumnsFinite, FS_Subset
      <3> QED BY <2>4, <3>2, <3>3, ColumnsFinite
    <2>5. NumThreads > 1
      <3>1. Busy \in SUBSET Column /\ x \in Busy /\ z \in Busy
        BY <2>2, <2>3 DEF Busy
      <3> QED BY <2>4, <3>1, CacheAssumption DEF ContentInv, TeamInv
    <2>6. Cardinality({c \in Column : SourceAt(c) \notin Valid}) > 1
      <3> DEFINE S == {c \in Column : SourceAt(c) \notin Valid}
      <3>1. S \in SUBSET Column /\ x \in S /\ z \in S
        BY <2>2, <2>3 DEF ContentInv, SourceInv
      <3> HIDE DEF S
      <3>2. Cardinality(S) > 1
        BY <2>4, <3>1
      <3> QED BY <3>2 DEF S
    <2> QED BY <2>5, <2>6
  <1> QED BY <1>1, ContentInvariance, PTL
=============================================================================
