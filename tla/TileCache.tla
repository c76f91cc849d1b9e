----------------------------- MODULE TileCache ------------------------------
(***************************************************************************)
(* The WMTS layer "TileCache" (src/layers/TileCache.cpp): a background     *)
(* thread, started by Init and never joined, that fills a directory with   *)
(* the tiles of a pyramid.                                                 *)
(*                                                                         *)
(*   - CreateTileCacheLevel0 fetches the finest level, row by row; the     *)
(*     columns of a row are an OpenMP parallel loop, whose end is a        *)
(*     barrier.  Every failure of an iteration is retried for ever.        *)
(*   - CreateTileCacheMipLevels then builds each coarser level from the    *)
(*     next finer one, reading the files back; here failures end the work. *)
(*   - EnumerateFiles rebuilds the table of file states at every start.    *)
(*                                                                         *)
(* A raster is abstracted to the set of source tiles that contribute valid *)
(* pixels to it; the empty set is the completely invalid raster, which is  *)
(* stored as a 0x0 image (a header without pixels).                        *)
(***************************************************************************)
EXTENDS TileGrid, FiniteSets

CONSTANTS
  Valid,        \* source tiles in which the source layer has any valid pixel
  NumThreads,   \* OpenMP team size (1 in builds without OpenMP)
  FaultKinds,   \* the faults of the environment an instance considers
  MaxFaults,    \* bound on the number of such faults
  Junk          \* pixels decoded from a damaged file

AllFaults == {"crash", "shortWrite", "loadError", "storeError"}

ASSUME CacheAssumption ==
  /\ Valid \subseteq SourceTile
  /\ NumThreads \in Nat \ {0}
  /\ FaultKinds \subseteq AllFaults
  /\ MaxFaults \in Nat

VARIABLES
  fileStatus,   \* levels[l].fileStatus, in memory (stale while "Down")
  file,         \* what the storage directory holds for a tile ...
  pixels,       \* ... and the content of the file when it is whole
  phase,        \* what the background thread is doing
  row,          \* y of CreateTileCacheLevel0
  worker,       \* where the iteration of each column of the row stands
  mip,          \* level, x, y of CreateTileCacheMipLevels
  mpc,          \* where the body of its loops stands
  sub,          \* 2*sy + sx of the sub-tile to load next
  higherLevel,  \* content of the image the sub-tiles are copied into
  keepRunning,
  faults,       \* faults so far (bounds the model)
  damage        \* history: tiles whose file a fault has left wrong

memVars  == <<row, worker>>
mipVars  == <<mip, mpc, sub, higherLevel, keepRunning>>
diskVars == <<file, pixels>>
histVars == <<faults, damage>>
vars == <<fileStatus, diskVars, phase, memVars, mipVars, histVars>>

Status    == {"Missing", "Empty", "Exists"}
FileState == {"absent", "zero", "torn", "whole"}
Content   == SUBSET (SourceTile \cup {Junk})
Phase     == {"Down", "Level0", "Mips", "Done"}
Column    == 0 .. NumTilesX - 1
WorkerPC  == {"Idle", "Request", "Await", "Store", "WriteTile",
              "Convert", "OpenEmpty", "WriteEmpty", "Finished"}
MipPC     == {"visit", "load", "write"}

SourceAt(x) == <<Top, x, row>>

Busy == {x \in Column : worker[x] \notin {"Idle", "Finished"}}

\* Files that have been opened (and so truncated) but not written yet.
Writing ==
  IF phase = "Level0"
  THEN {SourceAt(x) : x \in {c \in Column : worker[c] \in {"WriteTile", "WriteEmpty"}}}
  ELSE IF phase = "Mips" /\ mpc = "write" THEN {mip} ELSE {}

Fault(kind) ==
  /\ kind \in FaultKinds
  /\ faults < MaxFaults
  /\ faults' = faults + 1

Put(t, state, content) ==
  /\ file' = [file EXCEPT ![t] = state]
  /\ pixels' = [pixels EXCEPT ![t] = content]

Record(t, content) ==
  fileStatus' = [fileStatus EXCEPT ![t] = IF content = {} THEN "Empty" ELSE "Exists"]

GoTo(x, pc) == worker' = [worker EXCEPT ![x] = pc]

Init ==
  /\ fileStatus = [t \in Tile |-> "Missing"]
  /\ file = [t \in Tile |-> "absent"]
  /\ pixels = [t \in Tile |-> {}]
  /\ phase = "Down"
  /\ row = 0
  /\ worker = [x \in Column |-> "Idle"]
  /\ mip = <<0, 0, 0>>
  /\ mpc = "visit"
  /\ sub = 0
  /\ higherLevel = {}
  /\ keepRunning = TRUE
  /\ faults = 0
  /\ damage = {}

-----------------------------------------------------------------------------
(* Start and end of the process *)

\* Mutant: an empty file is fetched again.
EnumeratedNonEmpty(t) == IF file[t] \in {"absent", "zero"} THEN "Missing" ELSE "Exists"

\* EnumerateFilesForLevel: only the size of a file counts.
Enumerated(t) ==
  CASE file[t] = "absent" -> "Missing"
    [] file[t] = "zero"   -> "Empty"
    [] OTHER              -> "Exists"

EnumerateFiles == fileStatus' = [t \in Tile |-> Enumerated(t)]

\* Init of the layer: ReadConfig, EnumerateFiles, start of the thread.
Start ==
  /\ phase = "Down"
  /\ EnumerateFiles
  /\ phase' = "Level0"
  /\ UNCHANGED <<diskVars, memVars, mipVars, histVars>>

\* The thread is gone, wherever it was; a file it was writing is cut short.
Die ==
  /\ phase # "Down"
  /\ phase' = "Down"
  /\ \E cut \in [Writing -> {"zero", "torn"}] :
       /\ file' = [t \in Tile |-> IF t \in Writing THEN cut[t] ELSE file[t]]
       /\ pixels' = [t \in Tile |-> IF t \in Writing THEN {} ELSE pixels[t]]
  /\ damage' = damage \cup Writing
  /\ row' = 0
  /\ worker' = [x \in Column |-> "Idle"]
  /\ mip' = <<0, 0, 0>>
  /\ mpc' = "visit"
  /\ sub' = 0
  /\ higherLevel' = {}
  /\ keepRunning' = TRUE
  /\ UNCHANGED fileStatus

\* The process exits or crashes: nothing stops or joins the thread.
Crash == Fault("crash") /\ Die

-----------------------------------------------------------------------------
(* CreateTileCacheLevel0: the iteration of column x of the current row *)

\* Mutant: a tile without data is not taken for cached.
BeginUnlessExists(x) ==
  /\ phase = "Level0"
  /\ worker[x] = "Idle"
  /\ Cardinality(Busy) < NumThreads
  /\ GoTo(x, IF fileStatus[SourceAt(x)] = "Exists" THEN "Finished" ELSE "Request")
  /\ UNCHANGED <<fileStatus, diskVars, phase, row, mipVars, histVars>>

Begin(x) ==
  /\ phase = "Level0"
  /\ worker[x] = "Idle"
  /\ Cardinality(Busy) < NumThreads
  /\ GoTo(x, IF fileStatus[SourceAt(x)] # "Missing" THEN "Finished" ELSE "Request")
  /\ UNCHANGED <<fileStatus, diskVars, phase, row, mipVars, histVars>>

Step(x, from, to) ==
  /\ phase = "Level0"
  /\ worker[x] = from
  /\ GoTo(x, to)
  /\ UNCHANGED <<phase, row, mipVars>>

\* client->Request
Request(x) ==
  /\ Step(x, "Request", "Await")
  /\ UNCHANGED <<fileStatus, diskVars, histVars>>

\* Mutant: a failed request counts as a tile without data.
ReplyFailureIsEmpty(x) ==
  /\ Step(x, "Await", "Convert")
  /\ UNCHANGED <<fileStatus, diskVars, histVars>>

\* Mutant: a failed request is not retried.
ReplyFailureGivesUp(x) ==
  /\ Step(x, "Await", "Finished")
  /\ UNCHANGED <<fileStatus, diskVars, histVars>>

\* An exception, a status other than 200 or a short body: retry.
ReplyFails(x) ==
  /\ Step(x, "Await", "Request")
  /\ UNCHANGED <<fileStatus, diskVars, histVars>>

\* The whole body is in tileImg; IsImageCompletelyInvalid picks the branch.
Reply(x) ==
  /\ Step(x, "Await", IF SourceAt(x) \in Valid THEN "Store" ELSE "Convert")
  /\ UNCHANGED <<fileStatus, diskVars, histVars>>

\* StoreTileToDisk cannot create the directory or open the file: retry.
StoreFails(x) ==
  /\ \E from \in {"Store", "OpenEmpty"} : Step(x, from, "Request")
  /\ UNCHANGED <<fileStatus, diskVars, histVars>>

\* The file is opened with ios::trunc ...
OpenTile(x) ==
  /\ Step(x, "Store", "WriteTile")
  /\ Put(SourceAt(x), "zero", {})
  /\ UNCHANGED <<fileStatus, histVars>>

\* ... and written; only then is the table updated.
WriteTile(x) ==
  /\ Step(x, "WriteTile", "Finished")
  /\ Put(SourceAt(x), "whole", {SourceAt(x)})
  /\ Record(SourceAt(x), {SourceAt(x)})
  /\ UNCHANGED histVars

\* The ofstream sets its badbit instead of throwing, and nobody looks at it.
ShortWriteTile(x) ==
  /\ Step(x, "WriteTile", "Finished")
  /\ Fault("shortWrite")
  /\ \E state \in {"zero", "torn"} : Put(SourceAt(x), state, {})
  /\ Record(SourceAt(x), {SourceAt(x)})
  /\ damage' = damage \cup {SourceAt(x)}

(***************************************************************************)
(* All iterations of the loop share one emptyTile, whose processed data    *)
(* CompressElevation frees and reallocates in place for each use.  While   *)
(* one iteration is inside that conversion, another one that converts it   *)
(* too may free the same block twice, and another one that writes it may   *)
(* see the size before it is set or the block after it is freed.           *)
(***************************************************************************)
Converting == {x \in Column : worker[x] = "Convert"}

Racing ==
  /\ phase = "Level0"
  /\ \E x \in Converting : \E z \in Column \ {x} : worker[z] \in {"Convert", "WriteEmpty"}

ConvertEmpty(x) ==
  /\ Step(x, "Convert", "OpenEmpty")
  /\ UNCHANGED <<fileStatus, diskVars, histVars>>

OpenEmpty(x) ==
  /\ Step(x, "OpenEmpty", "WriteEmpty")
  /\ Put(SourceAt(x), "zero", {})
  /\ UNCHANGED <<fileStatus, histVars>>

WriteEmpty(x) ==
  /\ Step(x, "WriteEmpty", "Finished")
  /\ Put(SourceAt(x), "whole", {})
  /\ Record(SourceAt(x), {})
  /\ UNCHANGED histVars

WriteRacedEmpty(x) ==
  /\ Converting # {}
  /\ Step(x, "WriteEmpty", "Finished")
  /\ \E state \in {"zero", "torn"} : Put(SourceAt(x), state, {})
  /\ Record(SourceAt(x), {})
  /\ damage' = damage \cup {SourceAt(x)}
  /\ UNCHANGED faults

ShortWriteEmpty(x) ==
  /\ Step(x, "WriteEmpty", "Finished")
  /\ Fault("shortWrite")
  /\ \E state \in {"zero", "torn"} : Put(SourceAt(x), state, {})
  /\ Record(SourceAt(x), {})
  /\ damage' = damage \cup {SourceAt(x)}

\* The allocator aborts on a block that is freed twice, or a null block is read.
RaceCrash ==
  /\ Racing
  /\ Die
  /\ UNCHANGED faults

\* The barrier at the end of the parallel loop.
RowFinished ==
  /\ phase = "Level0"
  /\ \A x \in Column : worker[x] = "Finished"

NextRow ==
  /\ RowFinished
  /\ row < NumTilesY - 1
  /\ row' = row + 1
  /\ worker' = [x \in Column |-> "Idle"]
  /\ UNCHANGED <<fileStatus, diskVars, phase, mipVars, histVars>>

\* Mutant: the mip levels start after the first row.
FinishLevel0Early ==
  /\ RowFinished
  /\ row' = 0
  /\ worker' = [x \in Column |-> "Idle"]
  /\ phase' = "Mips" /\ mip' = <<Top - 1, 0, 0>>
  /\ UNCHANGED <<fileStatus, diskVars, mpc, sub, higherLevel, keepRunning, histVars>>

FinishLevel0 ==
  /\ RowFinished
  /\ row = NumTilesY - 1
  /\ row' = 0
  /\ worker' = [x \in Column |-> "Idle"]
  /\ IF Top = 0
     THEN phase' = "Done" /\ UNCHANGED mip
     ELSE phase' = "Mips" /\ mip' = <<Top - 1, 0, 0>>
  /\ UNCHANGED <<fileStatus, diskVars, mpc, sub, higherLevel, keepRunning, histVars>>

-----------------------------------------------------------------------------
(* CreateTileCacheMipLevels *)

At(pc) == phase = "Mips" /\ mpc = pc

\* Mutant: the level loop starts again instead of ending.
AdvanceAround(goOn) ==
  /\ IF goOn
     THEN phase' = "Mips" /\ mip' = IF IsLastTile(mip) THEN <<Top - 1, 0, 0>> ELSE NextTile(mip)
     ELSE phase' = "Done" /\ mip' = <<0, 0, 0>>
  /\ mpc' = "visit"
  /\ sub' = 0
  /\ higherLevel' = {}

\* Mutant: the level loop ends before the coarsest level.
AdvanceAboveRoots(goOn) ==
  /\ IF goOn /\ ~IsLastTile(mip) /\ NextTile(mip)[1] # 0
     THEN phase' = "Mips" /\ mip' = NextTile(mip)
     ELSE phase' = "Done" /\ mip' = <<0, 0, 0>>
  /\ mpc' = "visit"
  /\ sub' = 0
  /\ higherLevel' = {}

\* To the next tile in loop order; keepRunning = FALSE ends all the loops.
Advance(goOn) ==
  /\ IF goOn /\ ~IsLastTile(mip)
     THEN phase' = "Mips" /\ mip' = NextTile(mip)
     ELSE phase' = "Done" /\ mip' = <<0, 0, 0>>
  /\ mpc' = "visit"
  /\ sub' = 0
  /\ higherLevel' = {}

SkipMip ==
  /\ At("visit")
  /\ fileStatus[mip] # "Missing"
  /\ Advance(TRUE)
  /\ UNCHANGED <<fileStatus, diskVars, memVars, keepRunning, histVars>>

BeginMip ==
  /\ At("visit")
  /\ fileStatus[mip] = "Missing"
  /\ mpc' = "load"
  /\ UNCHANGED <<fileStatus, diskVars, phase, memVars, mip, sub, higherLevel,
                 keepRunning, histVars>>

AtSubTile == At("load") /\ sub < 4

Loading == SubTile(mip, sub)

SkipSubTile ==
  /\ AtSubTile
  /\ fileStatus[Loading] # "Exists"
  /\ sub' = sub + 1
  /\ UNCHANGED <<fileStatus, diskVars, phase, memVars, mip, mpc, higherLevel,
                 keepRunning, histVars>>

\* Copied into its quadrant; a 0x0 image adds nothing.
LoadSubTile ==
  /\ AtSubTile
  /\ fileStatus[Loading] = "Exists"
  /\ file[Loading] = "whole"
  /\ higherLevel' = higherLevel \cup pixels[Loading]
  /\ sub' = sub + 1
  /\ UNCHANGED <<fileStatus, diskVars, phase, memVars, mip, mpc, keepRunning, histVars>>

\* Mutant: two sub-tiles are skipped wherever the loop stands.
SkipTwoSubTiles ==
  /\ keepRunning' = FALSE
  /\ sub' = sub + 2
  /\ damage' = damage \cup {mip}
  /\ UNCHANGED <<fileStatus, diskVars, phase, memVars, mip, mpc, higherLevel>>

\* keepRunning = false, and the break leaves the sx loop only.
GiveUpLoading ==
  /\ keepRunning' = FALSE
  /\ sub' = IF sub < 2 THEN 2 ELSE 4
  /\ damage' = damage \cup {mip}
  /\ UNCHANGED <<fileStatus, diskVars, phase, memVars, mip, mpc, higherLevel>>

LoadError ==
  /\ AtSubTile
  /\ fileStatus[Loading] = "Exists"
  /\ Fault("loadError")
  /\ GiveUpLoading

\* The header of the file is not the expected one, or its rows overrun.
LoadDamaged ==
  /\ AtSubTile
  /\ fileStatus[Loading] = "Exists"
  /\ file[Loading] # "whole"
  /\ GiveUpLoading
  /\ UNCHANGED faults

\* A file cut behind its header: the rows are decoded from beyond the buffer.
LoadJunk ==
  /\ AtSubTile
  /\ fileStatus[Loading] = "Exists"
  /\ file[Loading] = "torn"
  /\ higherLevel' = higherLevel \cup {Junk}
  /\ sub' = sub + 1
  /\ UNCHANGED <<fileStatus, diskVars, phase, memVars, mip, mpc, keepRunning, histVars>>

LoadCrash ==
  /\ AtSubTile
  /\ fileStatus[Loading] = "Exists"
  /\ file[Loading] \in {"zero", "torn"}
  /\ Die
  /\ UNCHANGED faults

AtStore == At("load") /\ sub = 4

OpenMip ==
  /\ AtStore
  /\ Put(mip, "zero", {})
  /\ mpc' = "write"
  /\ UNCHANGED <<fileStatus, phase, memVars, mip, sub, higherLevel, keepRunning, histVars>>

StoreMipFails ==
  /\ AtStore
  /\ Fault("storeError")
  /\ keepRunning' = FALSE
  /\ Advance(FALSE)
  /\ UNCHANGED <<fileStatus, diskVars, memVars, damage>>

WriteMip ==
  /\ At("write")
  /\ Put(mip, "whole", higherLevel)
  /\ Record(mip, higherLevel)
  /\ Advance(keepRunning)
  /\ UNCHANGED <<memVars, keepRunning, histVars>>

ShortWriteMip ==
  /\ At("write")
  /\ Fault("shortWrite")
  /\ \E state \in {"zero", "torn"} : Put(mip, state, {})
  /\ Record(mip, higherLevel)
  /\ damage' = damage \cup {mip}
  /\ Advance(keepRunning)
  /\ UNCHANGED <<memVars, keepRunning>>

-----------------------------------------------------------------------------
Iteration(x) ==
  \/ Begin(x) \/ Request(x) \/ Reply(x) \/ ReplyFails(x) \/ StoreFails(x)
  \/ OpenTile(x) \/ WriteTile(x) \/ ShortWriteTile(x)
  \/ ConvertEmpty(x) \/ OpenEmpty(x) \/ WriteEmpty(x)
  \/ WriteRacedEmpty(x) \/ ShortWriteEmpty(x)

MipStep ==
  \/ SkipMip \/ BeginMip
  \/ SkipSubTile \/ LoadSubTile \/ LoadError \/ LoadDamaged \/ LoadJunk \/ LoadCrash
  \/ OpenMip \/ StoreMipFails \/ WriteMip \/ ShortWriteMip

Next ==
  \/ Start
  \/ Crash
  \/ \E x \in Column : Iteration(x)
  \/ RaceCrash
  \/ NextRow
  \/ FinishLevel0
  \/ MipStep

Spec == Init /\ [][Next]_vars

(***************************************************************************)
(* The operator starts the server again, the operating system runs every   *)
(* thread, and neither the source layer nor the disk fails for ever.       *)
(***************************************************************************)
Fairness ==
  /\ WF_vars(Start)
  /\ \A x \in Column :
       /\ WF_vars(Iteration(x))
       /\ SF_vars(Reply(x))
       /\ SF_vars(OpenTile(x) \/ OpenEmpty(x))
  /\ WF_vars(NextRow \/ FinishLevel0)
  /\ WF_vars(MipStep)

FairSpec == Spec /\ Fairness
-----------------------------------------------------------------------------
(* Properties *)

TypeOK ==
  /\ fileStatus \in [Tile -> Status]
  /\ file \in [Tile -> FileState]
  /\ pixels \in [Tile -> Content]
  /\ phase \in Phase
  /\ row \in 0 .. NumTilesY - 1
  /\ worker \in [Column -> WorkerPC]
  /\ mip \in Tile /\ (phase = "Mips" => mip[1] < Top)
  /\ mpc \in MipPC
  /\ sub \in 0 .. 4
  /\ higherLevel \in Content
  /\ keepRunning \in BOOLEAN
  /\ faults \in 0 .. MaxFaults
  /\ damage \subseteq Tile

(***************************************************************************)
(* No tile without the tiles it is sampled from: through every crash,      *)
(* error and restart, a file of a coarser level is there only when the     *)
(* four files under it are.  SkipSubTile relies on it: it takes a sub-tile *)
(* that is not FileStatus_Exists for one without data.                     *)
(***************************************************************************)
Grounded ==
  \A t \in Tile : file[t] # "absent" =>
                   \A s \in SubTiles(t) : file[s] # "absent"

(***************************************************************************)
(* The table in memory agrees with the directory: a tile is Missing        *)
(* exactly until its file is written (a file that is only opened does not  *)
(* count), and what the table says of a tile no fault has damaged is true. *)
(***************************************************************************)
StatusTracksDisk ==
  phase # "Down" =>
    \A t \in Tile :
      /\ fileStatus[t] = "Missing" <=> (file[t] = "absent" \/ t \in Writing)
      /\ fileStatus[t] # "Missing" /\ t \notin damage => file[t] = "whole"
      /\ fileStatus[t] = "Empty" /\ t \notin damage => pixels[t] = {}

(***************************************************************************)
(* Damage stays where it is: a file whose pyramid below it no fault has    *)
(* hit holds all the valid source tiles it covers, and nothing else.       *)
(***************************************************************************)
PyramidExact ==
  \A t \in Tile : file[t] = "whole" /\ Under(t) \cap damage = {} =>
                   pixels[t] = Under(t) \cap Valid

(***************************************************************************)
(* A thread that ends without having met an error leaves no tile Missing.  *)
(***************************************************************************)
DoneMeansComplete ==
  phase = "Done" /\ keepRunning => \A t \in Tile : fileStatus[t] # "Missing"

(***************************************************************************)
(* The threads of the parallel loop touch emptyTile at the same time only  *)
(* in a build with several threads, and in a row with two tiles that have  *)
(* no data: the barrier at the end of each row and the size of the team    *)
(* keep everything else apart.                                             *)
(***************************************************************************)
NoEmptyTileRace ==
  Racing => /\ NumThreads > 1
            /\ Cardinality({x \in Column : SourceAt(x) \notin Valid}) > 1

(***************************************************************************)
(* A file that is not being written is never changed nor opened again,     *)
(* whether it is good or damaged, and by no later process either: no tile  *)
(* is stored twice.                                                        *)
(***************************************************************************)
FilesAreFinal ==
  [][\A t \in Tile : file[t] # "absent" /\ t \notin Writing =>
       file'[t] = file[t] /\ pixels'[t] = pixels[t] /\ t \notin Writing']_vars

(***************************************************************************)
(* The work comes to its end, successfully or not, when the faults of the  *)
(* environment do: no retry and no error path runs for ever.  The one      *)
(* exceptions are a damaged file whose decoding kills the process: it is   *)
(* read again, and kills it again, after every restart; and threads that   *)
(* race for emptyTile again and again.                                     *)
(***************************************************************************)
Finishes ==
  \/ <>[](phase = "Done")
  \/ []<>(phase = "Down" /\ damage # {})
  \/ []<>Racing

(***************************************************************************)
(* What the comment of CreateTileCacheMipLevels says (line 437): "any      *)
(* errors are fatal to the whole process of creating mip tiles": after one *)
(* no mip tile is stored any more.                                         *)
(***************************************************************************)
MipErrorsAreFatal ==
  [][phase = "Mips" /\ ~keepRunning => UNCHANGED fileStatus]_vars

(***************************************************************************)
(* The directory, file contents aside, behaves as TilePyramid says.        *)
(***************************************************************************)
Pyramid == INSTANCE TilePyramid WITH built <- {t \in Tile : file[t] # "absent"}

ImplementsPyramid == Pyramid!Spec

(***************************************************************************)
(* Without faults of the disk and of the process, and without a race for   *)
(* emptyTile, the pyramid keeps growing until it is complete: requests and *)
(* stores that fail and are retried do not keep it from that.              *)
(***************************************************************************)
PyramidIsCompleted ==
  [](faults = 0 /\ damage = {} /\ ~Racing) => Pyramid!Fairness

(***************************************************************************)
(* Both: the work ends, and without faults it ends with a whole pyramid.   *)
(***************************************************************************)
Completes == Finishes /\ PyramidIsCompleted
=============================================================================
