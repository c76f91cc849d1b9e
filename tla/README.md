# Verification of Druckwelle

TLA+ models, TLC runs and TLAPS proofs for the tile and map server in this
repository. Paths are those below `src/src/`: `layers/TileCache.cpp:395` is
line 395 of `src/src/layers/TileCache.cpp`.

1. [The system](#1-the-system)
2. [The modules](#2-the-modules)
3. [TileCache](#3-tilecache)
4. [ElevationCodec](#4-elevationcodec)
5. [MapServer](#5-mapserver)
6. [AsterTiles](#6-astertiles)
7. [VectorTiles](#7-vectortiles)
8. [OSMSDF](#8-osmsdf)
9. [ImageBuffers](#9-imagebuffers)
10. [Runs and bounds](#10-runs-and-bounds)
11. [Findings](#11-findings)
12. [Proofs](#12-proofs)
13. [What is not modelled](#13-what-is-not-modelled)
14. [Plan](#14-plan)

## 1. The system

Druckwelle serves maps over HTTP. A *map service* (WMS) renders any bounding box
from one of its layers; a *map tile service* (WMTS) serves a pyramid of tiles
that one of its layers, the tile cache, fills in the background by asking the
map service of a running server for one tile after the other.

| Component | State it keeps | Operations | Works with |
|---|---|---|---|
| Web server (`WebServer.cpp`, `main.cpp`) | the listener, pointers to the two services | `Start`, `Stop`, dispatch by the `service` argument | the services; handlers run on a pool of threads while `main` may be in `Stop` |
| Map service (`WebMapService.*`) | the layers that could be initialised | `Start`/`CreateLayers`, `HandleRequest`, `HandleGetMapRequest` | layers, image processor |
| Map tile service (`WebMapTileService.*`) | its layers | the same for `GetTile` | tile layers, image processor |
| Tile cache (`layers/TileCache.cpp`) | a table of file states per level, a directory of tiles, a background thread | `Init`/`EnumerateFiles`, `CreateTileCacheLevel0`, `CreateTileCacheMipLevels`, `HandleGetTileRequest` | the HTTP client, the image processor, the codec |
| Quality elevation (`layers/QualityElevation.cpp`) | a table of the ASTER tiles on disk | `HandleGetMapRequest`: `GetASTERTiles`, `LoadASTERTileContent`, `SampleWithLanczos` | called by the map service |
| OSM distance field (`layers/OSMSDF.cpp`) | a table of transformations between reference systems, filled once; for one request, a tree of water polygons | `Init`, `LoadDataSets`, `LoadShapes`, `RasterImg` | called by the map service; opens vector tiles |
| Vector tiles (`utils/VectorTiles/VectorTiles.*`) | a tile database, a shared empty dataset and its references | `Open`: unpack, parse, decode each feature's geometry and tags, group its rings | called by the OSM layer |
| Image processor (`utils/ImageProcessor.*`) | per image: a raw and a processed buffer, which may be one | conversions, save, load, resampling | used by everything |
| Elevation codec (`utils/Elevation.*`) | none beyond one call | `CompressElevation`, `DecompressElevation` | used by the image processor |
| Core types (`dwcore.*`) | none | `GetContentType`, `FindCompatibleDataType` | used by the services |
| HTTP client (`utils/HTTP/*`), Capabilities, Quadtree, Polysplit, generated protobuf code | none of interest | wrappers, stubs, unused tools, generated code | |

What makes each of them correct, and what is hard about it:

- **Tile cache.** Its directory is its only memory: what the next process
  concludes from it must be what the last one knew. Hard: the thread is never
  joined, so the process can end at any step of it; a file is truncated when it
  is opened and written afterwards; a start looks at file sizes only; some
  failures are retried for ever and others end the work half way; the columns of
  a row run in parallel and share one image.
- **Elevation codec.** Decoding gives back what was coded, and decoding anything
  else writes nothing behind a row. Hard: a loop that runs backwards through a
  vector, erases from it and moves its index both ways; unsigned subtraction;
  memory of an earlier row behind the end of the vector.
- **Web server and services.** Every request gets one reply, that has its reason
  in the request or in the layer; no handler sees half a service. Hard: nothing
  locks the pointers and tables that `main` and the handlers share; a dozen
  early returns in two functions; two tables of formats in two files that have to
  agree.
- **Quality elevation.** The tiles are stitched where they lie and the filter
  reads only what was loaded. Hard: padding, a fudged end, half a pixel of
  offset, a shared border pixel and the stretched window of the filter all have
  to fit each other; the date border; the end of the data.
- **Image processor.** A buffer is freed once, by its owner, the way it was
  allocated; what is stored or sent is the picture it is said to be. Hard: who
  owns a buffer and how it is freed follow from a content type that changes within
  sequences of calls, from a raw format that makes two buffers one, and from
  conversions that fail half way.
- **Vector tiles.** Every feature arrives with the shape that was encoded, or the
  caller gets nothing of the tile. Hard: a decoder with a command, a count, a
  cursor and an open ring as its state; what is still open at the end means
  something else for every type of feature; rings become polygons by the sign of
  their area alone.
- **OSM distance field.** All tiles of the box, each once; every water polygon in
  the tree; every pixel the distance to the nearest shore of the water that was
  loaded. Hard: floor, ceiling and
  one more against the edges of the map; a tile, a feature, a transformation or a
  geometry may each be missing, and each means something else; the search gives up
  early by the boxes, the order and the sign of what it has seen so far.

The hazards are listed at their lines in `PROJECT.json`, each with the
properties that watch over it or the reason why none does.

## 2. The modules

| Module | What it is |
|---|---|
| `TileGrid` | geometry of the tile pyramid: tiles, sub-tiles, the order of the loops |
| `TilePyramid` | abstract specification of the storage directory: tiles appear one by one, coarse ones after the fine ones they are made of |
| `TileCache` | the tile cache: fetch, mip levels, files, crash and restart; refines `TilePyramid` |
| `TileCacheProofs` | its theorems |
| `ElevationCodec` | coder and decoder of the elevation format |
| `ElevationCodecProofs` | its theorems |
| `MapServer` | `main`, web server, both services, and the tables of formats |
| `MapServerProofs` | its theorems |
| `AsterTiles` | tile selection, stitching and filter window of the elevation layer |
| `AsterTilesProofs` | its theorems |
| `VectorTiles` | opening a vector tile and converting its features |
| `TileEncoding` | what an encoder writes into a tile: the numbers of a shape, the tags of attributes. The program only reads tiles; the proofs and the instances for TLC need to know what was written |
| `VectorTilesProofs` | theorems of `VectorTiles` |
| `OSMSDF` | the OSM layer, composed with `VectorTiles`: its reference systems, the tiles of a request, the water, the pixels |
| `OSMSDFProofs` | its theorems |
| `ImageBuffers` | the class `Image`, its memory, and the lives of images in the services and the tile cache |
| `ImageBuffersProofs` | its theorems |
| `SequenceElements` | lemmas of most of the proof modules: of the numbers with a property there is a first one; what a sequence holds whose elements have no set of their own |
| `MCTileCache`, `MCElevationCodec`, `MCMapServer`, `MCAsterTiles`, `MCVectorTiles`, `MCOSMSDF`, `MCImageBuffers` | instances for TLC |

`TileCache` EXTENDS `TileGrid` and instantiates `TilePyramid` with
`built <- {t \in Tile : file[t] # "absent"}`. `OSMSDF` EXTENDS `VectorTiles`: while
the layer opens a tile its steps are those of `Open`, which runs in the same
thread. `ImageBuffers` looks at the image processor and at three of its callers
with the memory in sight; what a call does to the rest of them is in `MapServer`
and `TileCache`. The other components meet only in
values: what `MapServer` calls a layer that returns `OK` is `AsterTiles` with
`result = "OK"`; what `TileCache` calls a tile's content is coded as in
`ElevationCodec`; a `TileCache!Request` is an `Arrive` of `MapServer`. They are
kept apart because none of them waits for or writes the state of another, and a
product would multiply their states without adding a step.

Definitions that begin with the comment "Mutant:" are wrong variants of the
definition after them. No specification uses them. They record, for each
property, a plausible slip in the code that it would catch (`PROJECT.json`,
"mutants").

## 3. TileCache

**What is there.** `Init` of the layer reads the configuration, rebuilds the
table `fileStatus` from the directory and starts a thread. The thread first
fetches the finest level row by row, then builds every coarser level from the
files of the finer one, then ends. Nothing ever joins it.

| Model | Code (`layers/TileCache.cpp` unless named) |
|---|---|
| `fileStatus` | `levels[l].fileStatus` (`FileStatus_Missing/Empty/Exists`) |
| `file`, `pixels` | a file of the storage directory: `absent`; `zero` bytes long; `torn` (shorter or other than it should be); `whole` with some content |
| `phase`, `row`, `worker[x]` | the thread; `y` of `CreateTileCacheLevel0`; where the OpenMP iteration of column `x` stands |
| `mip`, `mpc`, `sub`, `higherLevel`, `keepRunning` | the variables of `CreateTileCacheMipLevels` |
| `damage` | history variable: the tiles whose file or content a fault has spoilt; no guard reads it |
| `Start` / `Crash`, `Die` | `Init`, `EnumerateFiles` / the process ends anywhere |
| `Begin`, `Request`, `Reply`, `ReplyFails`, `StoreFails`, `OpenTile`, `WriteTile` | one iteration of the parallel loop: skip what exists, ask, retry on an exception, a status, or a short body, store |
| `ConvertEmpty`, `OpenEmpty`, `WriteEmpty` | the branch for a tile without data, which goes through the shared `emptyTile` |
| `WriteRacedEmpty`, `RaceCrash` | what the data race on `emptyTile` can do: a wrong or cut file, or the end of the process |
| `ShortWriteTile/Empty/Mip` | `ofstream::write` fails quietly (`utils/ImageProcessor.cpp:142`) |
| `NextRow`, `FinishLevel0` | the barrier of the parallel loop, and the loop over rows |
| `SkipMip` ... `ShortWriteMip` | the nested loops of the mip levels: load four sub-tiles, sample, store |
| `LoadDamaged`, `LoadJunk`, `LoadCrash` | what decoding a damaged file can do: be refused, give pixels, kill the process |

**Data.** A raster is the set of source tiles that contribute valid pixels to
it: sampling four sub-tiles is their union, the completely invalid raster (a 0x0
image on disk) is the empty set, and what is decoded from a torn file contains
`Junk`. Nothing else about pixels matters for control.

**Faults** (`FaultKinds`, at most `MaxFaults` in a behaviour): `crash`,
`shortWrite`, `loadError` (a file that cannot be opened), `storeError`. What
follows from an earlier fault (a damaged file that cannot be decoded) does not
count as another one. Failing requests and failing opens of the first phase are
not limited: the code retries them.

**Properties.** `Grounded` (no mip file before its four sub-tiles: `SkipSubTile`
relies on it), `StatusTracksDisk`, `PyramidExact` (damage does not spread
sideways), `DoneMeansComplete`, `NoEmptyTileRace` (no race in a single-threaded
build or when no row has two empty tiles: exactly what the barrier gives),
`FilesAreFinal`, `ImplementsPyramid`, and `Completes`, which is `Finishes` and
`PyramidIsCompleted`.

**Fairness** (`FairSpec`). The operator starts a server that went down
(`WF Start`); the operating system runs every thread (`WF` of each iteration, of
the end of a row, and of `MipStep`); the source layer does not fail for ever and
neither does opening a file (`SF Reply(x)`, `SF OpenTile(x) \/ OpenEmpty(x)`:
strong, because each failure sends the iteration back and disables them). The
code assumes the same when it retries without an end. `Crash`, faults and
failures have no fairness.

`Finishes` says the thread comes to its end. It has two exceptions that the code
really has: a file cut short within its data can kill the process when it is
decoded, is not repaired by the next start, and kills it again; and a race for
`emptyTile` can kill it at every start. `PyramidIsCompleted` says what a run
without faults and races promises of the directory: the fairness of
`TilePyramid`, so that tiles go on being built until none is missing.

## 4. ElevationCodec

**What is there.** `CompressElevation` codes each row on its own: it scans the
row into runs and bulks, merges short runs into neighbouring bulks, and writes
runs as (flag, length, value) and bulks as lists of bytes relative to a
reference value. `DecompressElevation` reverses it and is also given files that
a crash has cut.

| Model | Code (`utils/Elevation.cpp`) |
|---|---|
| `ScanSegment` (`EndsRun`, `EndsBulk`) | one turn of the outer loop of the scan |
| `KeepSegment`, `MergeSegment` (`JoinNext`, `BelowLast`, `FlagAfter`) | one turn of the merge loop, with the two erasures and the index moved back |
| `WriteRun`, `WriteBulk`, `WriteSubSegment` | the output loop |
| `ReadRun`, `ReadBulk`, `ReadUnknown`, `ReadValue`, `Corrupt` | the decoder; `Overrun` is reading beyond the data |
| `Wrap` | the 16 bits of `numElements` |
| `stale` | the flag left in the memory of the vector's second element: `segments.size() - 2` is unsigned and wraps for a vector of one, and then the code reads it |
| `segments[k].from` | not in the code: the column at which the segment starts, which the code recomputes by adding lengths |

A step is one iteration of a loop. Rows are coded and decoded one after the
other; they are independent but for the memory of the vector. Coded numbers are
not taken apart into bytes, but `size` counts the bytes.

**Properties.** `SegmentsTile` (the segments tile the row at every moment of
scan, merge and output, and whatever is still a run is one value), `RoundTrip`,
`NoRunAfterBulk` (the loop really looks again at what it merged), `InBounds`
(`TypeOK` and `RowSize`), `RowBound` (the decoder writes nothing behind the row,
whatever it reads), `Terminates` (the merge loop moves its index both ways).

The buffer has `4 * Width` bytes for each row (`:51`). `RowSize` says that a row in
which no two neighbours lie 255 or more apart (`Smooth`) fits, and that the code of
any other takes at most three bytes more. These three are a real overflow, which
nothing in the code tests for and TLC reaches: the code of an image whose rows all
have such neighbours is longer than its buffer. So `InBounds` is no claim that the
buffer is large enough; no text of the repository says so either, which is why the
overflow is a hazard and no finding.

**Fairness.** `WF_vars(Next)` in `FileSpec` of `MCElevationCodec`: the loops run
without waiting for anything. `FileSpec` starts with an image to be coded and
decoded, or with a file that holds any code at all.

## 5. MapServer

**What is there.** `main` creates the services and then the listener, waits, and
stops them; meanwhile the threads of the HTTP library's pool run handlers.

| Model | Code |
|---|---|
| `main = "Config" ... "Waiting"`: `NoConfig`, `StartMapService`, `CreateLayer`, `MapServiceStarted`, `CreateTileLayer`, `TileServiceStarted`, `Listen`, `ListenFails` | `main.cpp`, `WebServer::Start`, `CreateLayers` of both services |
| `Wake`, `DeleteMapService`, `ForgetMapService`, `Close`, `Closed` | the wait in `main` (nobody notifies it; a spurious wake-up ends it), `WebServer::Stop` |
| `wms`, `wmsAlive` | the pointer is set; the object it was set to is alive. Two steps of `Stop` separate them |
| `Arrive`, `Dispatch` | the listener, `WebServer::HandleGetRequest` |
| `Handle` (`MapObjection`, `TileObjection`, `LayerObjection`) | every early return of `HandleRequest` and `HandleGetMapRequest`/`HandleGetTileRequest`, in its order |
| `HandleDeleted`, `Found` | a handler in a service that `Stop` has deleted: the process dies, or finds its tables as they were, or empty |
| `Render`, `Exception` | the layer's result and its mapping to an exception of the protocol |
| `Convert` | `ConvertRawImageToContentType`, whose result nobody looks at |
| `Wrapped`, `Sized` | the constructor of `Image`, which multiplies two `int`s (`utils/ImageProcessor.cpp:34`), and the sizes for which neither this product nor the places of the PNG encoder overflow |
| `UseBeyondMemory` | a layer or the conversion of an image of another size: it has less memory than its sides tell, and the process may end |
| `FindCompatibleDataType`, `Wanted` / `Converts` | the two tables, in `dwcore.cpp` and `utils/ImageProcessor.cpp`, that have to agree |
| `reply = "Exception"` | a handler threw; the library answers with an error |

What a layer returns is any of `Results`; what it is asked is a record whose
fields are what the tests look at. That `close().wait()` waits for running
handlers is a promise of the HTTP library the code uses (and modelled as such, in
`Closed`).

**Properties.** `ImagesAreComplete`, `ErrorsHaveCause`, `NothingDeletedInUse`
(`NoDeletedService` and `QuietAfterStop`), `TablesFrozen`, `Answered`. The first is where the two tables
meet: whatever the first lets through the second must convert. They are not the
same: an RGBA8 image would do for raw U32 and is refused, and F32 and F64 are
never looked for.

Of a size only zero is refused (`WebMapService.cpp:196`; the comment at `:193` leaves
a limit to be done). Where the number of pixels wraps to a negative one, the
allocation throws; where it wraps to something else, `MapObjection` lets the request
through, the layer fails, or the conversion does, or the process ends.
`ImagesAreComplete` and `ErrorsHaveCause` speak of sizes that are `Sized` and claim
nothing of the others.

Between `DeleteMapService` and the end of `Stop` the code does let handlers run
in a deleted service; the model has that step, and the properties are therefore
stated for the time until `main` is woken.

**Fairness.** Each thread of the pool goes on with its request
(`WF HandlerStep(h)`). None for `main`, which may wait for ever, nor for clients.

## 6. AsterTiles

**What is there.** A request's box is padded for the Lanczos filter, the tiles of
one degree that it touches are selected, loaded into one image in which
neighbours share their border pixels, and sampled.

| Model | Code (`layers/QualityElevation.cpp` unless named) |
|---|---|
| `Low`, `High`, `Padding` | `ExtendBoundingBoxForLanczos` |
| `First`, `Last`, `BeginX`, `EndX`, `BeginY`, `clampedStartY`, `EndY`, `StartX` | the bounds `GetASTERTiles` computes, with the wrap at the date border and the clamp to the rows on disk |
| `GatherTile`, `EndGather` | its loops over rows and columns, one place of the table in a step |
| `asterTiles`, `Missing` | the table `Init` fills, row by row from the south |
| `Receive`, `TransformFails`, `Select`, `LoadTile`, `LoadFails`, `SecondTransformFails`, `Sample`, `Return` | `HandleGetMapRequest` and its early returns; too many tiles are refused only after they were selected |
| `pixelOffset`, `Pitch` | where a tile is stitched |
| `offsetX`, `offsetY` | the sample transform |
| `ColumnsRead`, `RowsUsed`, `RowsRead`, `tmpImageOffsetY`, `tmpImageHeight`, `imgLanczosWindow` | the reach of `SampleWithLanczos` in `utils/ImageProcessor.cpp`, by way of its intermediate image |

**Data.** The code computes in floating-point degrees. In the model a source
pixel is `Sub` units and every length of an axis is multiplied by the number of
pixels the request has on that axis, which makes all of them integers, exactly.
The fudge of 10^-6 degrees at the far end is "less than any unit" (`High - 1`).
Rounding of the floating-point numbers is left out. Pixel values, weights and the
conversion to grey scale are too.

**Requests.** `OnGlobe` admits boxes whose padded west edge lies on the globe or
up to half a globe to its west, and up to a whole globe if the box is too wide to
be answered. Further west the index of `GetASTERTiles` is negative (`:503`), and
from half a globe on, as east of the date border, `startX` wraps but the box does
not (`:512`), so that the window of the sampler lies a globe beside the image; the
model leaves these boxes out. Sizes of images are positive.

One request at a time stands for all: requests share nothing but the table.

The loop over tiles carries an OpenMP pragma (`:420`) but leaves through `break`
(`:437`). A compiler with OpenMP rejects that, one without ignores the pragma: the
model runs the loop sequentially, as every build that compiles does.

**Properties.** `TilesInPlace` (every tile lies where the sampler's transform
takes it to be, modulo the globe), `AnswersAreWhole` (all the tiles
that meet the padded box, and no others), and `WithinImage`, which is `TilesFit`
(nothing is loaded outside of the stitched image) and `WindowInside`. The latter
has three parts: the columns the horizontal pass reads lie in the image, for the
outermost pixels too; so do the rows that *weigh*, those the vertical pass uses
(`RowsUsed`); and of the rows that are *read* (`RowsRead`) at most one does not. The
horizontal pass reads the source for every row of the intermediate image
(`utils/ImageProcessor.cpp:402`), whose height is rounded up while its offset is cut
towards zero (`:389`, `:391`). If the request is coarser than the source, its last
row may be the one below the image: the code then reads one row of memory that is not
the image's. TLC reaches that; what is read there weighs nothing, and nothing in the
repository speaks of it, so it is a hazard whose extent the property bounds.

## 7. VectorTiles

**What is there.** `Open` reads a packed tile from the database, unpacks it block
by block and parses it. A tile has layers, and a layer has features with a type, a
geometry and tags. The geometry is a list of numbers: a command with a count,
then as many relative coordinates as the count asks for. The decoder collects
vertices in `vtPoly` and finished rings in `vtPolys`; a switch over the type makes
a geometry of them; tags become fields. Any failure gives up the whole tile. A row
of the database without data gives the caller another reference to one shared
empty dataset.

| Model | Code (`utils/VectorTiles/VectorTiles.cpp` unless named) |
|---|---|
| `NoTile`, `EmptyTile`, `OpenTile`, `Fail` | the ways out of `Open`: NULL, the shared `emptyTile`, a dataset, NULL after the dataset was released |
| `InflateBlock`, `UnpackFails`, `ParseTile` | the loop around `inflate`, whose return values the model chooses among, and the parsing |
| `references` | the reference count of `emptyTile`: one for `VectorTiles` itself, one more while a caller has it |
| `BeginLayer`, `Converted` | the loop over layers; layers of one name share one of the dataset |
| `k`, `cmd`, `length`, `cursor`, `vtPoly`, `vtPolys` | the variables of the decoder; `k` counts from one |
| `Command`, `ReadNothing`, `ReadVertex`, `ReadClose`, `UnknownCommand` | one turn of its loop, which reads a command only if none is at work |
| `ReadBeyond`, `ReadTagsBeyond` | `geometry(k++)`, or a tag's key or value, behind the last one |
| `Fields` (`KindOf`, `FieldType`, `FieldValue`) | the tags: the kinds of a value in the order they are tested, the field of a key that is defined once and may be set twice, 64 unsigned bits in a signed field (`FieldBits`) |
| `p`, `polyStart`, `polygons`; `BeginRings`, `NextRing`, `ConvertPolygons` | the loop over rings: one with a negative area starts the next polygon |
| `CreateOGRPolygon`, `IsRing`, `IsLine` | `CreateOGRPolygon`, `CreateOGRGeometry`: what has too few vertices is no geometry |
| `ConvertLines`, `AddNoLine` | a line, or several; NULL added to a collection kills the process |
| `ConvertPoints` | the points that are in `vtPoly` |
| `OnMap` | from the grid of a tile to Web Mercator; tiles are counted from the south, their rows from the north |
| `CreateFeature`, `CreateFeatureFails`, `UnknownType` | the end of a feature |
| `Release`, `Destroy` | the caller gives the dataset back and may open another tile; the destructor |

**Data.** A feature carries the shape and the attributes that were encoded in its
numbers, or `NoShape` if no encoder would write them; only properties look at
them. Every geometry is a sequence of parts, a part a sequence of paths (a polygon
is its exterior with the holes after it), a path a sequence of vertices. The
message is parsed by generated code: it is the tile, or nothing.

**Properties.** `RingsWellMade` (`RingsInOrder`: no ring is lost between two
polygons or in both; `Oriented`: what the assertions of `layers/OSMSDF.cpp:82` and
`:96` need, given that the first ring of a feature is an exterior, which the code
never tests), `ShapesKept` (what was encoded arrives, at its place on the map, and
a dataset is whole), `AttributesKept`, `ReferencesCounted`, and as part of
`OnlyBrokenTilesStop` `ReadsWhatIsThere` (an encoder's numbers are never read past
their end and never kill the process).

## 8. OSMSDF

**What is there.** The layer gets a list of reference systems and a database. For
a request it transforms the box to Web Mercator, chooses a zoom level, opens the
tiles of the box one after the other, reprojects the polygons of their layer
"water" into a tree, and asks the tree for each pixel.

| Model | Code (`layers/OSMSDF.cpp` unless named) |
|---|---|
| `InitBase`, `TransformPairs`, `Missing` | `Layer::InitBase`, `GetTransform` in `WebMapService.cpp`; `imported` are the systems GDAL could make sense of |
| `InitLayer` | `OSMSDF::Init` |
| `Refuse`, `HandleGetMapRequest`, `TransformBBox` | the tests of a request and its transformation |
| `ZoomLevel`, `Undefined` | `LoadDataSets` up to the level: a logarithm that is negative or not finite is then the number of digits of a shift, which is `"undefined"` |
| `Left`, `Right`, `Bottom`, `Top`, `FirstTile`, `TileAfter` | its loops over tiles |
| `OpenDataSet`, `Opening`, `LoadFails`, `Opened`, `ReleaseDataSet` | `LoadDataSet`, around the steps of `VectorTiles` |
| `LoadShape`, `LeaveShapeOut`, `NoGeometry`, `AreaAssertionFails` | one turn of `LoadShapes`: the feature's polygons are taken, or it cannot be transformed, or has no geometry and is used all the same, or an assertion of `Polygon` fails |
| `RasterPixel`, `LookAt`, `WritePixel` | `RasterImg`: the query around a pixel, one polygon of it, the pixel |
| `ComputeSignedSquareDistance`, `SqrDistanceToBoundingBox` | the class `Polygon` |
| `AnswerOK`, `Answer`, `DestroyLayer` | the replies; the destructor |

`opened` (with the water that each tile had) and `untransformed` are auxiliary: no
guard reads them.

**Data.** Reference systems differ by an offset, which stands for any reprojection
that is not the identity. Distances are squared, in tenths of a quarter of a
square unit, rounded up; a pixel holds that instead of one of 256 shades. The tree
gives the polygons that meet its region in any order.

**Properties.** `TransformFound` (what `GetTransform` finds is an entry: it uses
what `find` returned unseen), `BoxCovered`, `WaterLoaded`, `ShoresTold` (a pixel on
land tells the distance to the nearest shore of all the water *that was loaded*,
whatever the region, the boxes and the order have left out; one in the water is negative, unless it lies on
a shore), `OnlyBrokenTilesStop`, `RequestAnswered`.

The water that was loaded is that of the tiles which the box overlaps. Water outside of
the box may be within `DistanceDomain` of a pixel at its edge, and the tile it is in is
not opened: the code leaves this to be done (`layers/OSMSDF.cpp:300`: "ensure all
geometries outside of requested area but within DistanceDomain are loaded as well").
Such a pixel tells a distance that is too great, in the code and in the model;
`BoxCovered` and `ShoresTold` claim nothing about water beyond the tiles of the box.

One request at a time stands for all here too. The threads of the pool share the
layer and its `VectorTiles`: its database, from which `Open` reads
(`utils/VectorTiles/VectorTiles.cpp:518`), and the reference count of `emptyTile`, which
`Open` and the callers change, all without a lock. What becomes of two callers at a time is
up to GDAL; it is not modelled, and `ReferencesCounted` speaks of one caller after
the other.

`ShoresTold` is about pixels that are square, as `RasterImg` takes them to be, and
about points for which the holes of each polygon are apart (`HolesApart`): if
the point is in a hole, no ring that is not around it may be as near as that hole,
unless it lies on the hole's own ring. The code takes the ring that is nearest and looks
at no other, and nothing in it tests how holes lie: where two of them overlap, the nearest
one may say water while the point is in the other. The proof made this condition
necessary; in the tiles of the run it is never false, and true of points in a hole.

**Fairness.** `WF(OSMStep)`: the thread that handles a request goes on with it.
Requests and the end of the layer have none.

## 9. ImageBuffers

**What is there.** An image has a raw and a processed buffer. Raw formats make the
two one; a conversion frees the processed data there were, in the way of the *new*
content type; the destructor frees what is left. The services make one image for
an answer; the tile cache fetches into an image that is stored, perhaps after
failures, again and again, next to one `emptyTile` that all empty tiles share; a
mip tile needs four images.

| Model | Code (`utils/ImageProcessor.cpp` unless named) |
|---|---|
| `memory` | the buffers there are, by `new` or by the library that writes PNG files |
| `images` | the images that are alive, the last one on top: the blocks of the callers |
| `Image`, `ImageOf`, `FreeRawData`, `FreeProcessedData`, `Destroyed`, `AllocateRawData` | the class `Image` |
| `ConvertRawImageToContentType`, `ConvertContentTypeToRawImage` | the two conversions, with what they leave when they fail |
| `CopyFromSubImage`, `SampleWithBoxFilter`, `IsImageCompletelyInvalid` | the functions on pixels, with the pitch of each image |
| `BeginAnswer` ... `Leave` | `HandleGetMapRequest`, `HandleGetTileRequest` of the services |
| `BeginFetching` ... `EndFetching` | `CreateTileCacheLevel0` (`layers/TileCache.cpp`) |
| `BeginMip` ... `LeaveMip` | one tile of `CreateTileCacheMipLevels` |
| `faults`, `asserted` | auxiliary: memory freed twice or in the wrong way; the assertion at `:96` |

**Data.** An image that is encoded is a header with its size and then its pixels;
how elevations are coded is `ElevationCodec`. One job runs at a time: images of
different threads share nothing but `emptyTile`, whose race is in `TileCache`.

**Properties.** `BuffersBalanced` (each buffer belongs to one living image and is
freed once, in its own way), `PicturesKept` (what is stored is the last complete
answer of the server, whatever came before it; what is sent is what was rendered),
`MipRight` (each pixel is the mean of the valid ones of its four, across the
borders of sub-tiles and whichever of them are missing).

## 10. Runs and bounds

| Run | Instance | Question |
|---|---|---|
| `tile_cache_levels` | 4x4 tiles, 3 levels, 1 thread, two crashes, short writes or load errors (911 k states) | `TypeOK`, `Grounded`, `StatusTracksDisk`, `DoneMeansComplete`, `PyramidExact`: what the next process concludes, and how far damage spreads |
| `tile_cache_progress` | 2x2 tiles, a row with two empty tiles, 2 threads, two faults of any kind (15 k), `FairSpec` | `NoEmptyTileRace`; `FilesAreFinal`, `ImplementsPyramid` when iterations race; `Completes` |
| `mip_errors_fatal` | 2x2 tiles, one load error | finding, see below |
| `elevation_rows` | all pairs of rows of 6 pixels over {no data, 0, 1, 255}, and every code of up to six numbers from {0, 3, 4, 6, 254, 255} (420 k), `FileSpec` | all properties of `ElevationCodec` |
| `elevation_narrow` | pairs of rows of 5 pixels | finding, see below |
| `images` | tiles of 2x1 pixels, three pictures, four formats, two tiles fetched (101 k) | all properties of `ImageBuffers` |
| `images_assertion` | the same | finding, see below |
| `map_server` | two threads; one is given every layer in every format and every faulty request and sizes that overflow, the other three ordinary requests; an `int` of eight bits (444 k), `FairSpec` | all properties of `MapServer` but `TilesAreServed` |
| `map_server_tiles` | the same | finding, see below |
| `aster_tiles` | a globe of 6 tiles of 8 pixels, 5 rows of tiles with holes (161 k) | all properties of `AsterTiles` |
| `vector_tiles_points` | features of several points besides those of the next run | finding, see below |
| `osm_requests` | the map is one tile of any kind (of 322 shapes, 33 broken geometries, tags of every kind, several features or layers) or four tiles of two kinds; ten requests in three reference systems (178 k) | all properties of `VectorTiles` but `PointsKept`, and of `OSMSDF` |

Why these bounds are enough to meet the interesting cases:

- **4x4 tiles, three levels**: with three levels damage is passed on twice; two
  rows of tiles at the middle level make the mip loops go from one row to the next,
  and the first row of the finest level is not its last, so that the end of a row
  matters. **2x2 with an empty row** is the smallest grid in which the race for
  `emptyTile` happens; its second row has no two empty tiles, so that the premise
  of `NoEmptyTileRace` holds there. **Two threads**: the race needs two, and
  iterations share nothing else. **Two faults** show how their effects add up, at
  every step of every behaviour.
- **Rows of six pixels**: runs of up to five are merged, so six is the narrowest
  row with a run that stays, and it has room for up to five segments. **Two rows**
  are needed for the memory of the vector to carry over. **255** is the least
  distance that does not fit a byte; 0 and 1 are near each other; no data is
  never merged.
- **Six numbers** of damaged code hold two complete runs or a bulk of four values,
  with lengths below, at and beyond the six pixels of a row.
- **Tiles of 2x1 pixels** have a width that is not their height, so that a mistaken
  pitch shows; a pixel of a mip tile has its four pixels in two tiles. The pictures
  have no data, one pixel of data, and two whose mean has a fraction and whose
  quotient is rounded towards zero. **Two tiles** are the least for one to be
  stored after an earlier one had failed, with `emptyTile` used by both.
- **One thread with every request, one with three**: the handlers share only what
  `main` writes, so that a second one matters for interleaving with `Stop`, not
  for what it asks. **`MaxInt = 127`** puts the ends of an `int` within reach: the nine
  sizes are some whose pixels fit but whose bytes do not, and some whose number of pixels
  wraps to a negative number, to zero and to one that is too small; negative ones too.
- **Boxes** of six extents (from a quarter of a pixel to two tiles, with the padding to
  more than the four that are allowed) in four resolutions (finer than the source, equal, coarser), at every
  quarter of a pixel around the globe and from south of the data to north of it; a globe
  of six tiles is wider than the four a request may touch.
- **Shapes**: polygons with a convex or a triangular exterior and every pair of
  holes, among them one without an area, which must not start a polygon; a hole
  list of three; all multipolygons of two such parts, and of three with and
  without a hole; up to three lines. **Broken geometries**: no numbers, rings that
  are not closed or closed twice, rings of two vertices, a hole before the
  exterior, counts of zero and beyond the end, unknown commands, a line of one
  point among others, each for every type. **Three features**, of which any may
  fail, show that nothing is carried from one to the next; **layers** of one name
  and different extents, with others between them, that nothing is from one layer
  to another.
- **Two levels** of one and four tiles: boxes over four, two and one of them, over
  the edge of the map, and beyond it, flat, and too large for their pixels; square
  pixels and others; a configuration with and without Web Mercator.
  `DistanceDomain` of one pixel makes the region of a query smaller than the map,
  so that it leaves polygons out.

Deadlock is checked in `AsterTiles` and `ImageBuffers`, which never stop. The
others do stop: the background thread ends (`Done`), an image is finished or its
code found corrupt, a server exits, a layer is destroyed, a broken geometry kills
the process; their configurations say `CHECK_DEADLOCK FALSE`, and that they stop
only where they should is `Finishes`, `Terminates`, `Answered`, and
`RequestAnswered`.

## 11. Findings

| Run | What the code does | What the repository says |
|---|---|---|
| `mip_errors_fatal` | after a sub-tile failed to load, `break` (`layers/TileCache.cpp:492`) leaves the inner loop only; the incomplete mip tile is stored and taken for good by every later start | the comment at `:437`: "any errors are fatal to the whole process of creating mip tiles" |
| `elevation_narrow` | in an image of at most five columns a constant row can be coded as nothing: `segments.size() - 2` wraps around for a single segment, and the flag in the memory behind it (`utils/Elevation.cpp:157`) may be that of an earlier row's bulk, so that the only segment is erased | `test/TestElevationCompression.cpp:70` compares what was decoded with what was coded |
| `images_assertion` | the destructor of an image frees its processed data first, which makes that pointer NULL; the raw pointer of an image of 0x0 pixels, like `emptyTile`, is NULL too, so that in a build with assertions every such image ends the process when it is destroyed | the assertion at `utils/ImageProcessor.cpp:96`: `assert(rawData != processedData);` |
| `map_server_tiles` | `TileCache::HandleGetTileRequest` (`layers/TileCache.cpp:77`) returns OK without touching the image, whose memory is then sent | `README.md:14` lists "building and serving of WMTS caches" |
| `vector_tiles_points` | a move ends what was read before it (`utils/VectorTiles/VectorTiles.cpp:272`), also from one point to the next, and the branch for points (`:409`) looks at what is read last: of several points only the last is in the dataset | `utils/VectorTiles/VectorTiles.h:19`: "Returns a dataset containing the requested vector tiles" |

## 12. Proofs

TLAPS checks the theorems below for every value of the constants that satisfies
the assumptions named. Nothing else is assumed.

**TileCacheProofs**, from `GridAssumption` (each level halves the one above it,
as `ReadConfig` makes them), `PowersAssumption` (one more level doubles `2 ^ n`, a
fact about numbers that the provers do not know) and `CacheAssumption` (types of the
constants): for every grid, number of levels, number of threads, set of tiles with data, and
number of faults,

- `TypeCorrect`: `Spec => []TypeOK`: the positions of the loops never leave the
  grid;
- `Invariance`: `Spec => []IInv`, where `IInv` adds to `TypeOK`, `Grounded`,
  `StatusTracksDisk` and `DoneMeansComplete` four parts they need: `RowInv` (the
  rows done and the finished columns of this one have a state, the busy ones do
  not yet), `MipInv` (so do all tiles before the one the mip loops stand at),
  `RestInv` (outside of its phase each half is at its start) and `DamageInv` (a
  file is cut only while it is being written or after a fault). None of the three
  properties is inductive by itself: that a mip tile is opened after its
  sub-tiles were stored follows from the order of the loops, which is `RowInv`
  and `MipInv`, and from the table telling the truth;
- `GroundedAlways`, `StatusTracksDiskAlways`, `DoneMeansCompleteAlways`: its
  consequences;
- `FilesAreFinalAlways`: the action property, from the same invariant: a file is
  opened only while its state is Missing;
- `Refinement`: `Spec => ImplementsPyramid`. A step of the cache either leaves
  the set of files alone or adds one tile whose sub-tiles are in it;
- `PyramidExactAlways`, `NoOtherRace`: `Spec => []PyramidExact` and
  `Spec => []NoEmptyTileRace`, from a second invariant, `ContentInv`. What a file
  holds depends on what the thread that writes it has in hand: for a tile of the
  source, what the source answered (`SourceInv`), and for a mip tile, what the
  sub-tiles loaded so far hold (`GatheredInv`), provided that no fault has hit the
  pyramid below. That the four pyramids below the sub-tiles make up the one below
  the tile (`UnderSplits`) is a fact about quotients by powers of two. `TeamInv`
  bounds the iterations that run at a time by the threads; two in `emptyTile` are
  then two threads and two columns of one row without data.

**ElevationCodecProofs**, from `CodecAssumption`:

- `NeverBehindTheRow`: the decoder alone, on any sequence of integers, keeps
  `RowBound`. Its invariant `DecoderInv` says how much of the row the current bulk
  may still take.
- `CodecInvariance`, `SegmentsAlwaysTile`, `NoShortRunLeft`, under `Wide`
  (`SmallRun < Width /\ Width <= MaxNumElementsPerRowSegment`): for every image of
  that width and every set of heights the segments tile the row at each stage and
  no short run is left behind a bulk. `Wide` is no convenience: in narrower rows
  the loop reads behind the vector (the second finding), and in wider ones the
  sum of two lengths wraps. `CodecInv` holds, for each stage, the `Tiling` of the
  columns up to the pointer; in the merge that everything after the index is
  already merged (`MergedAfter`); and in the output that the pointer stands at the
  start of the segment being written (`Place`). The heart is `MergeSegmentKeeps`:
  the merge shortens the vector by up to two and must not move the index past
  something it has not looked at. `NotAlone` shows that the wrapping subtraction
  is harmless in a wide row, since a single segment is the whole row and too long
  to be merged;
- `RoundTripAlways`: `Spec => []RoundTrip`, under `Wide`. There is no induction over
  data here, so the code that is being written carries its own explanation:
  `Readable` says that some function `P` gives the state of the decoder (column,
  rest of the bulk, reference) at the positions of the code where it reads
  something, and `Follows` that it reads there what stands in the row. Each step of
  the output extends `P` (`WrittenInv`), and the decoder afterwards walks along it
  (`DecodedInv`: `Decoding(P, p)` says that it stands at `p`);
- `InBoundsAlways`: `Spec => []InBounds`, under `Wide`. `SizeInv` is an account of
  the bytes: four for each pixel that is written, and `Slack` of at most three. A
  bulk costs three more, and it saves three where it begins or ends with two equal
  values; that consecutive bulks cannot all be in debt is `Front` and `Back` of the
  tiling. For a smooth row `SmoothInv` is a narrower account of the same kind, of what is
  spent and saved before a segment (`Spare`) and at the ends of one (`EndsSave`): the
  first sub-segment of its bulks has two pixels at least, or three where two are equal
  (`SmoothBegin`), and each pixel after the first takes one byte of its four, which pays for
  what a bulk costs more.

**MapServerProofs**, from `ServerAssumption`: for every set of handlers, layers
and formats, and every set of requests,

- `Invariance`: `IInv` adds to `TypeOK` what `main` may have done while handlers
  run (`MainInv`), what a set pointer means (`PointerInv`), which layers are still
  to be created (`ToLoadInv`) and, for each handler, what its request, image and
  reply are at each point of its way (`Good`);
- `TypeCorrect`, `ImagesComplete`, `ErrorsCaused`, `DeletedAfterUse` (which joins
  `ServiceAlive` and `Quiet`): the invariants of the run; `Frozen`: the action
  property. `WantedConverts` is the lemma that the two tables of formats fit each
  other. `ErrorsCaused` and `ImagesComplete` are about images whose size does not
  overflow (`Sized`); `PixelsFit` shows of these that their product is what an `int`
  holds, so that the allocation gets the size that was asked for.

**VectorTilesProofs**, from `TilesAssumption` (tiles are sequences of layers, these
have sequences of features, the extent of a layer divides its square on the map, and
`2 ^ level` is a positive number, which the provers do not know) and
`EncodedAssumption` (a field has twice the values of one a bit narrower, and the
meaning of `shape` and `attributes`). The second one restricts no tile. These two
parts of a feature are not in the database: they record what was encoded, no action
looks at them, and a feature of any numbers may have `NoShape`. The assumption says
that a feature with another shape has the numbers that `TileEncoding` writes for it:
polygons whose exterior turns the one way and whose holes do not, lines and rings
long enough to be some, and tags that fit their layer. For every database of tiles,

- `VectorTypes`: `Spec => []TypeOK`: the decoder stays within the numbers, the
  feature, the layer and the tile it is at, whatever commands and counts it meets,
  and what it makes are sequences of polygons of rings of vertices. `TileInv` adds
  to `TypeOK` the tile that is being converted (one of those the database may
  hold at this place), `NothingRead` and `NothingGrouped` (where the variables of a
  feature are at their start). It is proved of any step
  of `Open`, `Release` and the destructor, whatever place is asked for (`AnyStep`), so
  that it holds for `OSMSDF` too, where the layer chooses the place;
- `RingsAlwaysWellMade`: `Spec => []RingsWellMade`. `RingInv` has two parts, both of
  them checked by TLC first. `GroupInv` says that `polyStart` is the exterior of the
  last polygon and negative unless it is the first ring, that the rings since are holes,
  and that the polygons made so far are `WellTurned` and have all rings before it.
  `ListInv` says that the dataset has the features converted so far, each in its place
  among those of its name (`Lists`, from `FlattenAt`), and that the polygons made of
  one are turned the other way: `AreaTurned` shows that the area of a ring, of any
  length, changes its sign and nothing else when the ring is scaled, moved and
  mirrored (`AreaSwept` and `SumTurned` carry the sum along the ring). Rings that are
  too short are left out, with their holes if they are exteriors, so that a polygon may
  lack holes, but none after the first begins with one;
- `NoReadBeyond`: `Spec => []ReadsWhatIsThere`, from `ReadInv`. While numbers that an
  encoder wrote are read, `DrawnInv` (`PointsInv` for points) says that the decoder
  stands at a turn of one of the paths: that command, count and cursor are those at
  this number, that `vtPolys` are the paths before it and `vtPoly` is the path up to its
  vertex (`VertexReadDoes`, `CloseReadDoes`, `TurnKept`). So the last number is read
  when the last path ends, and `DecodedInv` says that the paths are then those of the
  feature. The place of each path among the numbers comes from `FlattenAt` again;
- `ShapesAlwaysKept`: `Spec => []ShapesKept`. `GroupedInv` says that the polygons made
  so far are the first parts of the shape and that the rings looked at end within the
  next one, which is why `StartsPolygon` is true at the exteriors and nowhere else.
  `MadeOf`, the part of `ListInv` about one feature, carries the shape from there into
  the dataset, moved to its place on the map (`ShapeMade`). Points are left out of the
  property, since what happens to several of them is a finding;
- `AttributesAlwaysKept`: `Spec => []AttributesKept`. `FieldsTold` is about the
  operator `Fields` alone: of tags in which no key has two values it makes one field
  for each key, with the value of the first kind the code tests, and a number that
  does not fit a signed field modulo its width.

Its lemmas about `FlattenSeq` (`FlattenAt`: each element of each sequence has its
place, behind all those of the sequences before it; `FlattenTyped`, `FlattenAppend`)
stand in for the induction over data that the recursive definition would need.

**OSMSDFProofs**, from the assumptions of `VectorTilesProofs` and `OSMAssumption` (boxes are
of integers and a whole number of units for each pixel, the sides of tiles are whole
numbers, and the distance that is told is at least a pixel: it is ten in the code): for every database of tiles, every
configuration and every set of requests,

- `OSMTypes`: `OSMSpec => []OSMTypeOK`. A step of the layer is a step of `VectorTiles`
  or leaves it alone (`LayerStep`), so that `TileInv` holds (`LayerTileInvariance`);
  `PixelInv` says where the loops over pixels stand and which pixels are written:
  that none is outside of the image follows from the row being counted from the
  other end;
- `RingsGrouped`: `OSMSpec => []RingsWellMade`; `ShapesReachLayer`:
  `OSMSpec => []ShapesKept`; `AttributesReachLayer`: `OSMSpec => []AttributesKept`.
  `ReadInv`, `GroupedInv` and `RingInv` are kept by every step of `VectorTiles`, so by
  those of the layer too;
- `StopsAtBrokenTiles`: `OSMSpec => []OnlyBrokenTilesStop`. `StopInv` says that the
  layer aborts or crashes only with a tile that has a feature without a shape, and
  that, while shapes are loaded, the dataset is that of the tile or empty.
  `WaterFits` shows that the assertions about areas hold and that there is a geometry
  if all features have a shape: `Outlined` (a part of `MadeOf`) gives the
  orientation, and `AreaMoved` keeps it through `Reproject`, which moves the points
  and does nothing else to them in this model;
- `EmptyTileCounted`: `OSMSpec => []ReferencesCounted`, a part of `TileInv`;
- `TableComplete`: `OSMSpec => []TransformFound`. `TableInv` says that the table
  has both directions of every pair of a layer's systems; that one position of a
  list is not after another, or the other way around, is all that the proof of
  `TransformPairs` needs;
- `TilesCovered`: `OSMSpec => []BoxCovered`. `LoadInv` says which tiles have been
  opened when the loops stand at a tile: those of the rows below and those to its
  left, each once. That a tile which overlaps the box is between `Left` and `Right`
  follows from the quotients of `TileBelow` and `TileAbove` and from the edges of
  the map (`OverlapInBox`), the case of a box beyond the map included;
- `WaterKeptToTree`: `OSMSpec => []WaterLoaded`. `WaterInv` says of each feature
  of each opened tile that it is found in the tree, was left out, or is still to be
  looked at, and of each dataset that its features are sequences of parts of
  vertices, through all of `VectorTiles` (`DataInv`);
- `ShoresAlwaysTold`: `OSMSpec => []ShoresTold`. `SearchInv` is the invariant of
  the query around a pixel: the distance found is that of a polygon or `NotFound`, and
  no more than the one of any polygon that is not to be looked at any more, unless the
  search is over. `ImgInv` says that the pixels written are those before the one
  at work and that each of them tells of the water (`Told`). Three facts about
  geometry make `SearchInv` inductive. What `QueryIntersectsRegion` leaves out is too
  far away to be told (`OutOfRegion`), and a polygon that is skipped because of its box is
  no nearer than that box (`BoxIsNearer`): no segment of a ring comes nearer than the
  box around it, which `SegmentBeyond` shows with products and rounded quotients
  left symbolic (`ClearBetween`, `QuotientUp`). A point inside a ring is in its box
  (`InRingInBox`): for a point beside the box, the edges of a closed ring that cross the
  height of the point are even in number (`EvenCrossings`), and either none or all of
  them are on the ray (`CrossesByPlace`). And the search among the rings of a polygon
  finds the first of the nearest ones (`NearestFound`), so that the sign is that of
  the water if its holes are apart (`SignedTells`). The functions that the code's loops
  become (`crossings`, `nearest`) are characterised in terms of
  `OneByOne` rather than unfolded (`ParityExists`, `NearestExists`). The rest is where
  the polygons come from: `RingsInv` follows them, with their vertices, from the
  numbers of a tile to the tree (`PolygonsInv`), and `AskedInv` says that a box that
  is accepted has a width.

**ImageBuffersProofs**, from `ImageAssumption`: for tiles of any size, any
formats, pictures and number of tiles,

- `EachBufferFreedOnce`: `Spec => []BuffersBalanced`. An operation of an image is
  looked at with the buffers of all the other images: `Owned(s, others)` says that
  the memory is `others` and the buffers of the image, and that these were
  allocated as its content type says; each operation of the class keeps it and
  leaves `others` as they are (`FreeRawOwned`, `FreeProcessedOwned`,
  `ConvertedOwned`, `DecodedOwned`, ...). `Balanced` says the same of the whole
  stack, and pushing, changing and popping an image keep it (`PushBalanced`,
  `ChangeBalanced`, `PopBalanced`). `Shape` says which images there are at each
  point of the three jobs, and with `Elevated` why a buffer is never freed in the
  way of another content type: an image is converted to a second content type
  nowhere, since the tile cache knows one only and an answer is converted once;
- `ImageTypes`: `Spec => []ImageTypeOK`; `PicturesAlwaysKept`: `Spec => []PicturesKept`;
  `MipsAlwaysRight`: `Spec => []MipRight`. They come from a second invariant, `PixelInv`,
  that says what the buffers hold: `AnswerInv` and `FetchInv` follow one picture
  through its image and its code to where it is sent or stored; `MipInv` says what is
  known of the four images of a mip tile at each step. Its parts are `Merged` (each
  quarter of the mosaic holds the pixels of its sub-tile, or none while that one is
  still to be copied), `LoadedInv` and `CopyInv` (what is known of the sub-tile that
  was loaded), `NoneFrom` (later sub-tiles were not looked at) and `SampledInv` (the
  pixels sampled are means of those below). That a step on one image leaves the
  others alone (`Unmoved`) is taken from the proof of `EachBufferFreedOnce`: two
  images have no buffer in common. `Copied` shows that `CopyFromSubImage`, with its
  two pitches, fills one quarter and no pixel of another; `Sampled`, that the
  positions of `SampleWithBoxFilter` are those of the four pixels below; and
  `MeanOfFour`, that its sum and count give the mean. A file that is damaged is taken
  to be no image (`Garbage` is not the four characters it would begin with); one that
  is cut off further behind is in `TileCache`.

**AsterTilesProofs**, from `AsterAssumption` (an even number of tiles around the
globe and no fewer than a request may touch, an even number of units in a pixel,
tiles and requests of their types, requests within `OnGlobe`): for every globe, set
of tiles and set of requests,

- `AsterTypes`: `Spec => []TypeOK`. The offsets of tiles in the image are integers
  only because of what the selection has found, so that even the types need the
  invariant below;
- `TilesWhereSampled`: `Spec => []TilesInPlace`; `NoTileLeftOut`:
  `Spec => []AnswersAreWhole`; `NothingBeyondImage`: `Spec => []WithinImage`.

None of them is inductive. `AsterInv` says what has been selected when the loops of
`GetASTERTiles` stand at a place (`Gathering`: the tiles of the places visited and
no others, each once), what the selection is worth when it ends (`Selected`), and
which tiles are in the image (`Stitched`). It was checked by TLC before it was
proved. The rest is arithmetic of one axis. `AxisTiles` characterises the tiles that
meet the padded box by two quotients, and `TilesTouched` carries that over to the
table, where the columns are taken modulo the globe. `OffsetsDiffer` says that two
places of the selection have different offsets in the image, so that no tile is
stitched over another one; it needs a selection narrower than the globe. `AxisFits`
with `ColumnInside` and `RowInside` says that the padding is wide enough: the filter
reaches `WindowWidth` pixels, which is at most one pixel more than the padding has,
and the half pixel by which the transform is shifted makes up for that one.
`LastRowRead` bounds the rows that are read without weight: at most one is below the
image, and by `FineWindow` none where the request is not coarser than the source.

`SequenceElements` proves that a set of numbers with a member has a first one, from
the library's facts about well-founded orders, and `OneByOne` from it, which the
proofs use in place of induction. It also holds what they need of sequences whose
elements have no set to be in: concatenation, appending, taking the front.

Model-checked only: liveness (`Completes`, `Terminates`, `Answered`,
`RequestAnswered`), which the prover cannot do. Every other property of a passing run is
stated by a theorem.

## 13. What is not modelled

- *Image processor*: the weights of the Lanczos filter and its version for graphics
  cards are arithmetic without state; `SaveToPNG` is called by nothing.
- *Elevation codec*: the header and the table of row offsets, which are read back
  where they were written. Lengths of merged segments are added in 16 bits without
  a test (`utils/Elevation.cpp:166`): in rows of more than 65535 pixels, which no
  caller makes, the sum wraps; `Wide` keeps the proofs away from it.
- *Quality elevation*: boxes off the globe. Further west than one globe the index of
  `GetASTERTiles` is negative (`layers/QualityElevation.cpp:503`), and from half a
  globe west on, as east of the date border, `startX` wraps but the box does not
  (`:512`). The comment at `:391`
  leaves such boxes to be done; `OnGlobe` keeps the model away from them. `Init`'s
  scan of a directory is a constant.
- *OSM distance field*: two requests at a time in one `VectorTiles` (see §8; the same holds for
  *Vector tiles*). Water
  outside of the box but within `DistanceDomain` of it is not loaded by the code
  (`layers/OSMSDF.cpp:300`), and no property asks for it.
- *Map service*: lack of memory. An image whose size does not overflow is taken to get
  what it asks for. Sizes that are negative or overflow are in the model; no property
  says that they are answered well.
- *Quadtree.h*, *Polysplit*: nothing in the program calls them. *Example layer*: a
  loop over pixels. *Capabilities*: formatting. *HTTP client*: a wrapper; how a
  request can fail is in `TileCache`. *Filesystem.h*: two lines.
- *Generated protobuf code, third-party libraries, build scripts, tests*: not part
  of the program's own logic; the tests were read for what they expect. The
  generated code is more than a third of all lines.

## 14. Plan

Done, in this order, the most important behaviour first: `TileGrid`,
`TilePyramid`, `TileCache` with its refinement and proofs; `ElevationCodec` with
its proofs; `MapServer` with its proofs; `AsterTiles`; `VectorTiles`; `OSMSDF`,
composed with it, and its proofs; `ImageBuffers` with its proofs; then the theorems of
`AsterTiles`, those about the content of the pyramid, the round trip of the codec,
what is in the buffers of images, how rings become polygons, and, from `TileEncoding`,
that shapes and attributes arrive and what stops the layer; last, the distances that
the pixels of `OSMSDF` tell.

Next: the requests of `AsterTiles` outside of `OnGlobe`, once the code says what is
to become of them.
