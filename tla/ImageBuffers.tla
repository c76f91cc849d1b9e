----------------------------- MODULE ImageBuffers -----------------------------
(***************************************************************************)
(* The class Image of utils/ImageProcessor.cpp and the lives that the      *)
(* services and the tile cache give to images: one is rendered and sent as *)
(* an answer, one is fetched and stored as a tile, and several become a    *)
(* mip tile.                                                               *)
(*                                                                         *)
(* An image has two buffers, the raw pixels and what they were processed   *)
(* to, and the two may be one.  The memory is a set of buffers, each       *)
(* allocated by new or by the library that writes PNG files.  Raw pixels   *)
(* lie in a buffer row by row; an image that is encoded is a header, the   *)
(* width and the height, and then the pixels: how elevations are encoded   *)
(* is in module ElevationCodec.  Images live on the stack of the caller    *)
(* and are destroyed when their block ends, the last one first.            *)
(***************************************************************************)
EXTENDS Integers, Sequences, FiniteSets, SequencesExt

CONSTANTS
  TileWidth, TileHeight,
  Invalid,        \* the pixel without data
  Garbage,        \* what is in memory that nobody has written to; a file of it is no image
  Pictures,       \* what a layer renders, a server sends and a file holds: the pixels of a tile
  Formats,        \* of answers: content type and data type, as FindCompatibleDataType pairs them
  MaxTiles        \* bound on the tiles fetched

TilePixels == TileWidth * TileHeight

\* the four characters an encoded image begins with
FourCC == 0

ASSUME ImageAssumption ==
  /\ TileWidth \in Nat \ {0} /\ TileHeight \in Nat \ {0}
  /\ Invalid \in Int /\ Garbage \in Int \ {FourCC}
  /\ Pictures \subseteq [1 .. TilePixels -> Int]
  /\ MaxTiles \in Nat

VARIABLES
  memory,        \* the buffers there are: who allocated each, and what is in it
  images,        \* the stack of images
  pc,            \* what is going on
  format,        \* of the answer
  shown,         \* what was rendered or sent last, or what the four files held
  keepRunning,   \* of the mip levels: no file has failed
  sub,           \* the number of the sub-tile that is next
  out,           \* what was answered or stored: the bytes
  tiles,         \* tiles fetched so far (bounds the model)
  faults,        \* what was done to memory that must not be done
  asserted       \* the buffers for which the assertion of FreeRawData failed

vars == <<memory, images, pc, format, shown, keepRunning, sub, out, tiles, faults, asserted>>

NULL == 0
Nothing == <<>>

-----------------------------------------------------------------------------
(* Memory.  The operations of an image work on the image, the memory and   *)
(* the record of what went wrong.                                          *)

State(img) == [img |-> img, memory |-> memory, faults |-> faults, asserted |-> asserted]

\* the least buffer that is not in use
FreeBuffer(mem) ==
  CHOOSE b \in 1 .. Cardinality(DOMAIN mem) + 1 :
    /\ b \notin DOMAIN mem
    /\ \A a \in 1 .. b - 1 : a \in DOMAIN mem

With(mem, buffer, by, data) ==
  [b \in DOMAIN mem \union {buffer} |-> IF b = buffer THEN [by |-> by, data |-> data] ELSE mem[b]]

\* to free NULL does nothing
Free(s, buffer, by) ==
  IF buffer = NULL THEN s
  ELSE IF buffer \notin DOMAIN s.memory THEN [s EXCEPT !.faults = @ \union {"freed twice"}]
  ELSE [s EXCEPT !.memory = [b \in DOMAIN @ \ {buffer} |-> @[b]],
                 !.faults = IF s.memory[buffer].by = by THEN @ ELSE @ \union {"freed by another"}]

\* what is in a buffer; there is nothing to be read in one that was freed
Data(mem, buffer) == IF buffer \in DOMAIN mem THEN mem[buffer].data ELSE Nothing

Encoded(width, height, pixels) == <<FourCC, width, height>> \o pixels
Filled(count, value) == [i \in 1 .. count |-> value]

-----------------------------------------------------------------------------
(* The class Image *)

\* an image has no buffer for no pixels
Allocated(s, width, height, type) ==
  LET b == FreeBuffer(s.memory)
      sized == [s EXCEPT !.img.width = width, !.img.height = height, !.img.rawDataType = type]
  IN  IF width * height = 0 THEN [sized EXCEPT !.img.raw = NULL]
      ELSE [sized EXCEPT !.img.raw = b, !.memory = With(@, b, "new", Filled(width * height, Garbage))]

NoBuffers == [raw |-> NULL, rawDataType |-> "Unknown", width |-> 0, height |-> 0,
              processed |-> NULL, content |-> "Unknown"]

\* the constructor for pixels, and the one for data that were read from a file
Image(width, height, type) == Allocated(State(NoBuffers), width, height, type)

ImageOf(data, content) ==
  LET b == FreeBuffer(memory)
  IN  [State([NoBuffers EXCEPT !.processed = b, !.content = content])
         EXCEPT !.memory = With(@, b, "new", data)]

\* Two pointers that are both NULL do not differ either.
FreeRawData(s) ==
  LET checked == [s EXCEPT !.asserted = IF s.img.raw = s.img.processed THEN @ \union {s.img.raw} ELSE @]
  IN  [Free(checked, s.img.raw, "new") EXCEPT !.img.raw = NULL]

\* The content type says how the buffer was allocated.
FreeProcessedData(s) ==
  LET freed == IF s.img.content = "PNG" THEN Free(s, s.img.processed, "stb")
               ELSE IF s.img.raw # s.img.processed THEN Free(s, s.img.processed, "new")
               ELSE s
  IN  [freed EXCEPT !.img.processed = NULL]

\* the destructor
Destroyed(s) == FreeRawData(FreeProcessedData(s))

AllocateRawData(s, width, height, type) == Allocated(FreeRawData(s), width, height, type)

Process(s, by) ==
  LET b == FreeBuffer(s.memory)
      data == Encoded(s.img.width, s.img.height, Data(s.memory, s.img.raw))
  IN  [s EXCEPT !.img.processed = b, !.memory = With(@, b, by, data)]

RawTypes == [Raw_S16 |-> {"S16"}, Raw_U8 |-> {"U8"}, Raw_U32 |-> {"U32", "RGBA8"},
             Raw_F32 |-> {"F32"}, Raw_F64 |-> {"F64"}]

\* Mutant: what an image was processed to before is neither freed nor made again.
ConvertOnce(old, content) ==
  IF old.img.processed # NULL THEN old ELSE Process([old EXCEPT !.img.content = content], "new")

\* Mutant: the buffer an image was processed to before is forgotten.
ConvertAndForget(old, content) ==
  IF content \in DOMAIN RawTypes THEN [old EXCEPT !.img.content = content, !.img.processed = old.img.raw]
  ELSE Process([old EXCEPT !.img.content = content], IF content = "PNG" THEN "stb" ELSE "new")

(***************************************************************************)
(* ConvertRawImageToContentType.  The processed data there were are freed  *)
(* in the way of the new content type.  A raw format has no buffer of its  *)
(* own: the processed data are the raw ones.                               *)
(***************************************************************************)
ConvertRawImageToContentType(old, content) ==
  LET s == FreeProcessedData([old EXCEPT !.img.content = content])
  IN  CASE content = "PNG" /\ s.img.rawDataType \in {"RGBA8", "U32", "U8"} -> Process(s, "stb")
        [] content = "Elevation" -> Process(s, "new")
        [] content \in DOMAIN RawTypes ->
             IF s.img.rawDataType \in RawTypes[content] THEN [s EXCEPT !.img.processed = s.img.raw] ELSE s
        [] OTHER -> s

\* whether it can be done
Decodes(s) == LET data == Data(s.memory, s.img.processed) IN data # Nothing /\ data[1] = FourCC

(***************************************************************************)
(* ConvertContentTypeToRawImage of an elevation image.  Data that do not   *)
(* begin as they must leave the image without pixels.                      *)
(***************************************************************************)
ConvertContentTypeToRawImage(old) ==
  LET s == FreeRawData(old)
      data == Data(s.memory, s.img.processed)
      sized == AllocateRawData(s, data[2], data[3], "S16")
  IN  IF ~Decodes(s) THEN s
      ELSE IF sized.img.raw = NULL THEN sized
      ELSE [sized EXCEPT !.memory = With(@, sized.img.raw, "new", SubSeq(data, 4, Len(data)))]

-----------------------------------------------------------------------------
(* What is done with pixels.  Pixels are numbered from 1, row by row.      *)

Row(i, width) == (i - 1) \div width
Column(i, width) == (i - 1) % width
At(row, column, width) == row * width + column + 1

MinOf(a, b) == IF a < b THEN a ELSE b

\* Mutant: the rows of the target are as long as those of the source.
CopyWithOnePitch(dst, dstWidth, dstHeight, src, srcWidth, srcHeight, targetX, targetY) ==
  [i \in DOMAIN dst |->
    LET k == i - At(targetY, targetX, srcWidth) + 1
    IN  IF k \in DOMAIN src THEN src[k] ELSE dst[i]]

CopyFromSubImage(dst, dstWidth, dstHeight, src, srcWidth, srcHeight, targetX, targetY) ==
  LET w == MinOf(dstWidth - targetX, srcWidth)
      h == MinOf(dstHeight - targetY, srcHeight)
  IN  [i \in DOMAIN dst |->
        LET row == Row(i, dstWidth) - targetY
            column == Column(i, dstWidth) - targetX
        IN  IF row \in 0 .. h - 1 /\ column \in 0 .. w - 1 THEN src[At(row, column, srcWidth)] ELSE dst[i]]

\* a conversion from floating point to an integer drops the fraction
Quotient(a, n) == IF a >= 0 THEN a \div n ELSE -((-a) \div n)

\* value and numBoxEntries, after the pixels of a box
BoxSums(values) ==
  LET after[k \in 0 .. Len(values)] ==
        IF k = 0 THEN [value |-> 0, numBoxEntries |-> 0]
        ELSE IF values[k] = Invalid THEN after[k - 1]
        ELSE [value |-> after[k - 1].value + values[k],
              numBoxEntries |-> after[k - 1].numBoxEntries + 1]
  IN  after[Len(values)]

BoxAverage(values) ==
  LET box == BoxSums(values)
  IN  IF box.numBoxEntries > 0 THEN Quotient(box.value, box.numBoxEntries) ELSE Invalid

(***************************************************************************)
(* SampleWithBoxFilter.  The source pointer runs over a box, and from the  *)
(* end of one of its rows to the next by the rest of the row of the image. *)
(***************************************************************************)
SampleWithBoxFilter(src, srcWidth, srcHeight, dstWidth, dstHeight) ==
  LET boxWidth == srcWidth \div dstWidth
      boxHeight == srcHeight \div dstHeight
  IN  [i \in 1 .. dstWidth * dstHeight |->
        LET first == 1 + Row(i, dstWidth) * boxHeight * srcWidth + Column(i, dstWidth) * boxWidth
        IN  BoxAverage([k \in 1 .. boxWidth * boxHeight |->
              src[first + (k - 1) + Row(k, boxWidth) * (srcWidth - boxWidth)]])]

IsImageCompletelyInvalid(pixels) == \A i \in DOMAIN pixels : pixels[i] = Invalid

-----------------------------------------------------------------------------
(* The stack of the caller *)

Top == Len(images)
TopImage == images[Top]
Becomes(s, stack) ==
  /\ images' = stack
  /\ memory' = s.memory
  /\ faults' = s.faults
  /\ asserted' = s.asserted
Push(s) == Becomes(s, Append(images, s.img))
Change(n, s) == Becomes(s, [images EXCEPT ![n] = s.img])
Pop(s) == Becomes(s, Front(images))

\* pixels are written into the buffer of an image
Fill(n, pixels) ==
  /\ memory' = With(memory, images[n].raw, "new", pixels)
  /\ UNCHANGED <<images, faults, asserted>>

Raw(n) == Data(memory, images[n].raw)

GoTo(from, to) == pc = from /\ pc' = to

Init ==
  /\ memory = <<>>
  /\ images = <<>>
  /\ pc = "idle"
  /\ format = [content |-> "Unknown", type |-> "Unknown"]
  /\ shown = <<>>
  /\ keepRunning = TRUE
  /\ sub = 0
  /\ out = Nothing
  /\ tiles = 0
  /\ faults = {}
  /\ asserted = {}

-----------------------------------------------------------------------------
(* HandleGetMapRequest and HandleGetTileRequest of the two map services *)

BeginAnswer ==
  /\ GoTo("idle", "render")
  /\ format' \in Formats
  /\ Push(Image(TileWidth, TileHeight, format'.type))
  /\ out' = Nothing
  /\ UNCHANGED <<shown, keepRunning, sub, tiles>>

Render ==
  /\ GoTo("render", "convert")
  /\ shown' \in Pictures
  /\ Fill(Top, shown')
  /\ UNCHANGED <<format, keepRunning, sub, out, tiles>>

\* the layer refuses, and an exception is sent instead
LayerFails ==
  /\ GoTo("render", "leave")
  /\ UNCHANGED <<memory, images, format, shown, keepRunning, sub, out, tiles, faults, asserted>>

Convert ==
  /\ GoTo("convert", "reply")
  /\ Change(Top, ConvertRawImageToContentType(State(TopImage), format.content))
  /\ UNCHANGED <<format, shown, keepRunning, sub, out, tiles>>

Reply ==
  /\ GoTo("reply", "leave")
  /\ out' = Data(memory, TopImage.processed)
  /\ UNCHANGED <<memory, images, format, shown, keepRunning, sub, tiles, faults, asserted>>

Leave ==
  /\ GoTo("leave", "idle")
  /\ Pop(Destroyed(State(TopImage)))
  /\ UNCHANGED <<format, shown, keepRunning, sub, out, tiles>>

-----------------------------------------------------------------------------
(* CreateTileCacheLevel0, one tile after the other.  The image of an empty *)
(* tile is made once and converted each time it is stored.                 *)

BeginFetching ==
  /\ GoTo("idle", "next tile")
  /\ tiles < MaxTiles
  /\ Push(Image(0, 0, "S16"))
  /\ UNCHANGED <<format, shown, keepRunning, sub, out, tiles>>

BeginTile ==
  /\ GoTo("next tile", "request")
  /\ tiles < MaxTiles
  /\ tiles' = tiles + 1
  /\ Push(Image(TileWidth, TileHeight, "S16"))
  /\ out' = Nothing
  /\ UNCHANGED <<format, shown, keepRunning, sub>>

\* The body is read into the image as far as it comes.
Read(count) ==
  /\ shown' \in Pictures
  /\ Fill(Top, SubSeq(shown', 1, count) \o SubSeq(Raw(Top), count + 1, TilePixels))
  /\ UNCHANGED <<format, keepRunning, sub, out, tiles>>

ReadShort == GoTo("request", "request") /\ \E count \in 0 .. TilePixels - 1 : Read(count)
ReadTile == GoTo("request", "store") /\ Read(TilePixels)

\* which of the images at the top of the stack is stored
ToStore == IF IsImageCompletelyInvalid(Raw(Top)) THEN 1 ELSE Top

Stored(n) == ConvertRawImageToContentType(State(images[n]), "Elevation")

StoreFetched ==
  /\ GoTo("store", "leave tile")
  /\ LET s == Stored(ToStore) IN Change(ToStore, s) /\ out' = Data(s.memory, s.img.processed)
  /\ UNCHANGED <<format, shown, keepRunning, sub, tiles>>

\* The directory cannot be made, or the file not be written: the tile is requested again.
StoreFetchedFails ==
  /\ GoTo("store", "request")
  /\ \/ UNCHANGED <<memory, images, faults, asserted>>
     \/ Change(ToStore, Stored(ToStore))
  /\ UNCHANGED <<format, shown, keepRunning, sub, out, tiles>>

LeaveTile ==
  /\ GoTo("leave tile", "next tile")
  /\ Pop(Destroyed(State(TopImage)))
  /\ UNCHANGED <<format, shown, keepRunning, sub, out, tiles>>

EndFetching ==
  /\ GoTo("next tile", "idle")
  /\ tiles = MaxTiles
  /\ Pop(Destroyed(State(TopImage)))
  /\ UNCHANGED <<format, shown, keepRunning, sub, out, tiles>>

-----------------------------------------------------------------------------
(* One tile of CreateTileCacheMipLevels *)

BeginMip ==
  /\ GoTo("idle", "higher level")
  /\ Push(Image(0, 0, "S16"))
  /\ out' = Nothing
  /\ keepRunning' = TRUE
  /\ UNCHANGED <<format, shown, sub, tiles>>

BeginHigherLevel ==
  /\ GoTo("higher level", "sub-tile")
  /\ LET s == Image(2 * TileWidth, 2 * TileHeight, "S16")
     IN  Push([s EXCEPT !.memory = With(@, s.img.raw, "new", Filled(4 * TilePixels, Invalid))])
  /\ shown' = Filled(4, Nothing)
  /\ sub' = 0
  /\ UNCHANGED <<format, keepRunning, out, tiles>>

\* an empty or missing sub-tile
SkipSubTile ==
  /\ GoTo("sub-tile", "sub-tile")
  /\ sub < 4
  /\ sub' = sub + 1
  /\ UNCHANGED <<memory, images, format, shown, keepRunning, out, tiles, faults, asserted>>

\* The file is read into a buffer; it holds a tile, or an empty one, or it could not be
\* opened or was cut off, and the buffer holds nothing of the kind.
LoadSubTile ==
  /\ GoTo("sub-tile", "loaded")
  /\ sub < 4
  /\ \/ \E picture \in Pictures :
          /\ Push(ImageOf(Encoded(TileWidth, TileHeight, picture), "Elevation"))
          /\ shown' = [shown EXCEPT ![sub + 1] = picture]
     \/ /\ \E data \in {Encoded(0, 0, <<>>), <<Garbage>>} : Push(ImageOf(data, "Elevation"))
        /\ UNCHANGED shown
  /\ UNCHANGED <<format, keepRunning, sub, out, tiles>>

\* Mutant: a row is always two sub-tiles on.
RowAfter(n) == n + 2

\* A failure ends the row of sub-tiles only.
RowEnd(n) == IF n < 2 THEN 2 ELSE 4

\* the size of the file cannot be told
LoadFails ==
  /\ GoTo("sub-tile", "sub-tile")
  /\ sub < 4
  /\ keepRunning' = FALSE
  /\ sub' = RowEnd(sub)
  /\ UNCHANGED <<memory, images, format, shown, out, tiles, faults, asserted>>

ConvertSubTile ==
  /\ GoTo("loaded", "copy")
  /\ Change(Top, ConvertContentTypeToRawImage(State(TopImage)))
  /\ keepRunning' = (keepRunning /\ Decodes(State(TopImage)))
  /\ UNCHANGED <<format, shown, sub, out, tiles>>

CopySubTile ==
  /\ GoTo("copy", "leave sub-tile")
  /\ IF TopImage.width = 0 THEN UNCHANGED <<memory, images, faults, asserted>>
     ELSE Fill(2, CopyFromSubImage(Raw(2), images[2].width, images[2].height,
                    Raw(Top), TopImage.width, TopImage.height,
                    TileWidth * (sub % 2), TileHeight * (sub \div 2)))
  /\ UNCHANGED <<format, shown, keepRunning, sub, out, tiles>>

LeaveSubTile ==
  /\ GoTo("leave sub-tile", "sub-tile")
  /\ sub' = IF Decodes(State(TopImage)) THEN sub + 1 ELSE RowEnd(sub)
  /\ Pop(Destroyed(State(TopImage)))
  /\ UNCHANGED <<format, shown, keepRunning, out, tiles>>

Sample ==
  /\ GoTo("sub-tile", "store mip")
  /\ sub = 4
  /\ LET s == Image(TileWidth, TileHeight, "S16")
         pixels == SampleWithBoxFilter(Raw(2), images[2].width, images[2].height, TileWidth, TileHeight)
     IN  Push([s EXCEPT !.memory = With(@, s.img.raw, "new", pixels)])
  /\ UNCHANGED <<format, shown, keepRunning, sub, out, tiles>>

StoreMip ==
  /\ GoTo("store mip", "leave mip")
  /\ LET s == Stored(ToStore) IN Change(ToStore, s) /\ out' = Data(s.memory, s.img.processed)
  /\ UNCHANGED <<format, shown, keepRunning, sub, tiles>>

StoreMipFails ==
  /\ GoTo("store mip", "leave mip")
  /\ \/ UNCHANGED <<memory, images, faults, asserted>>
     \/ Change(ToStore, Stored(ToStore))
  /\ keepRunning' = FALSE
  /\ UNCHANGED <<format, shown, sub, out, tiles>>

\* mipLevel, higherLevel and at last emptyTile
LeaveMip ==
  /\ pc = "leave mip"
  /\ pc' = IF Top = 1 THEN "idle" ELSE "leave mip"
  /\ Pop(Destroyed(State(TopImage)))
  /\ UNCHANGED <<format, shown, keepRunning, sub, out, tiles>>

Next ==
  \/ BeginAnswer \/ Render \/ LayerFails \/ Convert \/ Reply \/ Leave
  \/ BeginFetching \/ BeginTile \/ ReadShort \/ ReadTile \/ StoreFetched \/ StoreFetchedFails
  \/ LeaveTile \/ EndFetching
  \/ BeginMip \/ BeginHigherLevel \/ SkipSubTile \/ LoadSubTile \/ LoadFails \/ ConvertSubTile
  \/ CopySubTile \/ LeaveSubTile \/ Sample \/ StoreMip \/ StoreMipFails \/ LeaveMip

Spec == Init /\ [][Next]_vars

-----------------------------------------------------------------------------
(***************************************************************************)
(* The types of the state: a buffer was allocated in one of two ways and   *)
(* holds numbers, an image has a size that belongs to its buffer.          *)
(***************************************************************************)
Pointers == {NULL} \union DOMAIN memory

ImageTypeOK ==
  /\ \A b \in DOMAIN memory : memory[b].by \in {"new", "stb"}
  /\ \A n \in DOMAIN images :
       /\ images[n].raw \in Pointers /\ images[n].processed \in Pointers
       /\ images[n].raw # NULL => Len(Raw(n)) = images[n].width * images[n].height
  /\ Len(images) \in 0 .. 3
  /\ sub \in 0 .. 4 /\ tiles \in 0 .. MaxTiles

(***************************************************************************)
(* Nothing is freed twice, or in another way than it was allocated, and no *)
(* buffer is freed as the raw one while it still is the processed one,     *)
(* though the two are one after a conversion to a raw format and a tile    *)
(* may be converted again and again.                                       *)
(***************************************************************************)
FreedOnce == faults = {} /\ asserted \subseteq {NULL}

(***************************************************************************)
(* Every buffer belongs to exactly one image that is alive: none is lost   *)
(* when an image is converted again after its tile could not be stored, or *)
(* destroyed after a conversion failed, and no two images share one.       *)
(***************************************************************************)
EveryBufferOwned ==
  \A b \in DOMAIN memory :
    Cardinality({n \in DOMAIN images : b \in {images[n].raw, images[n].processed}}) = 1

(***************************************************************************)
(* Each buffer that is allocated is freed exactly once.                    *)
(***************************************************************************)
BuffersBalanced == FreedOnce /\ EveryBufferOwned

(***************************************************************************)
(* What is stored of a fetched tile is what the last complete answer of    *)
(* the server said, whatever short answers and failed attempts to store an *)
(* earlier one came before it; a tile without any data is stored as empty. *)
(***************************************************************************)
StoredAsSent ==
  pc = "leave tile" =>
    out = IF IsImageCompletelyInvalid(shown) THEN Encoded(0, 0, <<>>)
          ELSE Encoded(TileWidth, TileHeight, shown)

(***************************************************************************)
(* What is sent as an answer is what the layer rendered, in the form that  *)
(* was asked for, and not a buffer that is gone.                           *)
(***************************************************************************)
SentAsRendered ==
  pc = "leave" /\ TopImage.processed # NULL =>
    out = IF format.content \in DOMAIN RawTypes THEN shown ELSE Encoded(TileWidth, TileHeight, shown)

(***************************************************************************)
(* Whatever leaves the process is the picture that it is said to be.       *)
(***************************************************************************)
PicturesKept == StoredAsSent /\ SentAsRendered

(***************************************************************************)
(* A pixel of a mip tile is the mean, less its fraction, of those of the   *)
(* four pixels below it that have data, in the tiles that could be read;   *)
(* a pixel without any is invalid, and a tile of such pixels is empty.     *)
(***************************************************************************)
Mosaic(column, row) ==
  LET tile == shown[1 + (column \div TileWidth) + 2 * (row \div TileHeight)]
  IN  IF tile = Nothing THEN Invalid ELSE tile[At(row % TileHeight, column % TileWidth, TileWidth)]

Magnitude(a) == IF a < 0 THEN -a ELSE a

IsMean(value, column, row) ==
  LET v(k) == Mosaic(2 * column + (k % 2), 2 * row + (k \div 2))
      n == Cardinality({k \in 0 .. 3 : v(k) # Invalid})
      Part(k) == IF v(k) = Invalid THEN 0 ELSE v(k)
      total == Part(0) + Part(1) + Part(2) + Part(3)
  IN  IF n = 0 THEN value = Invalid
      ELSE /\ value * total >= 0
           /\ n * Magnitude(value) <= Magnitude(total) /\ Magnitude(total) < n * (Magnitude(value) + 1)

MipRight ==
  pc = "leave mip" /\ Top = 3 /\ out # Nothing =>
    \/ /\ out = Encoded(0, 0, <<>>)
       /\ \A column \in 0 .. TileWidth - 1, row \in 0 .. TileHeight - 1 : IsMean(Invalid, column, row)
    \/ /\ SubSeq(out, 1, 3) = Encoded(TileWidth, TileHeight, <<>>)
       /\ \A column \in 0 .. TileWidth - 1, row \in 0 .. TileHeight - 1 :
            IsMean(out[3 + At(row, column, TileWidth)], column, row)

(***************************************************************************)
(* The assertion of FreeRawData, that the raw and the processed buffer of  *)
(* an image differ when the raw one is freed, holds.  It does not: an      *)
(* image without pixels, like that of the empty tile, has neither when it  *)
(* is destroyed.                                                           *)
(***************************************************************************)
BuffersDiffer == asserted = {}

=============================================================================
