------------------------------ MODULE MapServer ------------------------------
(***************************************************************************)
(* The server around the layers: WebServer.cpp with main.cpp, the map      *)
(* service WebMapService.cpp and the map tile service                      *)
(* WebMapTileService.cpp, and the tables of dwcore.cpp and                 *)
(* utils/ImageProcessor.cpp by which they choose and convert formats.      *)
(* main starts and stops the services while the threads of the HTTP        *)
(* library's pool handle requests; nothing locks the pointers they share.  *)
(***************************************************************************)
EXTENDS Integers, Sequences

CONSTANTS
  Handlers,     \* the threads of the listener's pool
  Layers,       \* the map layers that registered themselves
  TileLayers,   \* the tile layers that registered themselves
  Formats,      \* GetSuppordetFormats: a sequence of data types for each layer
  Requests,     \* the requests that each thread of the pool may be given
  MaxInt        \* the largest int

DataTypes == {"Unknown", "RGBA8", "U8", "S16", "U32", "F32", "F64"}

\* what stoi may return: it throws where the number is out of range
Ints == -MaxInt - 1 .. MaxInt

ASSUME ServerAssumption ==
  /\ Layers \intersect TileLayers = {}
  /\ Formats \in [Layers \union TileLayers -> Seq(DataTypes)]
  /\ DOMAIN Requests = Handlers
  /\ \A h \in Handlers : \A r \in Requests[h] : r.width \in Ints /\ r.height \in Ints
  /\ MaxInt \in Nat \ {0}

\* Exceptions the services name in their replies, and OK.  "Exception" is the
\* error the HTTP library answers when a handler throws.
Codes == {"OK", "unknown service request", "unsupported request type",
          "missing mandatory argument", "MissingParameterValue", "LayerNotDefined", "InvalidFormat",
          "InvalidSize", "InvalidBBOX", "StyleNotDefined", "InvalidCRS",
          "InvalidBBox", "Internal Error", "Exception"}

\* what Layer::HandleGetMapRequest and HandleGetTileRequest return
Results == {"OK", "InvalidStyle", "InvalidFormat", "InvalidBBox", "InvalidSRS",
            "InternalError"}

-----------------------------------------------------------------------------
(* Formats.                                                                *)

\* the data types FindCompatibleDataType looks for
Wanted(contentType) ==
  CASE contentType = "PNG" -> {"RGBA8", "U8", "U32"}
    [] contentType \in {"S16", "Elevation"} -> {"S16"}
    [] contentType = "U8" -> {"U8"}
    [] contentType = "U32" -> {"U32"}
    [] OTHER -> {}

\* Mutant: only the first data type of a layer is looked at.
FindFirstDataType(contentType, available) ==
  IF available[1] \in Wanted(contentType) THEN available[1] ELSE "Unknown"

\* the first data type of a layer that will do
FindCompatibleDataType(contentType, available) ==
  IF \E i \in DOMAIN available : available[i] \in Wanted(contentType)
    THEN available[CHOOSE i \in DOMAIN available :
                     /\ available[i] \in Wanted(contentType)
                     /\ \A j \in 1 .. i - 1 : available[j] \notin Wanted(contentType)]
    ELSE "Unknown"

\* ConvertRawImageToContentType returns true for an image of this data type
Converts(dataType, contentType) ==
  CASE contentType = "PNG" -> dataType \in {"RGBA8", "U32", "U8"}
    [] contentType = "U32" -> dataType \in {"RGBA8", "U32"}
    [] contentType = "Elevation" -> dataType = "S16"
    [] OTHER -> dataType = contentType

-----------------------------------------------------------------------------
VARIABLES
  main,       \* where main stands
  toLoad,     \* the layers CreateLayers has not come to yet
  layers,     \* availableLayers of the map service
  tileLayers, \* availableLayers of the map tile service
  wms,        \* the pointer: is it set
  wmsAlive,   \* the object it was set to: has it not been deleted
  wmts,
  listening,  \* the listener accepts requests
  at,         \* where each handler stands
  request,    \* its request
  image,      \* its image: data type, has a layer filled it, is it converted
  reply       \* what it answered, or "none"

vars == <<main, toLoad, layers, tileLayers, wms, wmsAlive, wmts, listening,
          at, request, image, reply>>
server == <<main, toLoad, layers, tileLayers, wms, wmsAlive, wmts, listening>>
handlers == <<at, request, image, reply>>

NoRequest == [service |-> "none"]
NoImage == [dataType |-> "Unknown", filled |-> FALSE, converted |-> FALSE]

Init ==
  /\ main = "Config"
  /\ toLoad = {} /\ layers = {} /\ tileLayers = {}
  /\ wms = FALSE /\ wmsAlive = FALSE /\ wmts = FALSE /\ listening = FALSE
  /\ at = [h \in Handlers |-> "idle"]
  /\ request = [h \in Handlers |-> NoRequest]
  /\ image = [h \in Handlers |-> NoImage]
  /\ reply = [h \in Handlers |-> "none"]

-----------------------------------------------------------------------------
(* WebServer::Start.                                                       *)

\* The configuration cannot be read: main returns, and the destructor calls
\* Stop, which finds nothing to stop.
NoConfig ==
  /\ main = "Config"
  /\ main' = "Exited"
  /\ UNCHANGED <<toLoad, layers, tileLayers, wms, wmsAlive, wmts, listening, handlers>>

\* Mutant: the listener is opened before the layers are created.
StartListening ==
  /\ main = "Config"
  /\ \/ /\ wms' = TRUE /\ wmsAlive' = TRUE
        /\ toLoad' \in SUBSET Layers /\ main' = "Layers"
     \/ /\ UNCHANGED <<wms, wmsAlive>>
        /\ toLoad' = TileLayers /\ main' = "TileLayers"
  /\ listening' = TRUE
  /\ UNCHANGED <<layers, tileLayers, wmts, handlers>>

\* new WebMapService, if there is a section wms; only the layers it has a
\* section for are created
StartMapService ==
  /\ main = "Config"
  /\ \/ /\ wms' = TRUE /\ wmsAlive' = TRUE
        /\ toLoad' \in SUBSET Layers /\ main' = "Layers"
     \/ /\ UNCHANGED <<wms, wmsAlive>>
        /\ toLoad' = TileLayers /\ main' = "TileLayers"
  /\ UNCHANGED <<layers, tileLayers, wmts, listening, handlers>>

\* InitBase and Init of one layer; if either fails the layer is discarded
CreateLayer ==
  /\ main = "Layers"
  /\ \E l \in toLoad :
       /\ toLoad' = toLoad \ {l}
       /\ layers' \in {layers, layers \union {l}}
  /\ UNCHANGED <<main, tileLayers, wms, wmsAlive, wmts, listening, handlers>>

\* a map service without layers is deleted again
MapServiceStarted ==
  /\ main = "Layers" /\ toLoad = {}
  /\ wms' = (layers # {}) /\ wmsAlive' = (layers # {})
  /\ main' = "TileLayers" /\ toLoad' = TileLayers
  /\ UNCHANGED <<layers, tileLayers, wmts, listening, handlers>>

CreateTileLayer ==
  /\ main = "TileLayers"
  /\ \E l \in toLoad :
       /\ toLoad' = toLoad \ {l}
       /\ tileLayers' \in {tileLayers, tileLayers \union {l}}
  /\ UNCHANGED <<main, layers, wms, wmsAlive, wmts, listening, handlers>>

TileServiceStarted ==
  /\ main = "TileLayers" /\ toLoad = {}
  /\ wmts' = (tileLayers # {})
  /\ main' = "Listen"
  /\ UNCHANGED <<toLoad, layers, tileLayers, wms, wmsAlive, listening, handlers>>

Listen ==
  /\ main = "Listen"
  /\ listening' = TRUE /\ main' = "Waiting"
  /\ UNCHANGED <<toLoad, layers, tileLayers, wms, wmsAlive, wmts, handlers>>

\* open().wait() throws, and nothing catches it
ListenFails ==
  /\ main = "Listen"
  /\ main' = "Exited"
  /\ UNCHANGED <<toLoad, layers, tileLayers, wms, wmsAlive, wmts, listening, handlers>>

-----------------------------------------------------------------------------
(* WebServer::Stop.                                                        *)

\* Nothing notifies the condition variable of main, and its wait has no
\* condition: it ends when the system wakes it for no reason.
Wake ==
  /\ main = "Waiting"
  /\ main' = IF wms THEN "DeleteMapService" ELSE "Close"
  /\ UNCHANGED <<toLoad, layers, tileLayers, wms, wmsAlive, wmts, listening, handlers>>

\* delete wms; its layers stay
DeleteMapService ==
  /\ main = "DeleteMapService"
  /\ wmsAlive' = FALSE /\ main' = "ForgetMapService"
  /\ UNCHANGED <<toLoad, layers, tileLayers, wms, wmts, listening, handlers>>

ForgetMapService ==
  /\ main = "ForgetMapService"
  /\ wms' = FALSE /\ main' = "Close"
  /\ UNCHANGED <<toLoad, layers, tileLayers, wmsAlive, wmts, listening, handlers>>

Close ==
  /\ main = "Close"
  /\ listening' = FALSE /\ main' = "Closing"
  /\ UNCHANGED <<toLoad, layers, tileLayers, wms, wmsAlive, wmts, handlers>>

\* Mutant: Stop returns without waiting for the listener to close.
ReturnAtOnce ==
  /\ main = "Closing"
  /\ main' = "Exited"
  /\ UNCHANGED <<toLoad, layers, tileLayers, wms, wmsAlive, wmts, listening, handlers>>

\* close().wait(): the library waits for the handlers that still run
Closed ==
  /\ main = "Closing" /\ \A h \in Handlers : at[h] = "idle"
  /\ main' = "Exited"
  /\ UNCHANGED <<toLoad, layers, tileLayers, wms, wmsAlive, wmts, listening, handlers>>

-----------------------------------------------------------------------------
(* A request.                                                              *)

Running == main \notin {"Exited", "Crashed"}

Arrive(h) ==
  /\ Running /\ listening /\ at[h] = "idle"
  /\ \E r \in Requests[h] : request' = [request EXCEPT ![h] = r]
  /\ at' = [at EXCEPT ![h] = "dispatch"]
  /\ image' = [image EXCEPT ![h] = NoImage]
  /\ reply' = [reply EXCEPT ![h] = "none"]
  /\ UNCHANGED server

Answer(h, code) ==
  /\ reply' = [reply EXCEPT ![h] = code]
  /\ at' = [at EXCEPT ![h] = "replied"]

\* Mutant: a request for no service is not answered.
DispatchOrIgnore(h) ==
  /\ Running /\ at[h] = "dispatch"
  /\ \/ wms /\ request[h].service = "WMS"
     \/ wmts /\ request[h].service = "WMTS"
  /\ at' = [at EXCEPT ![h] = "service"]
  /\ UNCHANGED <<server, request, image, reply>>

\* WebServer::HandleGetRequest
Dispatch(h) ==
  /\ Running /\ at[h] = "dispatch"
  /\ IF \/ wms /\ request[h].service = "WMS"
        \/ wmts /\ request[h].service = "WMTS"
       THEN at' = [at EXCEPT ![h] = "service"] /\ UNCHANGED reply
       ELSE Answer(h, "unknown service request")
  /\ UNCHANGED <<server, request, image>>

\* what both services look at last: the layer and its formats
LayerObjection(r, available) ==
  IF r.layer \notin available THEN "LayerNotDefined"
  ELSE IF FindCompatibleDataType(r.format, Formats[r.layer]) = "Unknown" THEN "InvalidFormat"
  ELSE "none"

\* what the machine makes of an int that is out of range
Wrapped(n) == ((n + MaxInt + 1) % (2 * (MaxInt + 1))) - (MaxInt + 1)

\* Nothing that is computed of the size of a map overflows: the number of pixels in
\* the constructor of Image is a product of two ints, and so is the greatest place in
\* the rows of four bytes a pixel and one more that the PNG encoder filters.  (A tile
\* has the size its layer gives it.)
Sized(r) ==
  r.service = "WMS" =>
    r.width > 0 /\ r.height > 0 /\ (4 * r.width + 1) * r.height <= MaxInt

(***************************************************************************)
(* The first thing WebMapService::HandleRequest and HandleGetMapRequest    *)
(* answer before a layer is asked, or "none".  stoi and stod throw where   *)
(* there is no number.  The number of pixels is an int; where it comes out *)
(* negative, the number of bytes is far too great for new, which throws;   *)
(* where it wraps to something else, the image has less memory than its    *)
(* sides tell, or none.                                                    *)
(***************************************************************************)
MapObjection(r, available) ==
  IF r.request = "GetCapabilities" THEN "OK"
  ELSE IF r.request # "GetMap" THEN "unsupported request type"
  ELSE IF ~r.complete THEN "missing mandatory argument"
  ELSE IF r.format = "Unknown" THEN "InvalidFormat"
  ELSE IF ~r.readable THEN "Exception"
  ELSE IF r.width = 0 \/ r.height = 0 THEN "InvalidSize"
  ELSE IF r.bbox = "unreadable" THEN "Exception"
  ELSE IF r.bbox = "malformed" THEN "InvalidBBOX"
  ELSE IF LayerObjection(r, available) # "none" THEN LayerObjection(r, available)
  ELSE IF Wrapped(r.width * r.height) < 0 THEN "Exception"
  ELSE "none"

\* the same for WebMapTileService::HandleRequest and HandleGetTileRequest
TileObjection(r, available) ==
  IF r.request = "GetCapabilities" THEN "OK"
  ELSE IF r.request # "GetTile" THEN "unsupported request type"
  ELSE IF ~r.complete THEN "MissingParameterValue"
  ELSE IF r.format = "Unknown" THEN "InvalidFormat"
  ELSE IF ~r.readable THEN "Exception"
  ELSE LayerObjection(r, available)

Objection(r, available) ==
  IF r.service = "WMS" THEN MapObjection(r, available) ELSE TileObjection(r, available)

\* The layers a handler finds.  In a map service that was deleted under it the
\* memory may still be as it was, or the layers may be gone.
Found(h) ==
  IF request[h].service = "WMTS" THEN {tileLayers}
  ELSE IF wmsAlive THEN {layers} ELSE {layers, {}}

Handle(h) ==
  /\ Running /\ at[h] = "service"
  /\ \E available \in Found(h) :
       LET r == request[h]
       IN  IF Objection(r, available) = "none"
             THEN /\ at' = [at EXCEPT ![h] = "layer"]
                  /\ image' = [image EXCEPT ![h].dataType =
                                 FindCompatibleDataType(r.format, Formats[r.layer])]
                  /\ UNCHANGED reply
             ELSE Answer(h, Objection(r, available)) /\ UNCHANGED image
  /\ UNCHANGED <<server, request>>

\* or the use of the deleted service kills the process
HandleDeleted(h) ==
  /\ Running /\ at[h] = "service"
  /\ request[h].service = "WMS" /\ ~wmsAlive
  /\ main' = "Crashed"
  /\ UNCHANGED <<toLoad, layers, tileLayers, wms, wmsAlive, wmts, listening, handlers>>

\* Mutant: the result of the layer is answered as it is.
ExceptionAsIs(result) == result

\* the exception for what a layer returned; a tile layer knows neither bounding
\* boxes nor coordinate systems
Exception(result) ==
  CASE result = "InvalidStyle" -> "StyleNotDefined"
    [] result = "InvalidFormat" -> "InvalidFormat"
    [] result = "InvalidSRS" -> "InvalidCRS"
    [] result = "InvalidBBox" -> "InvalidBBox"
    [] OTHER -> "Internal Error"

\* what a layer may return; TileCache::HandleGetTileRequest returns OK without
\* having looked at the request or the image
MayReturn(layer) == IF layer \in TileLayers THEN {"OK"} ELSE Results

\* Mutant: the result of the layer is not looked at.
RenderAnyway(h) ==
  /\ Running /\ at[h] = "layer"
  /\ \E result \in MayReturn(request[h].layer) :
       /\ at' = [at EXCEPT ![h] = "convert"]
       /\ image' = [image EXCEPT ![h].filled = /\ result = "OK"
                                                      /\ request[h].layer \in Layers
                                                      /\ Sized(request[h])]
       /\ UNCHANGED reply
  /\ UNCHANGED <<server, request>>

\* The layer fills the image, if the image has the memory its size needs; a tile
\* layer does not touch it.
Render(h) ==
  /\ Running /\ at[h] = "layer"
  /\ \E result \in MayReturn(request[h].layer) :
       IF result = "OK"
         THEN /\ at' = [at EXCEPT ![h] = "convert"]
              /\ image' = [image EXCEPT ![h].filled = /\ request[h].layer \in Layers
                                                      /\ Sized(request[h])]
              /\ UNCHANGED reply
         ELSE Answer(h, Exception(result)) /\ UNCHANGED image
  /\ UNCHANGED <<server, request>>

\* The result of the conversion is not looked at.  It may fail where the size of the
\* image overflows.
Convert(h) ==
  /\ Running /\ at[h] = "convert"
  /\ \E possible \in {TRUE, Sized(request[h])} :
       image' = [image EXCEPT ![h].converted =
                   possible /\ Converts(image[h].dataType, request[h].format)]
  /\ Answer(h, "OK")
  /\ UNCHANGED <<server, request>>

\* or the layer or the conversion uses memory the image does not have
UseBeyondMemory(h) ==
  /\ Running /\ at[h] \in {"layer", "convert"}
  /\ ~Sized(request[h])
  /\ main' = "Crashed"
  /\ UNCHANGED <<toLoad, layers, tileLayers, wms, wmsAlive, wmts, listening, handlers>>

\* the handler returns; only what it answered stays
Return(h) ==
  /\ Running /\ at[h] = "replied"
  /\ at' = [at EXCEPT ![h] = "idle"]
  /\ request' = [request EXCEPT ![h] = NoRequest]
  /\ image' = [image EXCEPT ![h] = NoImage]
  /\ reply' = [reply EXCEPT ![h] = "none"]
  /\ UNCHANGED server

Main ==
  \/ NoConfig \/ StartMapService \/ CreateLayer \/ MapServiceStarted
  \/ CreateTileLayer \/ TileServiceStarted \/ Listen \/ ListenFails
  \/ Wake \/ DeleteMapService \/ ForgetMapService \/ Close \/ Closed

HandlerStep(h) ==
  \/ Dispatch(h) \/ Handle(h) \/ HandleDeleted(h)
  \/ Render(h) \/ Convert(h) \/ UseBeyondMemory(h) \/ Return(h)

Next == Main \/ \E h \in Handlers : Arrive(h) \/ HandlerStep(h)

Spec == Init /\ [][Next]_vars

\* Every thread of the pool goes on with the request it has.  Nothing is said of
\* main, which may wait for ever, nor of clients.
FairSpec == Spec /\ \A h \in Handlers : WF_vars(HandlerStep(h))

-----------------------------------------------------------------------------
(* Properties.                                                             *)

TypeOK ==
  /\ main \in {"Config", "Layers", "TileLayers", "Listen", "Waiting",
               "DeleteMapService", "ForgetMapService", "Close", "Closing",
               "Exited", "Crashed"}
  /\ toLoad \subseteq Layers \union TileLayers
  /\ layers \subseteq Layers /\ tileLayers \subseteq TileLayers
  /\ <<wms, wmsAlive, wmts, listening>> \in BOOLEAN \X BOOLEAN \X BOOLEAN \X BOOLEAN
  /\ at \in [Handlers -> {"idle", "dispatch", "service", "layer", "convert", "replied"}]
  /\ DOMAIN request = Handlers
  /\ \A h \in Handlers : request[h] \in Requests[h] \union {NoRequest}
  /\ image \in [Handlers -> [dataType: DataTypes, filled: BOOLEAN, converted: BOOLEAN]]
  /\ reply \in [Handlers -> Codes \union {"none"}]

Replied(h, service) == at[h] = "replied" /\ request[h].service = service

\* A map request answered with OK carries an image a layer filled completely and
\* that was converted to the format asked for: what GetSuppordetFormats and
\* FindCompatibleDataType let through, ConvertRawImageToContentType (whose
\* result nobody looks at) can convert, and no failure of a layer gets by.  That is
\* said of images whose size does not overflow; nothing tests the others.
ImagesAreComplete ==
  \A h \in Handlers :
    Replied(h, "WMS") /\ Sized(request[h]) /\ request[h].request = "GetMap"
        /\ reply[h] = "OK" =>
      image[h].filled /\ image[h].converted

\* A request that asks a layer of this server for an image it can make, of a size
\* that does not overflow.  (The
\* two tables differ: an image of RGBA8 would do for raw U32, F32 and F64 for
\* their raw formats, but FindCompatibleDataType does not look for them.)
Faultless(r) ==
  /\ r.service = "WMS" /\ r.request = "GetMap" /\ r.complete /\ r.readable
  /\ r.layer \in layers
  /\ \E i \in DOMAIN Formats[r.layer] : Formats[r.layer][i] \in Wanted(r.format)
  /\ Sized(r) /\ r.bbox = "ok"

\* While main waits, every error reply has its cause in the request or in the
\* layer: a faultless map request gets to the layer, with a data type for its
\* image, and is refused only with what the layer can return.  (Memory is taken to be
\* there for an image whose size does not overflow.)
ErrorsHaveCause ==
  main = "Waiting" =>
    \A h \in Handlers :
      at[h] = "replied" /\ Faultless(request[h]) =>
        /\ reply[h] \in {"OK"} \union {Exception(result) : result \in Results}
        /\ image[h].dataType # "Unknown"

\* No table of layers and no pointer to a service changes while a request is
\* being handled, until main stops: the services are complete before the
\* listener opens.
TablesFrozen ==
  [][(\E h \in Handlers : at[h] # "idle") =>
       /\ UNCHANGED <<layers, tileLayers, wmts>>
       /\ main \notin {"DeleteMapService", "ForgetMapService"} =>
            UNCHANGED <<wms, wmsAlive>>]_vars

\* Until main is woken no handler gets into a service that was deleted: a
\* service that did not start is forgotten as well as deleted.
NoDeletedService ==
  main \in {"Listen", "Waiting"} =>
    \A h \in Handlers :
      at[h] = "service" /\ request[h].service = "WMS" => wmsAlive

\* When main has left Stop no handler runs, so that the static objects main's
\* return destroys are not in use.
QuietAfterStop == main = "Exited" => \A h \in Handlers : at[h] = "idle"

\* What Stop deletes is not in use: neither the map service nor what main's return
\* destroys.
NothingDeletedInUse == NoDeletedService /\ QuietAfterStop

\* Every request that arrives is answered, exactly one reply for each, unless
\* the process dies.
Answered == \A h \in Handlers : at[h] = "dispatch" ~> at[h] = "idle" \/ main = "Crashed"

\* A tile request answered with OK carries the tile (the map tile service is
\* there for "building and serving of WMTS caches").
TilesAreServed ==
  \A h \in Handlers :
    Replied(h, "WMTS") /\ request[h].request = "GetTile" /\ reply[h] = "OK" =>
      image[h].filled
=============================================================================
