--------------------------- MODULE MapServerProofs ---------------------------
(***************************************************************************)
(* Proofs about MapServer, for every pool of handlers, every set of layers *)
(* with their formats and every set of requests.                           *)
(***************************************************************************)
EXTENDS MapServer, SequenceElements, TLAPS

-----------------------------------------------------------------------------
(* The tables                                                              *)

\* A data type that is looked for is one the conversion can convert.
LEMMA WantedConverts ==
  ASSUME NEW f, NEW d \in Wanted(f)
  PROVE  d \in DataTypes \ {"Unknown"} /\ Converts(d, f)
PROOF
  <1>1. CASE f = "PNG"
    BY <1>1 DEF Wanted, Converts, DataTypes
  <1>2. CASE f \in {"S16", "Elevation"}
    BY <1>2 DEF Wanted, Converts, DataTypes
  <1>3. CASE f = "U8"
    BY <1>3 DEF Wanted, Converts, DataTypes
  <1>4. CASE f = "U32"
    BY <1>4 DEF Wanted, Converts, DataTypes
  <1>5. CASE f \notin {"PNG", "S16", "Elevation", "U8", "U32"}
    BY <1>5 DEF Wanted
  <1> QED BY <1>1, <1>2, <1>3, <1>4, <1>5

\* The conversion either succeeds or fails.
LEMMA ConvertsOrNot ==
  ASSUME NEW d, NEW f
  PROVE  Converts(d, f) \in BOOLEAN
PROOF
  <1>1. CASE f = "PNG"
    BY <1>1 DEF Converts
  <1>2. CASE f = "U32"
    BY <1>2 DEF Converts
  <1>3. CASE f = "Elevation"
    BY <1>3 DEF Converts
  <1>4. CASE f \notin {"PNG", "U32", "Elevation"}
    BY <1>4 DEF Converts
  <1> QED BY <1>1, <1>2, <1>3, <1>4

\* What FindCompatibleDataType returns is a type that was looked for, and it
\* finds one where there is one.
LEMMA FindsWanted ==
  ASSUME NEW f, NEW q \in Seq(DataTypes)
  PROVE  /\ FindCompatibleDataType(f, q) \in Wanted(f) \union {"Unknown"}
         /\ (\E i \in DOMAIN q : q[i] \in Wanted(f)) => FindCompatibleDataType(f, q) \in Wanted(f)
PROOF
  <1> DEFINE T == {i \in DOMAIN q : q[i] \in Wanted(f)}
             First(i) == /\ q[i] \in Wanted(f)
                         /\ \A j \in 1 .. i - 1 : q[j] \notin Wanted(f)
  <1>1. CASE \E i \in DOMAIN q : q[i] \in Wanted(f)
    <2>1. DOMAIN q = 1 .. Len(q) /\ Len(q) \in Nat
      OBVIOUS
    <2>2. T # {} /\ T \subseteq Nat
      BY <1>1, <2>1
    <2> HIDE DEF T
    <2>3. PICK i \in T : \A j \in T : i <= j
      BY <2>2, HasFirst
    <2>4. i \in DOMAIN q /\ First(i)
      <3>1. i \in Nat /\ \A j \in 1 .. i - 1 : j \notin T
        BY <2>2, <2>3
      <3> QED BY <2>1, <2>3, <3>1 DEF T
    <2>5. /\ (CHOOSE k \in DOMAIN q : First(k)) \in DOMAIN q
          /\ First(CHOOSE k \in DOMAIN q : First(k))
      <3> HIDE DEF First
      <3> QED BY <2>4
    <2>6. FindCompatibleDataType(f, q) = q[CHOOSE k \in DOMAIN q : First(k)]
      BY <1>1 DEF FindCompatibleDataType
    <2> QED BY <2>5, <2>6
  <1>2. CASE ~\E i \in DOMAIN q : q[i] \in Wanted(f)
    BY <1>2 DEF FindCompatibleDataType
  <1> QED BY <1>1, <1>2

-----------------------------------------------------------------------------
(* The inductive invariant                                                 *)

\* Before the listener is open no handler runs, and none does after main.
MainInv ==
  /\ main \in {"Config", "Layers", "TileLayers", "Listen"} =>
       ~listening /\ \A h \in Handlers : at[h] = "idle"
  /\ main = "Exited" => \A h \in Handlers : at[h] = "idle"

\* The pointer to the map service is set exactly while the service exists, but
\* for the moment between the two in Stop; and while nothing is being created
\* or stopped, exactly if it has layers.
PointerInv ==
  /\ main \notin {"ForgetMapService", "Crashed"} => wms = wmsAlive
  /\ main = "ForgetMapService" => ~wmsAlive
  /\ main \in {"TileLayers", "Listen", "Waiting"} => wms = (layers # {})
  /\ main = "Config" => layers = {} /\ ~wms
  /\ main = "Layers" => wms

\* the layers still to be created are of the kind of the service that starts
ToLoadInv ==
  /\ main = "Layers" => toLoad \subseteq Layers
  /\ main = "TileLayers" => toLoad \subseteq TileLayers

\* what a handler has on its way to an image
OnItsWay(h) ==
  /\ at[h] # "idle" => request[h] \in Requests[h]
  /\ at[h] \in {"service", "layer", "convert"} => request[h].service \in {"WMS", "WMTS"}
  /\ at[h] \in {"layer", "convert"} =>
       /\ image[h].dataType \in Wanted(request[h].format)
       /\ request[h].service = "WMS" => request[h].layer \in layers
  /\ at[h] = "convert" /\ request[h].service = "WMS" /\ Sized(request[h]) => image[h].filled

\* ImagesAreComplete for one handler
Complete(h) ==
  Replied(h, "WMS") /\ Sized(request[h]) /\ request[h].request = "GetMap" /\ reply[h] = "OK" =>
    image[h].filled /\ image[h].converted

\* ErrorsHaveCause and NoDeletedService for one handler
WhileWaiting(h) ==
  main = "Waiting" =>
    /\ at[h] = "service" /\ request[h].service = "WMS" => wms
    /\ at[h] = "replied" /\ Faultless(request[h]) =>
         /\ reply[h] \in {"OK"} \union {Exception(result) : result \in Results}
         /\ image[h].dataType # "Unknown"

Good(h) == OnItsWay(h) /\ Complete(h) /\ WhileWaiting(h)

IInv == TypeOK /\ MainInv /\ PointerInv /\ ToLoadInv /\ \A h \in Handlers : Good(h)

\* The exception for a result is no success.
LEMMA ExceptionIsCode ==
  ASSUME NEW result \in Results
  PROVE  Exception(result) \in Codes \ {"OK"}
PROOF
  BY DEF Exception, Results, Codes

\* What a service objects to is a code, and a success only where the request
\* is not for an image.
LEMMA ObjectionIsCode ==
  ASSUME NEW r, NEW available
  PROVE  /\ Objection(r, available) \in Codes \union {"none"}
         /\ r.service = "WMS" /\ r.request = "GetMap" => Objection(r, available) # "OK"
PROOF
  <1>1. LayerObjection(r, available) \in {"LayerNotDefined", "InvalidFormat", "none"}
    BY DEF LayerObjection
  <1>2. /\ MapObjection(r, available) \in Codes \union {"none"}
        /\ r.request = "GetMap" => MapObjection(r, available) # "OK"
    <2> HIDE DEF LayerObjection
    <2> QED BY <1>1 DEF MapObjection, Codes
  <1>3. TileObjection(r, available) \in Codes \union {"none"}
    BY <1>1 DEF TileObjection, Codes
  <1> QED BY <1>2, <1>3 DEF Objection

\* Where nothing is objected, the layer is there and has a data type that is
\* wanted.
LEMMA NoObjection ==
  ASSUME NEW r, NEW available \in SUBSET (Layers \union TileLayers),
         Objection(r, available) = "none"
  PROVE  /\ r.layer \in available
         /\ FindCompatibleDataType(r.format, Formats[r.layer]) \in Wanted(r.format)
PROOF
  <1>1. LayerObjection(r, available) = "none"
    BY DEF Objection, MapObjection, TileObjection
  <1>2. /\ r.layer \in available
        /\ FindCompatibleDataType(r.format, Formats[r.layer]) # "Unknown"
    BY <1>1 DEF LayerObjection
  <1>3. Formats[r.layer] \in Seq(DataTypes)
    BY <1>2, ServerAssumption
  <1> QED BY <1>2, <1>3, FindsWanted

\* A number that an int holds is what the machine makes of it.
LEMMA WrappedFits ==
  ASSUME NEW n \in 0 .. MaxInt
  PROVE  Wrapped(n) = n
PROOF
  <1>1. \A a \in Nat, d \in Nat \ {0} : a < d => a % d = a
    OBVIOUS
  <1>2. n + MaxInt + 1 \in Nat /\ 2 * (MaxInt + 1) \in Nat \ {0}
        /\ n + MaxInt + 1 < 2 * (MaxInt + 1)
    BY ServerAssumption
  <1>3. (n + MaxInt + 1) % (2 * (MaxInt + 1)) = n + MaxInt + 1
    BY <1>1, <1>2
  <1> QED BY <1>3, ServerAssumption DEF Wrapped

\* The number of pixels of a size that does not overflow.
LEMMA PixelsFit ==
  ASSUME NEW w \in Nat, NEW v \in Nat, (4 * w + 1) * v <= MaxInt
  PROVE  w * v \in 0 .. MaxInt
PROOF
  <1>1. w * v \in Nat
    OBVIOUS
  <1>2. (4 * w + 1) * v = 4 * (w * v) + v
    BY Z3
  <1> QED BY <1>1, <1>2, ServerAssumption

\* A faultless request is not objected to.
LEMMA FaultlessPasses ==
  ASSUME NEW h \in Handlers, NEW r \in Requests[h], TypeOK, Faultless(r)
  PROVE  Objection(r, layers) = "none"
PROOF
  <1>1. r.layer \in layers /\ Formats[r.layer] \in Seq(DataTypes)
    BY ServerAssumption DEF Faultless, TypeOK
  <1>2. FindCompatibleDataType(r.format, Formats[r.layer]) \in Wanted(r.format)
    BY <1>1, FindsWanted DEF Faultless
  <1>3. FindCompatibleDataType(r.format, Formats[r.layer]) # "Unknown"
    BY <1>2, WantedConverts
  <1>4. LayerObjection(r, layers) = "none"
    BY <1>1, <1>3 DEF LayerObjection
  <1>5. r.format # "Unknown"
    BY DEF Faultless, Wanted
  <1>6. /\ r.width \in Nat /\ r.height \in Nat /\ r.width # 0 /\ r.height # 0
        /\ (4 * r.width + 1) * r.height <= MaxInt
    <2>1. r.width \in Int /\ r.height \in Int
      BY ServerAssumption DEF Ints
    <2>2. r.width > 0 /\ r.height > 0 /\ (4 * r.width + 1) * r.height <= MaxInt
      BY DEF Faultless, Sized
    <2> QED BY <2>1, <2>2
  <1>7. ~(Wrapped(r.width * r.height) < 0)
    <2>1. r.width * r.height \in 0 .. MaxInt
      BY <1>6, PixelsFit
    <2>2. Wrapped(r.width * r.height) = r.width * r.height
      BY <2>1, WrappedFits
    <2> QED BY <2>1, <2>2
  <1>8. MapObjection(r, layers) = "none"
    <2> HIDE DEF LayerObjection
    <2> QED BY <1>4, <1>5, <1>6, <1>7 DEF MapObjection, Faultless
  <1> QED BY <1>8 DEF Objection, Faultless

\* A step that leaves a handler alone, and the layers while it runs, leaves it
\* in order.
LEMMA Frame ==
  ASSUME NEW g \in Handlers, Good(g),
         at'[g] = at[g], request'[g] = request[g], image'[g] = image[g], reply'[g] = reply[g],
         at[g] = "idle" \/ layers' = layers,
         main' = "Waiting" => at[g] = "idle" \/ (main = "Waiting" /\ wms' = wms)
  PROVE  Good(g)'
PROOF
  <1>1. CASE at[g] = "idle"
    <2>1. at'[g] = "idle"
      BY <1>1
    <2> QED BY <2>1 DEF Good, OnItsWay, Complete, WhileWaiting, Replied
  <1>2. CASE at[g] # "idle"
    <2>1. layers' = layers
      BY <1>2
    <2>2. Faultless(request[g])' <=> Faultless(request[g])
      BY <2>1 DEF Faultless
    <2>3. OnItsWay(g)' /\ Complete(g)'
      BY <2>1 DEF Good, OnItsWay, Complete, Replied
    <2>4. WhileWaiting(g)'
      <3> SUFFICES ASSUME main' = "Waiting" PROVE WhileWaiting(g)'
        BY DEF WhileWaiting
      <3>1. main = "Waiting" /\ wms' = wms
        BY <1>2
      <3> QED BY <2>2, <3>1 DEF Good, WhileWaiting
    <2> QED BY <2>3, <2>4 DEF Good
  <1> QED BY <1>1, <1>2

\* The initial states satisfy the invariant.
LEMMA InitIInv == Init => IInv
PROOF
  <1> SUFFICES ASSUME Init PROVE IInv
    OBVIOUS
  <1>1. TypeOK
    BY ServerAssumption DEF Init, TypeOK, NoImage, DataTypes
  <1>2. MainInv /\ PointerInv /\ ToLoadInv
    BY DEF Init, MainInv, PointerInv, ToLoadInv
  <1>3. \A h \in Handlers : Good(h)
    BY DEF Init, Good, OnItsWay, Complete, WhileWaiting, Replied
  <1> QED BY <1>1, <1>2, <1>3 DEF IInv

-----------------------------------------------------------------------------
(* The steps of main                                                       *)

\* A step of main touches no handler: what is left to show is the rest.
LEMMA MainFrame ==
  ASSUME IInv, UNCHANGED handlers,
         layers' = layers \/ main \in {"Config", "Layers", "TileLayers", "Listen"},
         main' = "Waiting" => main = "Listen" \/ (main = "Waiting" /\ wms' = wms)
  PROVE  \A h \in Handlers : Good(h)'
PROOF
  <1> TAKE h \in Handlers
  <1>1. Good(h)
    BY DEF IInv
  <1>2. main \in {"Config", "Layers", "TileLayers", "Listen"} => at[h] = "idle"
    BY DEF IInv, MainInv
  <1>3. /\ at'[h] = at[h] /\ request'[h] = request[h]
        /\ image'[h] = image[h] /\ reply'[h] = reply[h]
    BY DEF handlers
  <1> QED BY <1>1, <1>2, <1>3, Frame

\* Every step of main keeps the invariant.
LEMMA MainKeeps ==
  ASSUME IInv, Main
  PROVE  IInv'
PROOF
  <1> USE DEF IInv
  <1>1. CASE NoConfig
    <2> USE <1>1 DEF NoConfig
    <2>1. TypeOK'
      BY DEF TypeOK, ToLoadInv, handlers
    <2>2. MainInv' /\ PointerInv' /\ ToLoadInv'
      BY DEF TypeOK, MainInv, PointerInv, ToLoadInv, handlers
    <2>3. \A h \in Handlers : Good(h)'
      BY MainFrame
    <2> QED BY <2>1, <2>2, <2>3
  <1>2. CASE StartMapService
    <2> USE <1>2 DEF StartMapService
    <2>1. TypeOK'
      BY DEF TypeOK, ToLoadInv, handlers
    <2>2. MainInv' /\ PointerInv' /\ ToLoadInv'
      BY DEF TypeOK, MainInv, PointerInv, ToLoadInv, handlers
    <2>3. \A h \in Handlers : Good(h)'
      BY MainFrame
    <2> QED BY <2>1, <2>2, <2>3
  <1>3. CASE CreateLayer
    <2> USE <1>3 DEF CreateLayer
    <2>1. TypeOK'
      BY DEF TypeOK, ToLoadInv, handlers
    <2>2. MainInv' /\ PointerInv' /\ ToLoadInv'
      BY DEF TypeOK, MainInv, PointerInv, ToLoadInv, handlers
    <2>3. \A h \in Handlers : Good(h)'
      BY MainFrame
    <2> QED BY <2>1, <2>2, <2>3
  <1>4. CASE MapServiceStarted
    <2> USE <1>4 DEF MapServiceStarted
    <2>1. TypeOK'
      BY DEF TypeOK, ToLoadInv, handlers
    <2>2. MainInv' /\ PointerInv' /\ ToLoadInv'
      BY DEF TypeOK, MainInv, PointerInv, ToLoadInv, handlers
    <2>3. \A h \in Handlers : Good(h)'
      BY MainFrame
    <2> QED BY <2>1, <2>2, <2>3
  <1>5. CASE CreateTileLayer
    <2> USE <1>5 DEF CreateTileLayer
    <2>1. TypeOK'
      BY DEF TypeOK, ToLoadInv, handlers
    <2>2. MainInv' /\ PointerInv' /\ ToLoadInv'
      BY DEF TypeOK, MainInv, PointerInv, ToLoadInv, handlers
    <2>3. \A h \in Handlers : Good(h)'
      BY MainFrame
    <2> QED BY <2>1, <2>2, <2>3
  <1>6. CASE TileServiceStarted
    <2> USE <1>6 DEF TileServiceStarted
    <2>1. TypeOK'
      BY DEF TypeOK, ToLoadInv, handlers
    <2>2. MainInv' /\ PointerInv' /\ ToLoadInv'
      BY DEF TypeOK, MainInv, PointerInv, ToLoadInv, handlers
    <2>3. \A h \in Handlers : Good(h)'
      BY MainFrame
    <2> QED BY <2>1, <2>2, <2>3
  <1>7. CASE Listen
    <2> USE <1>7 DEF Listen
    <2>1. TypeOK'
      BY DEF TypeOK, ToLoadInv, handlers
    <2>2. MainInv' /\ PointerInv' /\ ToLoadInv'
      BY DEF TypeOK, MainInv, PointerInv, ToLoadInv, handlers
    <2>3. \A h \in Handlers : Good(h)'
      BY MainFrame
    <2> QED BY <2>1, <2>2, <2>3
  <1>8. CASE ListenFails
    <2> USE <1>8 DEF ListenFails
    <2>1. TypeOK'
      BY DEF TypeOK, ToLoadInv, handlers
    <2>2. MainInv' /\ PointerInv' /\ ToLoadInv'
      BY DEF TypeOK, MainInv, PointerInv, ToLoadInv, handlers
    <2>3. \A h \in Handlers : Good(h)'
      BY MainFrame
    <2> QED BY <2>1, <2>2, <2>3
  <1>9. CASE Wake
    <2> USE <1>9 DEF Wake
    <2>1. TypeOK'
      BY DEF TypeOK, ToLoadInv, handlers
    <2>2. MainInv' /\ PointerInv' /\ ToLoadInv'
      BY DEF TypeOK, MainInv, PointerInv, ToLoadInv, handlers
    <2>3. \A h \in Handlers : Good(h)'
      BY MainFrame
    <2> QED BY <2>1, <2>2, <2>3
  <1>10. CASE DeleteMapService
    <2> USE <1>10 DEF DeleteMapService
    <2>1. TypeOK'
      BY DEF TypeOK, ToLoadInv, handlers
    <2>2. MainInv' /\ PointerInv' /\ ToLoadInv'
      BY DEF TypeOK, MainInv, PointerInv, ToLoadInv, handlers
    <2>3. \A h \in Handlers : Good(h)'
      BY MainFrame
    <2> QED BY <2>1, <2>2, <2>3
  <1>11. CASE ForgetMapService
    <2> USE <1>11 DEF ForgetMapService
    <2>1. TypeOK'
      BY DEF TypeOK, ToLoadInv, handlers
    <2>2. MainInv' /\ PointerInv' /\ ToLoadInv'
      BY DEF TypeOK, MainInv, PointerInv, ToLoadInv, handlers
    <2>3. \A h \in Handlers : Good(h)'
      BY MainFrame
    <2> QED BY <2>1, <2>2, <2>3
  <1>12. CASE Close
    <2> USE <1>12 DEF Close
    <2>1. TypeOK'
      BY DEF TypeOK, ToLoadInv, handlers
    <2>2. MainInv' /\ PointerInv' /\ ToLoadInv'
      BY DEF TypeOK, MainInv, PointerInv, ToLoadInv, handlers
    <2>3. \A h \in Handlers : Good(h)'
      BY MainFrame
    <2> QED BY <2>1, <2>2, <2>3
  <1>13. CASE Closed
    <2> USE <1>13 DEF Closed
    <2>1. TypeOK'
      BY DEF TypeOK, ToLoadInv, handlers
    <2>2. MainInv' /\ PointerInv' /\ ToLoadInv'
      BY DEF TypeOK, MainInv, PointerInv, ToLoadInv, handlers
    <2>3. \A h \in Handlers : Good(h)'
      BY MainFrame
    <2> QED BY <2>1, <2>2, <2>3
  <1> QED BY <1>1, <1>2, <1>3, <1>4, <1>5, <1>6, <1>7, <1>8, <1>9, <1>10, <1>11, <1>12, <1>13 DEF Main

-----------------------------------------------------------------------------
(* The steps of a handler                                                  *)

\* A handler whose request has arrived runs only after the start.
LEMMA RunsWhileServing ==
  ASSUME IInv, NEW h \in Handlers, at[h] # "idle" \/ listening, main # "Exited"
  PROVE  main \notin {"Config", "Layers", "TileLayers", "Listen", "Exited"}
PROOF
  BY DEF IInv, MainInv

\* A step of handler h alone keeps the invariant if it keeps the types and
\* leaves h in order.
LEMMA HandlerFrame ==
  ASSUME IInv, NEW h \in Handlers, UNCHANGED server,
         at[h] # "idle" \/ listening, main # "Exited",
         \A g \in Handlers \ {h} : /\ at'[g] = at[g] /\ request'[g] = request[g]
                                   /\ image'[g] = image[g] /\ reply'[g] = reply[g],
         TypeOK', Good(h)'
  PROVE  IInv'
PROOF
  <1>1. MainInv'
    BY RunsWhileServing DEF MainInv, server
  <1>2. PointerInv' /\ ToLoadInv'
    BY DEF IInv, PointerInv, ToLoadInv, server
  <1>3. \A g \in Handlers : Good(g)'
    <2> TAKE g \in Handlers
    <2>1. CASE g = h
      BY <2>1
    <2>2. CASE g # h
      <3>1. Good(g)
        BY DEF IInv
      <3> QED BY <2>2, <3>1, Frame DEF server
    <2> QED BY <2>1, <2>2
  <1> QED BY <1>1, <1>2, <1>3 DEF IInv

LEMMA ArriveKeeps ==
  ASSUME IInv, NEW h \in Handlers, Arrive(h)
  PROVE  IInv'
PROOF
  <1> USE DEF Arrive, Running
  <1>1. TypeOK'
    BY DEF IInv, TypeOK, server, NoImage, DataTypes
  <1>2. Good(h)'
    BY DEF IInv, TypeOK, Good, OnItsWay, Complete, WhileWaiting, Replied
  <1>3. UNCHANGED server
    OBVIOUS
  <1>4. \A g \in Handlers \ {h} : /\ at'[g] = at[g] /\ request'[g] = request[g]
                                  /\ image'[g] = image[g] /\ reply'[g] = reply[g]
    BY DEF IInv, TypeOK
  <1> QED BY <1>1, <1>2, <1>3, <1>4, HandlerFrame

LEMMA DispatchKeeps ==
  ASSUME IInv, NEW h \in Handlers, Dispatch(h)
  PROVE  IInv'
PROOF
  <1> USE DEF Dispatch, Running, Answer
  <1>1. TypeOK'
    BY ZenonT(30) DEF IInv, TypeOK, server, Codes
  <1>2. Good(h)'
    <2>1. OnItsWay(h)'
      BY ZenonT(30) DEF IInv, TypeOK, Good, OnItsWay
    <2>2. Complete(h)'
      BY DEF IInv, TypeOK, Complete, Replied
    <2>3. WhileWaiting(h)'
      <3>1. main = "Waiting" /\ request[h].service = "WMS" /\ request[h].layer \in layers => wms
        BY DEF IInv, PointerInv
      <3> QED BY <3>1 DEF IInv, TypeOK, WhileWaiting, Faultless, server
    <2> QED BY <2>1, <2>2, <2>3 DEF Good
  <1>3. UNCHANGED server
    OBVIOUS
  <1>4. \A g \in Handlers \ {h} : /\ at'[g] = at[g] /\ request'[g] = request[g]
                                  /\ image'[g] = image[g] /\ reply'[g] = reply[g]
    BY DEF IInv, TypeOK
  <1> QED BY <1>1, <1>2, <1>3, <1>4, HandlerFrame

LEMMA HandleKeeps ==
  ASSUME IInv, NEW h \in Handlers, Handle(h)
  PROVE  IInv'
PROOF
  <1> USE DEF Running, Answer
  <1>0. PICK available \in Found(h) :
          IF Objection(request[h], available) = "none"
            THEN /\ at' = [at EXCEPT ![h] = "layer"]
                 /\ image' = [image EXCEPT ![h].dataType =
                        FindCompatibleDataType(request[h].format, Formats[request[h].layer])]
                 /\ UNCHANGED reply
            ELSE Answer(h, Objection(request[h], available)) /\ UNCHANGED image
    BY DEF Handle
  <1>1. /\ UNCHANGED server /\ request' = request
        /\ at[h] = "service" /\ main \notin {"Exited", "Crashed"}
    BY DEF Handle
  <1>2. /\ request[h] \in Requests[h]
        /\ request[h].service \in {"WMS", "WMTS"}
    BY <1>1 DEF IInv, Good, OnItsWay
  <1>3. /\ available \in SUBSET (Layers \union TileLayers)
        /\ request[h].service = "WMS" => available \subseteq layers
    BY DEF Found, IInv, TypeOK
  <1>4. main = "Waiting" /\ Faultless(request[h]) => Objection(request[h], available) = "none"
    <2> SUFFICES ASSUME main = "Waiting", Faultless(request[h])
                 PROVE  Objection(request[h], available) = "none"
      OBVIOUS
    <2>1. request[h].service = "WMS"
      BY DEF Faultless
    <2>2. wms /\ wms = wmsAlive
      BY <1>1, <2>1 DEF IInv, Good, WhileWaiting, PointerInv
    <2>3. available = layers
      BY <2>1, <2>2 DEF Found
    <2> QED BY <1>2, <2>3, FaultlessPasses DEF IInv
  <1>5. CASE Objection(request[h], available) = "none"
    <2> DEFINE d == FindCompatibleDataType(request[h].format, Formats[request[h].layer])
    <2>1. /\ at' = [at EXCEPT ![h] = "layer"]
          /\ image' = [image EXCEPT ![h].dataType = d]
          /\ reply' = reply
      BY <1>0, <1>5
    <2>2. request[h].layer \in available /\ d \in Wanted(request[h].format)
      BY <1>3, <1>5, NoObjection
    <2>3. d \in DataTypes
      BY <2>2, WantedConverts
    <2> HIDE DEF d
    <2>4. TypeOK'
      BY <1>1, <2>1, <2>3 DEF IInv, TypeOK, server
    <2>5. at'[h] = "layer" /\ image'[h].dataType = d
      BY <2>1 DEF IInv, TypeOK
    <2>6. Good(h)'
      BY <1>1, <1>2, <1>3, <2>2, <2>5
      DEF Good, OnItsWay, Complete, WhileWaiting, Replied, server
    <2>7. \A g \in Handlers \ {h} : /\ at'[g] = at[g] /\ request'[g] = request[g]
                                    /\ image'[g] = image[g] /\ reply'[g] = reply[g]
      BY <1>1, <2>1 DEF IInv, TypeOK
    <2> QED BY <1>1, <2>4, <2>6, <2>7, HandlerFrame
  <1>6. CASE Objection(request[h], available) # "none"
    <2> DEFINE o == Objection(request[h], available)
    <2>1. /\ at' = [at EXCEPT ![h] = "replied"]
          /\ reply' = [reply EXCEPT ![h] = o]
          /\ image' = image
      BY <1>0, <1>6
    <2>2. /\ o \in Codes
          /\ request[h].service = "WMS" /\ request[h].request = "GetMap" => o # "OK"
      BY <1>6, ObjectionIsCode
    <2>3. ~(main = "Waiting" /\ Faultless(request[h]))
      BY <1>4, <1>6
    <2> HIDE DEF o
    <2>4. TypeOK'
      BY <1>1, <2>1, <2>2 DEF IInv, TypeOK, server
    <2>5. at'[h] = "replied" /\ reply'[h] = o
      BY <2>1 DEF IInv, TypeOK
    <2>6. Good(h)'
      BY <1>1, <1>2, <2>2, <2>3, <2>5
      DEF Good, OnItsWay, Complete, WhileWaiting, Replied, Faultless, server
    <2>7. \A g \in Handlers \ {h} : /\ at'[g] = at[g] /\ request'[g] = request[g]
                                    /\ image'[g] = image[g] /\ reply'[g] = reply[g]
      BY <1>1, <2>1 DEF IInv, TypeOK
    <2> QED BY <1>1, <2>4, <2>6, <2>7, HandlerFrame
  <1> QED BY <1>5, <1>6

\* A crash stops everything.
LEMMA HandleDeletedKeeps ==
  ASSUME IInv, NEW h \in Handlers, HandleDeleted(h)
  PROVE  IInv'
PROOF
  <1> USE DEF HandleDeleted
  <1>1. TypeOK' /\ MainInv' /\ PointerInv' /\ ToLoadInv'
    BY DEF IInv, TypeOK, MainInv, PointerInv, ToLoadInv, handlers
  <1>2. \A g \in Handlers : Good(g)'
    <2> TAKE g \in Handlers
    <2>1. Good(g)
      BY DEF IInv
    <2> QED BY <2>1, Frame DEF handlers
  <1> QED BY <1>1, <1>2 DEF IInv

LEMMA RenderKeeps ==
  ASSUME IInv, NEW h \in Handlers, Render(h)
  PROVE  IInv'
PROOF
  <1> USE DEF Running, Answer
  <1>0. PICK result \in MayReturn(request[h].layer) :
          IF result = "OK"
            THEN /\ at' = [at EXCEPT ![h] = "convert"]
                 /\ image' = [image EXCEPT ![h].filled = /\ request[h].layer \in Layers
                                                         /\ Sized(request[h])]
                 /\ UNCHANGED reply
            ELSE Answer(h, Exception(result)) /\ UNCHANGED image
    BY DEF Render
  <1>1. /\ UNCHANGED server /\ request' = request
        /\ at[h] = "layer" /\ main \notin {"Exited", "Crashed"}
    BY DEF Render
  <1>2. /\ request[h] \in Requests[h]
        /\ request[h].service \in {"WMS", "WMTS"}
        /\ image[h].dataType \in Wanted(request[h].format)
        /\ request[h].service = "WMS" => request[h].layer \in Layers
    BY <1>1 DEF IInv, TypeOK, Good, OnItsWay
  <1>3. CASE result = "OK"
    <2>1. /\ at' = [at EXCEPT ![h] = "convert"]
          /\ image' = [image EXCEPT ![h].filled = /\ request[h].layer \in Layers
                                                  /\ Sized(request[h])]
          /\ reply' = reply
      BY <1>0, <1>3
    <2>2. /\ at'[h] = "convert"
          /\ image'[h].dataType = image[h].dataType
          /\ image'[h].filled = (request[h].layer \in Layers /\ Sized(request[h]))
      BY <2>1 DEF IInv, TypeOK
    <2>3. TypeOK'
      <3> DEFINE ofMap == request[h].layer \in Layers /\ Sized(request[h])
      <3>1. ofMap \in BOOLEAN
        OBVIOUS
      <3>2. image' = [image EXCEPT ![h].filled = ofMap]
        BY <2>1
      <3>3. at' = [at EXCEPT ![h] = "convert"] /\ reply' = reply
        BY <2>1
      <3> HIDE DEF ofMap
      <3> QED BY <1>1, <3>1, <3>2, <3>3 DEF IInv, TypeOK, server
    <2>4. Good(h)'
      BY <1>1, <1>2, <2>2
      DEF IInv, Good, OnItsWay, Complete, WhileWaiting, Replied, server
    <2>5. \A g \in Handlers \ {h} : /\ at'[g] = at[g] /\ request'[g] = request[g]
                                    /\ image'[g] = image[g] /\ reply'[g] = reply[g]
      BY <1>1, <2>1 DEF IInv, TypeOK
    <2> QED BY <1>1, <2>3, <2>4, <2>5, HandlerFrame
  <1>4. CASE result # "OK"
    <2>1. result \in Results
      BY DEF MayReturn, Results
    <2>2. Exception(result) \in Codes \ {"OK"}
      BY <2>1, ExceptionIsCode
    <2>3. /\ at' = [at EXCEPT ![h] = "replied"]
          /\ reply' = [reply EXCEPT ![h] = Exception(result)]
          /\ image' = image
      BY <1>0, <1>4
    <2>4. at'[h] = "replied" /\ reply'[h] = Exception(result)
      BY <2>3 DEF IInv, TypeOK
    <2>5. TypeOK'
      BY <1>1, <2>2, <2>3 DEF IInv, TypeOK, server
    <2>6. image'[h].dataType # "Unknown"
      BY <1>2, <2>3, WantedConverts
    <2>7. Good(h)'
      BY <1>1, <1>2, <2>1, <2>2, <2>4, <2>6
      DEF Good, OnItsWay, Complete, WhileWaiting, Replied, server
    <2>8. \A g \in Handlers \ {h} : /\ at'[g] = at[g] /\ request'[g] = request[g]
                                    /\ image'[g] = image[g] /\ reply'[g] = reply[g]
      BY <1>1, <2>3 DEF IInv, TypeOK
    <2> QED BY <1>1, <2>5, <2>7, <2>8, HandlerFrame
  <1> QED BY <1>3, <1>4

LEMMA ConvertKeeps ==
  ASSUME IInv, NEW h \in Handlers, Convert(h)
  PROVE  IInv'
PROOF
  <1> USE DEF Convert, Running, Answer
  <1>1. /\ request[h] \in Requests[h]
        /\ image[h].dataType \in Wanted(request[h].format)
        /\ request[h].service = "WMS" /\ Sized(request[h]) => image[h].filled
    BY DEF IInv, Good, OnItsWay
  <1>0. PICK possible \in {TRUE, Sized(request[h])} :
          image' = [image EXCEPT ![h].converted =
                      possible /\ Converts(image[h].dataType, request[h].format)]
    OBVIOUS
  <1> DEFINE c == possible /\ Converts(image[h].dataType, request[h].format)
  <1>2. Sized(request[h]) => c
    BY <1>1, WantedConverts
  <1>3. image[h].dataType # "Unknown"
    BY <1>1, WantedConverts
  <1>4. /\ at'[h] = "replied" /\ reply'[h] = "OK"
        /\ image'[h].dataType = image[h].dataType
        /\ image'[h].filled = image[h].filled
        /\ image'[h].converted = c
    BY <1>0 DEF IInv, TypeOK
  <1>5. c \in BOOLEAN
    BY ConvertsOrNot
  <1>6. TypeOK'
    <2>1. image' = [image EXCEPT ![h].converted = c]
      BY <1>0
    <2>2. /\ UNCHANGED server /\ request' = request
          /\ at' = [at EXCEPT ![h] = "replied"] /\ reply' = [reply EXCEPT ![h] = "OK"]
      OBVIOUS
    <2> HIDE DEF c, Convert, Running, Answer
    <2> QED BY <1>5, <2>1, <2>2 DEF IInv, TypeOK, server, Codes
  <1>7. Good(h)'
    BY <1>1, <1>2, <1>3, <1>4
    DEF Good, OnItsWay, Complete, WhileWaiting, Replied, server
  <1>8. \A g \in Handlers \ {h} : /\ at'[g] = at[g] /\ request'[g] = request[g]
                                  /\ image'[g] = image[g] /\ reply'[g] = reply[g]
    BY DEF IInv, TypeOK
  <1> QED BY <1>6, <1>7, <1>8, HandlerFrame

LEMMA UseBeyondMemoryKeeps ==
  ASSUME IInv, NEW h \in Handlers, UseBeyondMemory(h)
  PROVE  IInv'
PROOF
  <1> USE DEF UseBeyondMemory
  <1>1. TypeOK' /\ MainInv' /\ PointerInv' /\ ToLoadInv'
    BY DEF IInv, TypeOK, MainInv, PointerInv, ToLoadInv, handlers
  <1>2. \A g \in Handlers : Good(g)'
    <2> TAKE g \in Handlers
    <2>1. Good(g)
      BY DEF IInv
    <2> QED BY <2>1, Frame DEF handlers
  <1> QED BY <1>1, <1>2 DEF IInv

LEMMA ReturnKeeps ==
  ASSUME IInv, NEW h \in Handlers, Return(h)
  PROVE  IInv'
PROOF
  <1> USE DEF Return, Running
  <1>1. TypeOK'
    BY DEF IInv, TypeOK, server, NoImage, DataTypes
  <1>2. Good(h)'
    BY DEF IInv, TypeOK, Good, OnItsWay, Complete, WhileWaiting, Replied
  <1>3. \A g \in Handlers \ {h} : /\ at'[g] = at[g] /\ request'[g] = request[g]
                                  /\ image'[g] = image[g] /\ reply'[g] = reply[g]
    BY DEF IInv, TypeOK
  <1> QED BY <1>1, <1>2, <1>3, HandlerFrame

\* A step that changes nothing keeps the invariant.
LEMMA StutterKeeps ==
  ASSUME IInv, UNCHANGED vars
  PROVE  IInv'
PROOF
  <1>1. TypeOK' /\ MainInv' /\ PointerInv' /\ ToLoadInv'
    BY DEF IInv, TypeOK, MainInv, PointerInv, ToLoadInv, vars
  <1>2. \A g \in Handlers : Good(g)'
    <2> TAKE g \in Handlers
    <2>1. Good(g)
      BY DEF IInv
    <2> QED BY <2>1, Frame DEF vars
  <1> QED BY <1>1, <1>2 DEF IInv

\* The invariant is inductive.
LEMMA NextKeeps == IInv /\ [Next]_vars => IInv'
PROOF
  <1> SUFFICES ASSUME IInv, [Next]_vars PROVE IInv'
    OBVIOUS
  <1>1. CASE Main
    BY <1>1, MainKeeps
  <1>2. ASSUME NEW h \in Handlers, Arrive(h) \/ HandlerStep(h)
        PROVE  IInv'
    BY <1>2, ArriveKeeps, DispatchKeeps, HandleKeeps, HandleDeletedKeeps,
       RenderKeeps, ConvertKeeps, UseBeyondMemoryKeeps, ReturnKeeps DEF HandlerStep
  <1>3. CASE UNCHANGED vars
    BY <1>3, StutterKeeps
  <1> QED BY <1>1, <1>2, <1>3 DEF Next

THEOREM Invariance == Spec => []IInv
PROOF
  <1> QED BY InitIInv, NextKeeps, PTL DEF Spec

-----------------------------------------------------------------------------
(* What the invariant gives                                                *)

\* The state of the server always has its type; in particular whatever a
\* handler answers is one of the codes of WebMapService.cpp and
\* WebMapTileService.cpp.
THEOREM TypeCorrect == Spec => []TypeOK
PROOF
  <1>1. IInv => TypeOK
    BY DEF IInv
  <1> QED BY <1>1, Invariance, PTL

\* A map request answered with OK carries an image a layer filled and that was
\* converted to the format asked for, whatever formats the layers offer, where the size
\* asked for does not overflow.
THEOREM ImagesComplete == Spec => []ImagesAreComplete
PROOF
  <1>1. IInv => ImagesAreComplete
    BY DEF IInv, Good, Complete, ImagesAreComplete
  <1> QED BY <1>1, Invariance, PTL

\* While main waits, a request without fault, of a size whose products an int holds,
\* gets to its layer with a data type for its image, and is refused with nothing but what
\* a layer can return.
THEOREM ErrorsCaused == Spec => []ErrorsHaveCause
PROOF
  <1>1. IInv => ErrorsHaveCause
    BY DEF IInv, Good, WhileWaiting, ErrorsHaveCause
  <1> QED BY <1>1, Invariance, PTL

\* Until main is woken no handler is in a map service that was deleted.
THEOREM ServiceAlive == Spec => []NoDeletedService
PROOF
  <1>1. IInv => NoDeletedService
    <2> SUFFICES ASSUME IInv, main \in {"Listen", "Waiting"}, NEW h \in Handlers,
                        at[h] = "service", request[h].service = "WMS"
                 PROVE  wmsAlive
      BY DEF NoDeletedService
    <2>1. main = "Waiting"
      BY DEF IInv, MainInv
    <2>2. wms
      BY <2>1 DEF IInv, Good, WhileWaiting
    <2> QED BY <2>1, <2>2 DEF IInv, PointerInv
  <1> QED BY <1>1, Invariance, PTL

\* No handler runs when main has left WebServer::Stop.
THEOREM Quiet == Spec => []QuietAfterStop
PROOF
  <1>1. IInv => QuietAfterStop
    BY DEF IInv, MainInv, QuietAfterStop
  <1> QED BY <1>1, Invariance, PTL

\* What Stop deletes is not in use: both of the above.
THEOREM DeletedAfterUse == Spec => []NothingDeletedInUse
PROOF
  <1>1. NoDeletedService /\ QuietAfterStop => NothingDeletedInUse
    BY DEF NothingDeletedInUse
  <1> QED BY <1>1, ServiceAlive, Quiet, PTL

\* The tables of layers stay as they are while a request is being handled, and
\* so does the pointer to the map service until main deletes it.
THEOREM Frozen == Spec => TablesFrozen
PROOF
  <1> DEFINE A == (\E h \in Handlers : at[h] # "idle") =>
                    /\ UNCHANGED <<layers, tileLayers, wmts>>
                    /\ main \notin {"DeleteMapService", "ForgetMapService"} =>
                         UNCHANGED <<wms, wmsAlive>>
  <1>1. IInv /\ [Next]_vars => [A]_vars
    <2> SUFFICES ASSUME IInv, Next, NEW g \in Handlers, at[g] # "idle"
                 PROVE  /\ UNCHANGED <<layers, tileLayers, wmts>>
                        /\ main \notin {"DeleteMapService", "ForgetMapService"} =>
                             UNCHANGED <<wms, wmsAlive>>
      OBVIOUS
    <2>1. main \notin {"Config", "Layers", "TileLayers", "Listen", "Exited"}
      BY DEF IInv, MainInv
    <2>2. CASE Main
      BY <2>1, <2>2 DEF Main, NoConfig, StartMapService, CreateLayer, MapServiceStarted,
         CreateTileLayer, TileServiceStarted, Listen, ListenFails, Wake,
         DeleteMapService, ForgetMapService, Close, Closed
    <2>3. ASSUME NEW h \in Handlers, Arrive(h) \/ HandlerStep(h)
          PROVE  UNCHANGED <<layers, tileLayers, wms, wmsAlive, wmts>>
      BY <2>3 DEF HandlerStep, Arrive, Dispatch, Handle, HandleDeleted, Render, Convert,
         UseBeyondMemory, Return, server
    <2> QED BY <2>2, <2>3 DEF Next
  <1> QED BY <1>1, Invariance, PTL DEF Spec, TablesFrozen
=============================================================================
