-------------------------- MODULE ImageBuffersProofs --------------------------
(***************************************************************************)
(* Proofs about ImageBuffers: the memory of images is balanced, the images *)
(* are well typed, the pictures that leave the process are those that came *)
(* in or were rendered, and a mip tile is the mean of the tiles below it,  *)
(* for tiles of any size, any pictures, any formats of answers and any     *)
(* number of tiles.                                                        *)
(*                                                                         *)
(* An operation of an image is looked at with the buffers that belong to   *)
(* the other images: it keeps those, and afterwards the memory consists of *)
(* them and of the buffers that the image has then.  What is said of the   *)
(* pixels then follows image by image: a step moves those of one image     *)
(* and leaves those of the others where they are.                          *)
(***************************************************************************)
EXTENDS ImageBuffers, SequenceElements, FiniteSetTheorems, TLAPS

-----------------------------------------------------------------------------
(* One image and the memory.                                               *)

BufferSet(img) == {img.raw, img.processed} \ {NULL}

ImgFields == {"raw", "rawDataType", "width", "height", "processed", "content"}
StateFields == {"img", "memory", "faults", "asserted"}

\* The content type says how the processed data were allocated.
ImgOK(img, mem) ==
  /\ DOMAIN img = ImgFields
  /\ img.raw \in Nat /\ img.processed \in Nat
  /\ img.raw # NULL => mem[img.raw].by = "new"
  /\ img.processed # NULL =>
       mem[img.processed].by = IF img.content = "PNG" THEN "stb" ELSE "new"

IsState(s) == DOMAIN s = StateFields /\ DOMAIN s.img = ImgFields

\* The memory is the buffers of the image and those of others.
Owned(s, others) ==
  /\ IsState(s)
  /\ IsFiniteSet(others) /\ others \subseteq Nat \ {NULL}
  /\ BufferSet(s.img) \intersect others = {}
  /\ DOMAIN s.memory = others \union BufferSet(s.img)
  /\ ImgOK(s.img, s.memory)
  /\ s.faults = {} /\ s.asserted \subseteq {NULL}

\* the buffers of others are as they were
Kept(others, mem, new) == \A b \in others : new[b] = mem[b]

\* so are the pixels of the image
SamePixels(s, t) ==
  /\ t.img.raw = s.img.raw /\ t.img.width = s.img.width /\ t.img.height = s.img.height
  /\ s.img.raw # NULL => t.memory[s.img.raw] = s.memory[s.img.raw]

\* An image was converted: its processed data are its pixels, as they are or encoded.
Pictured(s, t) ==
  /\ SamePixels(s, t)
  /\ t.img.processed # NULL =>
       Data(t.memory, t.img.processed) =
         IF t.img.content \in DOMAIN RawTypes THEN Data(s.memory, s.img.raw)
         ELSE Encoded(s.img.width, s.img.height, Data(s.memory, s.img.raw))
  /\ t.img.content = "Elevation" => t.img.processed # NULL

\* There is always a buffer that is not in use.
LEMMA Fresh ==
  ASSUME NEW mem, IsFiniteSet(DOMAIN mem)
  PROVE  FreeBuffer(mem) \in Nat \ {NULL} /\ FreeBuffer(mem) \notin DOMAIN mem
PROOF
  <1> DEFINE n == Cardinality(DOMAIN mem) + 1
             unused == {b \in 1 .. n : b \notin DOMAIN mem}
  <1>1. n \in Nat
    BY FS_CardinalityType
  <1>2. unused # {}
    <2> SUFFICES ASSUME 1 .. n \subseteq DOMAIN mem PROVE FALSE
      OBVIOUS
    <2>1. Cardinality(1 .. n) <= Cardinality(DOMAIN mem)
      BY FS_Subset
    <2>2. Cardinality(1 .. n) = n
      BY <1>1, FS_Interval
    <2>3. Cardinality(DOMAIN mem) \in Nat
      BY FS_CardinalityType
    <2> QED BY <2>1, <2>2, <2>3
  <1>3. PICK b \in unused : \A a \in unused : b <= a
    <2>1. unused \subseteq Nat
      BY <1>1
    <2> HIDE DEF unused
    <2> QED BY <1>2, <2>1, HasFirst
  <1>4. /\ b \in 1 .. n /\ b \notin DOMAIN mem
        /\ \A a \in 1 .. b - 1 : a \in DOMAIN mem
    BY <1>1, <1>3
  <1>5. /\ FreeBuffer(mem) \in 1 .. n
        /\ FreeBuffer(mem) \notin DOMAIN mem
    BY <1>4 DEF FreeBuffer
  <1> QED BY <1>1, <1>5 DEF NULL

LEMMA OwnedFinite ==
  ASSUME NEW s, NEW others, Owned(s, others)
  PROVE  IsFiniteSet(DOMAIN s.memory) /\ NULL \notin DOMAIN s.memory
PROOF
  <1>1. IsFiniteSet({s.img.raw, s.img.processed})
    <2>1. IsFiniteSet({s.img.raw} \union {s.img.processed})
      BY FS_Singleton, FS_AddElement
    <2>2. {s.img.raw} \union {s.img.processed} = {s.img.raw, s.img.processed}
      OBVIOUS
    <2> QED BY <2>1, <2>2
  <1>2. IsFiniteSet(BufferSet(s.img))
    <2>1. BufferSet(s.img) \in SUBSET {s.img.raw, s.img.processed}
      BY DEF BufferSet
    <2> QED BY <1>1, <2>1, FS_Subset
  <1>3. IsFiniteSet(others \union BufferSet(s.img))
    BY <1>2, FS_Union DEF Owned
  <1> QED BY <1>3 DEF Owned, BufferSet

\* To free a buffer that is there, in the way it was allocated, is no fault.
LEMMA FreeFields ==
  ASSUME NEW s, IsState(s), NEW buffer, NEW by, NULL \notin DOMAIN s.memory,
         buffer = NULL \/ (buffer \in DOMAIN s.memory /\ s.memory[buffer].by = by)
  PROVE  LET t == Free(s, buffer, by)
         IN  /\ IsState(t) /\ t.img = s.img /\ t.asserted = s.asserted /\ t.faults = s.faults
             /\ DOMAIN t.memory = DOMAIN s.memory \ {buffer}
             /\ \A b \in DOMAIN t.memory : t.memory[b] = s.memory[b]
PROOF
  <1> DEFINE t == Free(s, buffer, by)
  <1>1. CASE buffer = NULL
    <2>1. t = s
      BY <1>1 DEF Free
    <2> QED BY <1>1, <2>1
  <1>2. CASE buffer # NULL
    <2>1. t = [s EXCEPT !.memory = [b \in DOMAIN @ \ {buffer} |-> @[b]], !.faults = @]
      BY <1>2 DEF Free
    <2>2. /\ DOMAIN t = StateFields /\ t.img = s.img /\ t.faults = s.faults /\ t.asserted = s.asserted
          /\ t.memory = [b \in DOMAIN s.memory \ {buffer} |-> s.memory[b]]
      BY <2>1 DEF IsState, StateFields
    <2> QED BY <2>2 DEF IsState
  <1> QED BY <1>1, <1>2

\* The destructor's first half: the image has no processed data.
LEMMA FreeProcessedOwned ==
  ASSUME NEW s, NEW others, Owned(s, others)
  PROVE  LET t == FreeProcessedData(s)
         IN  /\ Owned(t, others) /\ Kept(others, s.memory, t.memory)
             /\ t.img.raw = s.img.raw /\ t.img.processed = NULL /\ t.img.content = s.img.content
             /\ SamePixels(s, t)
PROOF
  <1> DEFINE freed == IF s.img.content = "PNG" THEN Free(s, s.img.processed, "stb")
                      ELSE IF s.img.raw # s.img.processed THEN Free(s, s.img.processed, "new")
                      ELSE s
             t == FreeProcessedData(s)
  <1>1. IsState(s) /\ ImgOK(s.img, s.memory) /\ NULL \notin DOMAIN s.memory
    BY OwnedFinite DEF Owned
  <1>2. s.img.processed = NULL \/ s.img.processed \in DOMAIN s.memory
    BY DEF Owned, BufferSet
  <1>3. /\ IsState(freed) /\ freed.img = s.img
        /\ freed.asserted = s.asserted /\ freed.faults = s.faults
        /\ \A b \in DOMAIN freed.memory : freed.memory[b] = s.memory[b]
        /\ DOMAIN freed.memory = others \union ({s.img.raw} \ {NULL})
    <2>1. CASE s.img.content = "PNG"
      <3>1. s.img.processed # NULL => s.memory[s.img.processed].by = "stb"
        BY <1>1, <2>1 DEF ImgOK
      <3>2. s.img.raw # NULL => s.memory[s.img.raw].by = "new"
        BY <1>1 DEF ImgOK
      <3>3. s.img.raw = s.img.processed => s.img.raw = NULL
        BY <3>1, <3>2
      <3>4. freed = Free(s, s.img.processed, "stb")
        BY <2>1
      <3>5. DOMAIN freed.memory = DOMAIN s.memory \ {s.img.processed}
        BY <1>1, <1>2, <3>1, <3>4, FreeFields
      <3>6. DOMAIN freed.memory = others \union ({s.img.raw} \ {NULL})
        BY <3>3, <3>5 DEF Owned, BufferSet
      <3> QED BY <1>1, <1>2, <3>1, <3>4, <3>6, FreeFields
    <2>2. CASE s.img.content # "PNG" /\ s.img.raw # s.img.processed
      <3>1. s.img.processed # NULL => s.memory[s.img.processed].by = "new"
        BY <1>1, <2>2 DEF ImgOK
      <3>2. freed = Free(s, s.img.processed, "new")
        BY <2>2
      <3>3. DOMAIN freed.memory = DOMAIN s.memory \ {s.img.processed}
        BY <1>1, <1>2, <3>1, <3>2, FreeFields
      <3>4. DOMAIN freed.memory = others \union ({s.img.raw} \ {NULL})
        BY <2>2, <3>3 DEF Owned, BufferSet
      <3> QED BY <1>1, <1>2, <3>1, <3>2, <3>4, FreeFields
    <2>3. CASE s.img.content # "PNG" /\ s.img.raw = s.img.processed
      <3>1. freed = s
        BY <2>3
      <3>2. DOMAIN s.memory = others \union ({s.img.raw} \ {NULL})
        BY <2>3 DEF Owned, BufferSet
      <3> QED BY <1>1, <3>1, <3>2
    <2> QED BY <2>1, <2>2, <2>3
  <1>4. t = [freed EXCEPT !.img.processed = NULL]
    BY DEF FreeProcessedData
  <1> HIDE DEF freed
  <1>5. /\ IsState(t) /\ t.memory = freed.memory
        /\ t.faults = s.faults /\ t.asserted = s.asserted
        /\ t.img.raw = s.img.raw /\ t.img.processed = NULL /\ t.img.content = s.img.content
        /\ t.img.width = s.img.width /\ t.img.height = s.img.height
    BY <1>3, <1>4 DEF IsState, StateFields, ImgFields
  <1> HIDE DEF t
  <1>7. BufferSet(t.img) = {s.img.raw} \ {NULL}
    BY <1>5 DEF BufferSet
  <1>8. ImgOK(t.img, t.memory)
    <2>1. t.img.raw # NULL => t.memory[t.img.raw].by = "new"
      BY <1>1, <1>3, <1>5 DEF ImgOK
    <2> QED BY <1>1, <1>5, <2>1 DEF ImgOK, IsState, NULL
  <1>9. Owned(t, others)
    <2>1. BufferSet(t.img) \intersect others = {}
      BY <1>7 DEF Owned, BufferSet
    <2> QED BY <1>3, <1>5, <1>7, <1>8, <2>1 DEF Owned
  <1>10. Kept(others, s.memory, t.memory)
    BY <1>3, <1>5 DEF Kept
  <1>11. SamePixels(s, t)
    BY <1>3, <1>5 DEF SamePixels
  <1> QED BY <1>5, <1>9, <1>10, <1>11 DEF t

\* The assertion is about two buffers that differ, or about none.
LEMMA FreeRawOwned ==
  ASSUME NEW s, NEW others, Owned(s, others), s.img.raw # s.img.processed \/ s.img.raw = NULL
  PROVE  LET t == FreeRawData(s)
         IN  /\ Owned(t, others) /\ Kept(others, s.memory, t.memory)
             /\ t.img.raw = NULL /\ t.img.processed = s.img.processed
             /\ t.img.content = s.img.content
             /\ t.img.width = s.img.width /\ t.img.height = s.img.height
             /\ Data(t.memory, t.img.processed) = Data(s.memory, s.img.processed)
PROOF
  <1> DEFINE checked == [s EXCEPT !.asserted = IF s.img.raw = s.img.processed THEN @ \union {s.img.raw} ELSE @]
             freed == Free(checked, s.img.raw, "new")
             t == FreeRawData(s)
  <1>1. IsState(s) /\ ImgOK(s.img, s.memory) /\ NULL \notin DOMAIN s.memory
    BY OwnedFinite DEF Owned
  <1>2. s.img.raw = NULL \/ (s.img.raw \in DOMAIN s.memory /\ s.memory[s.img.raw].by = "new")
    BY <1>1 DEF Owned, BufferSet, ImgOK
  <1>3. /\ IsState(checked) /\ checked.img = s.img /\ checked.memory = s.memory
        /\ checked.faults = s.faults /\ checked.asserted \subseteq {NULL}
    BY <1>1 DEF IsState, StateFields, Owned
  <1> HIDE DEF checked
  <1>4. /\ IsState(freed) /\ freed.img = s.img
        /\ freed.asserted = checked.asserted /\ freed.faults = s.faults
        /\ DOMAIN freed.memory = DOMAIN s.memory \ {s.img.raw}
        /\ \A b \in DOMAIN freed.memory : freed.memory[b] = s.memory[b]
    BY <1>1, <1>2, <1>3, FreeFields
  <1>5. t = [freed EXCEPT !.img.raw = NULL]
    BY DEF FreeRawData, checked
  <1> HIDE DEF freed
  <1>7. /\ IsState(t) /\ t.memory = freed.memory
        /\ t.faults = s.faults /\ t.asserted = checked.asserted
        /\ t.img.raw = NULL /\ t.img.processed = s.img.processed /\ t.img.content = s.img.content
        /\ t.img.width = s.img.width /\ t.img.height = s.img.height
    BY <1>4, <1>5 DEF IsState, StateFields, ImgFields
  <1> HIDE DEF t
  <1>8. BufferSet(t.img) = {s.img.processed} \ {NULL}
    BY <1>7 DEF BufferSet
  <1>9. DOMAIN t.memory = others \union BufferSet(t.img)
    BY <1>1, <1>4, <1>7, <1>8 DEF Owned, BufferSet
  <1>10. ImgOK(t.img, t.memory)
    <2>1. t.img.processed # NULL =>
            t.memory[t.img.processed].by = IF t.img.content = "PNG" THEN "stb" ELSE "new"
      <3> SUFFICES ASSUME t.img.processed # NULL
                   PROVE  t.memory[t.img.processed].by = IF t.img.content = "PNG" THEN "stb" ELSE "new"
        OBVIOUS
      <3>1. t.img.processed \in DOMAIN t.memory
        BY <1>7, <1>8, <1>9
      <3>2. t.memory[t.img.processed] = s.memory[s.img.processed]
        BY <1>4, <1>7, <3>1
      <3> QED BY <1>1, <1>7, <3>2 DEF ImgOK
    <2> QED BY <1>1, <1>7, <2>1 DEF ImgOK, IsState, NULL
  <1>11. Owned(t, others)
    <2>1. BufferSet(t.img) \intersect others = {}
      BY <1>8 DEF Owned, BufferSet
    <2> QED BY <1>3, <1>7, <1>9, <1>10, <2>1 DEF Owned
  <1>12. Kept(others, s.memory, t.memory)
    BY <1>4, <1>7, <1>9 DEF Kept
  <1>13. Data(t.memory, t.img.processed) = Data(s.memory, s.img.processed)
    <2>1. CASE s.img.processed = NULL
      <3>1. NULL \notin DOMAIN t.memory
        BY <1>1, <1>4, <1>7
      <3> QED BY <1>1, <1>7, <2>1, <3>1 DEF Data
    <2>2. CASE s.img.processed # NULL
      <3>1. s.img.processed \in DOMAIN s.memory /\ s.img.processed \in DOMAIN t.memory
        BY <1>8, <1>9, <2>2 DEF Owned, BufferSet
      <3>2. t.memory[s.img.processed] = s.memory[s.img.processed]
        BY <1>4, <1>7, <3>1
      <3> QED BY <1>7, <3>1, <3>2 DEF Data
    <2> QED BY <2>1, <2>2
  <1> QED BY <1>7, <1>11, <1>12, <1>13 DEF t

\* The destructor leaves the buffers of the others.
LEMMA DestroyedOwned ==
  ASSUME NEW s, NEW others, Owned(s, others)
  PROVE  LET t == Destroyed(s)
         IN  /\ DOMAIN t.memory = others /\ Kept(others, s.memory, t.memory)
             /\ t.faults = {} /\ t.asserted \subseteq {NULL}
PROOF
  <1> DEFINE u == FreeProcessedData(s)
             t == FreeRawData(u)
  <1>1. /\ Owned(u, others) /\ Kept(others, s.memory, u.memory)
        /\ u.img.processed = NULL
    BY FreeProcessedOwned
  <1> HIDE DEF u
  <1>2. u.img.raw # u.img.processed \/ u.img.raw = NULL
    BY <1>1
  <1>3. /\ Owned(t, others) /\ Kept(others, u.memory, t.memory)
        /\ t.img.raw = NULL /\ t.img.processed = NULL
    BY <1>1, <1>2, FreeRawOwned
  <1> HIDE DEF t
  <1>5. DOMAIN t.memory = others
    BY <1>3 DEF Owned, BufferSet
  <1>6. Kept(others, s.memory, t.memory)
    BY <1>1, <1>3 DEF Kept
  <1>7. Destroyed(s) = t
    BY DEF Destroyed, t, u
  <1> QED BY <1>3, <1>5, <1>6, <1>7 DEF Owned

\* The size of an image says nothing of its buffers.
LEMMA AllocatedOwned ==
  ASSUME NEW s, NEW others, Owned(s, others), s.img.raw = NULL,
         NEW width, NEW height, NEW type
  PROVE  LET t == Allocated(s, width, height, type)
         IN  /\ Owned(t, others) /\ Kept(others, s.memory, t.memory)
             /\ t.img.processed = s.img.processed /\ t.img.content = s.img.content
             /\ t.img.width = width /\ t.img.height = height
             /\ width * height # 0 => t.img.raw # NULL
             /\ IF width * height = 0 THEN t.img.raw = NULL
                ELSE Data(t.memory, t.img.raw) = Filled(width * height, Garbage)
             /\ Data(t.memory, t.img.processed) = Data(s.memory, s.img.processed)
PROOF
  <1> DEFINE b == FreeBuffer(s.memory)
             data == Filled(width * height, Garbage)
             t == Allocated(s, width, height, type)
             sized == [s EXCEPT !.img.width = width, !.img.height = height, !.img.rawDataType = type]
  <1>1. IsState(s) /\ ImgOK(s.img, s.memory)
    BY DEF Owned
  <1>2. /\ IsState(sized) /\ sized.memory = s.memory
        /\ sized.faults = s.faults /\ sized.asserted = s.asserted
        /\ sized.img.processed = s.img.processed /\ sized.img.content = s.img.content
        /\ sized.img.width = width /\ sized.img.height = height
    BY <1>1 DEF IsState, StateFields, ImgFields
  <1>3. CASE width * height = 0
    <2>1. t = [sized EXCEPT !.img.raw = NULL]
      BY <1>3 DEF Allocated
    <2> HIDE DEF sized
    <2>2. /\ IsState(t) /\ t.memory = s.memory /\ t.faults = s.faults /\ t.asserted = s.asserted
          /\ t.img.raw = NULL /\ t.img.processed = s.img.processed /\ t.img.content = s.img.content
          /\ t.img.width = width /\ t.img.height = height
      BY <1>2, <2>1 DEF IsState, StateFields, ImgFields
    <2> HIDE DEF t
    <2>3. BufferSet(t.img) = BufferSet(s.img)
      BY <2>2 DEF BufferSet
    <2>4. ImgOK(t.img, t.memory)
      BY <1>1, <2>2 DEF ImgOK, IsState, NULL
    <2>5. Owned(t, others)
      BY <2>2, <2>3, <2>4 DEF Owned
    <2> QED BY <1>3, <2>2, <2>5 DEF t, Kept
  <1>4. CASE width * height # 0
    <2>1. t = [sized EXCEPT !.img.raw = b, !.memory = With(@, b, "new", data)]
      BY <1>4 DEF Allocated
    <2> HIDE DEF sized, b, data, t
    <2>2. /\ IsState(t) /\ t.memory = With(s.memory, b, "new", data)
          /\ t.faults = s.faults /\ t.asserted = s.asserted
          /\ t.img.raw = b /\ t.img.processed = s.img.processed /\ t.img.content = s.img.content
          /\ t.img.width = width /\ t.img.height = height
      BY <1>2, <2>1 DEF IsState, StateFields, ImgFields
    <2>3. b \in Nat \ {NULL} /\ b \notin DOMAIN s.memory
      BY OwnedFinite, Fresh DEF b
    <2>4. /\ DOMAIN t.memory = DOMAIN s.memory \union {b} /\ t.memory[b].by = "new"
          /\ t.memory[b].data = data
          /\ \A a \in DOMAIN s.memory : t.memory[a] = s.memory[a]
      <3> DEFINE new == With(s.memory, b, "new", data)
      <3>1. /\ DOMAIN new = DOMAIN s.memory \union {b} /\ new[b].by = "new" /\ new[b].data = data
            /\ \A a \in DOMAIN s.memory \ {b} : new[a] = s.memory[a]
        BY DEF With
      <3>2. t.memory = new
        BY <2>2
      <3> HIDE DEF new
      <3> QED BY <2>3, <3>1, <3>2
    <2>5. BufferSet(t.img) = BufferSet(s.img) \union {b}
      BY <2>2, <2>3 DEF BufferSet
    <2>6. ImgOK(t.img, t.memory)
      <3>1. s.img.processed # NULL => s.img.processed \in DOMAIN s.memory
        BY DEF Owned, BufferSet
      <3> QED BY <1>1, <2>2, <2>3, <2>4, <3>1 DEF ImgOK, IsState
    <2>7. Owned(t, others)
      <3>1. BufferSet(t.img) \intersect others = {}
        BY <2>3, <2>5 DEF Owned
      <3>2. DOMAIN t.memory = others \union BufferSet(t.img)
        BY <2>4, <2>5 DEF Owned
      <3> QED BY <2>2, <2>6, <3>1, <3>2 DEF Owned
    <2>8. Kept(others, s.memory, t.memory)
      BY <2>4 DEF Kept, Owned
    <2>9. Data(t.memory, t.img.raw) = data
      BY <2>2, <2>4 DEF Data
    <2>10. Data(t.memory, t.img.processed) = Data(s.memory, s.img.processed)
      <3>1. s.img.processed # b
        BY <1>1, <2>3 DEF Owned, BufferSet, NULL
      <3> QED BY <2>2, <2>4, <3>1 DEF Data
    <2> QED BY <1>4, <2>2, <2>3, <2>7, <2>8, <2>9, <2>10 DEF t, data
  <1> QED BY <1>3, <1>4

\* The processed data are allocated in the way of the content type.
LEMMA ProcessOwned ==
  ASSUME NEW s, NEW others, Owned(s, others), s.img.processed = NULL,
         NEW by, by = IF s.img.content = "PNG" THEN "stb" ELSE "new"
  PROVE  LET t == Process(s, by)
         IN  /\ Owned(t, others) /\ Kept(others, s.memory, t.memory)
             /\ t.img.raw = s.img.raw /\ t.img.content = s.img.content
             /\ SamePixels(s, t) /\ t.img.processed # NULL
             /\ Data(t.memory, t.img.processed) =
                  Encoded(s.img.width, s.img.height, Data(s.memory, s.img.raw))
PROOF
  <1> DEFINE b == FreeBuffer(s.memory)
             data == Encoded(s.img.width, s.img.height, Data(s.memory, s.img.raw))
             t == Process(s, by)
  <1>1. IsState(s) /\ ImgOK(s.img, s.memory)
    BY DEF Owned
  <1>2. t = [s EXCEPT !.img.processed = b, !.memory = With(@, b, by, data)]
    BY DEF Process
  <1> HIDE DEF b, data, t
  <1>3. /\ IsState(t) /\ t.memory = With(s.memory, b, by, data)
        /\ t.faults = s.faults /\ t.asserted = s.asserted
        /\ t.img.raw = s.img.raw /\ t.img.processed = b /\ t.img.content = s.img.content
        /\ t.img.width = s.img.width /\ t.img.height = s.img.height
    BY <1>1, <1>2 DEF IsState, StateFields, ImgFields
  <1>4. b \in Nat \ {NULL} /\ b \notin DOMAIN s.memory
    BY OwnedFinite, Fresh DEF b
  <1>5. /\ DOMAIN t.memory = DOMAIN s.memory \union {b} /\ t.memory[b].by = by
        /\ t.memory[b].data = data
        /\ \A a \in DOMAIN s.memory : t.memory[a] = s.memory[a]
    <2> DEFINE new == With(s.memory, b, by, data)
    <2>1. /\ DOMAIN new = DOMAIN s.memory \union {b} /\ new[b].by = by /\ new[b].data = data
          /\ \A a \in DOMAIN s.memory \ {b} : new[a] = s.memory[a]
      BY DEF With
    <2>2. t.memory = new
      BY <1>3
    <2> HIDE DEF new
    <2> QED BY <1>4, <2>1, <2>2
  <1>6. BufferSet(t.img) = BufferSet(s.img) \union {b}
    BY <1>3, <1>4 DEF BufferSet
  <1>7. ImgOK(t.img, t.memory)
    <2>1. s.img.raw # NULL => s.img.raw \in DOMAIN s.memory
      BY DEF Owned, BufferSet
    <2>2. t.img.raw # NULL => t.memory[t.img.raw].by = "new"
      BY <1>1, <1>3, <1>5, <2>1 DEF ImgOK
    <2> QED BY <1>1, <1>3, <1>4, <1>5, <2>2 DEF ImgOK, IsState
  <1>8. Owned(t, others)
    <2>1. BufferSet(t.img) \intersect others = {}
      BY <1>4, <1>6 DEF Owned
    <2>2. DOMAIN t.memory = others \union BufferSet(t.img)
      BY <1>5, <1>6 DEF Owned
    <2> QED BY <1>3, <1>7, <2>1, <2>2 DEF Owned
  <1>9. Kept(others, s.memory, t.memory)
    BY <1>5 DEF Kept, Owned
  <1>10. SamePixels(s, t)
    <2>1. s.img.raw # NULL => s.img.raw \in DOMAIN s.memory
      BY DEF Owned, BufferSet
    <2> QED BY <1>3, <1>5, <2>1 DEF SamePixels
  <1>11. t.img.processed # NULL /\ Data(t.memory, t.img.processed) = data
    BY <1>3, <1>4, <1>5 DEF Data
  <1> QED BY <1>3, <1>8, <1>9, <1>10, <1>11 DEF t, data

\* What is read of the pixels is the same then.
LEMMA SameData ==
  ASSUME NEW s, NEW t, NEW others, Owned(s, others), Owned(t, others), SamePixels(s, t)
  PROVE  Data(t.memory, t.img.raw) = Data(s.memory, s.img.raw)
PROOF
  <1>1. NULL \notin DOMAIN s.memory /\ NULL \notin DOMAIN t.memory
    BY OwnedFinite
  <1>2. CASE s.img.raw = NULL
    BY <1>1, <1>2 DEF SamePixels, Data
  <1>3. CASE s.img.raw # NULL
    <2>1. s.img.raw \in DOMAIN s.memory /\ t.img.raw \in DOMAIN t.memory
      BY <1>3 DEF SamePixels, Owned, BufferSet
    <2> QED BY <1>3, <2>1 DEF SamePixels, Data
  <1> QED BY <1>2, <1>3

\* A conversion frees in the way of the new content type, which is that of the old
\* one, if there is anything to be freed.
LEMMA ConvertedOwned ==
  ASSUME NEW s, NEW others, Owned(s, others), NEW content,
         s.img.processed = NULL \/ s.img.content = content
  PROVE  LET t == ConvertRawImageToContentType(s, content)
         IN  /\ Owned(t, others) /\ Kept(others, s.memory, t.memory)
             /\ t.img.raw = s.img.raw /\ t.img.content = content
             /\ Pictured(s, t)
PROOF
  <1> DEFINE named == [s EXCEPT !.img.content = content]
             u == FreeProcessedData(named)
             t == ConvertRawImageToContentType(s, content)
  <1>1. /\ IsState(named) /\ named.memory = s.memory
        /\ named.faults = s.faults /\ named.asserted = s.asserted
        /\ named.img.raw = s.img.raw /\ named.img.processed = s.img.processed
        /\ named.img.content = content
        /\ named.img.width = s.img.width /\ named.img.height = s.img.height
    BY DEF Owned, IsState, StateFields, ImgFields
  <1> HIDE DEF named
  <1>2. Owned(named, others)
    <2>1. ImgOK(named.img, named.memory)
      BY <1>1 DEF Owned, ImgOK, IsState
    <2>2. BufferSet(named.img) = BufferSet(s.img)
      BY <1>1 DEF BufferSet
    <2> QED BY <1>1, <2>1, <2>2 DEF Owned
  <1>3. /\ Owned(u, others) /\ Kept(others, s.memory, u.memory)
        /\ u.img.raw = s.img.raw /\ u.img.processed = NULL /\ u.img.content = content
        /\ SamePixels(s, u)
    <2>1. SamePixels(named, u)
      BY <1>2, FreeProcessedOwned
    <2>2. SamePixels(s, u)
      <3> HIDE DEF u
      <3> QED BY <1>1, <2>1 DEF SamePixels
    <2> QED BY <1>1, <1>2, <2>2, FreeProcessedOwned
  <1>12. Data(u.memory, u.img.raw) = Data(s.memory, s.img.raw)
    <2> HIDE DEF u
    <2> QED BY <1>3, SameData
  <1>4. t = CASE content = "PNG" /\ u.img.rawDataType \in {"RGBA8", "U32", "U8"} -> Process(u, "stb")
              [] content = "Elevation" -> Process(u, "new")
              [] content \in DOMAIN RawTypes ->
                   IF u.img.rawDataType \in RawTypes[content] THEN [u EXCEPT !.img.processed = u.img.raw] ELSE u
              [] OTHER -> u
    BY DEF ConvertRawImageToContentType, named
  <1> HIDE DEF u, t
  <1>5. content \in DOMAIN RawTypes => content # "PNG" /\ content # "Elevation"
    BY DEF RawTypes
  <1>6. ASSUME t = u, content # "Elevation"
        PROVE  /\ Owned(t, others) /\ Kept(others, s.memory, t.memory)
               /\ t.img.raw = s.img.raw /\ t.img.content = content
               /\ Pictured(s, t)
    BY <1>3, <1>6 DEF Pictured
  <1>7. ASSUME NEW by, by = IF content = "PNG" THEN "stb" ELSE "new", t = Process(u, by)
        PROVE  /\ Owned(t, others) /\ Kept(others, s.memory, t.memory)
               /\ t.img.raw = s.img.raw /\ t.img.content = content
               /\ content \notin DOMAIN RawTypes => Pictured(s, t)
    <2>1. /\ Owned(t, others) /\ Kept(others, u.memory, t.memory)
          /\ t.img.raw = u.img.raw /\ t.img.content = u.img.content
          /\ SamePixels(u, t) /\ t.img.processed # NULL
          /\ Data(t.memory, t.img.processed) =
               Encoded(u.img.width, u.img.height, Data(u.memory, u.img.raw))
      BY <1>3, <1>7, ProcessOwned
    <2>2. SamePixels(s, t)
      BY <1>3, <2>1 DEF SamePixels
    <2>3. Data(t.memory, t.img.processed) =
               Encoded(s.img.width, s.img.height, Data(s.memory, s.img.raw))
      BY <1>3, <1>12, <2>1 DEF SamePixels
    <2>4. content \notin DOMAIN RawTypes => Pictured(s, t)
      BY <1>3, <2>1, <2>2, <2>3 DEF Pictured
    <2> QED BY <1>3, <2>1, <2>4 DEF Kept
  <1>8. ASSUME content # "PNG", content \in DOMAIN RawTypes,
               t = [u EXCEPT !.img.processed = u.img.raw]
        PROVE  /\ Owned(t, others) /\ Kept(others, s.memory, t.memory)
               /\ t.img.raw = s.img.raw /\ t.img.content = content
               /\ Pictured(s, t)
    <2>1. /\ IsState(t) /\ t.memory = u.memory /\ t.faults = u.faults /\ t.asserted = u.asserted
          /\ t.img.raw = u.img.raw /\ t.img.processed = u.img.raw /\ t.img.content = u.img.content
          /\ t.img.width = u.img.width /\ t.img.height = u.img.height
      BY <1>3, <1>8 DEF Owned, IsState, StateFields, ImgFields
    <2>2. BufferSet(t.img) = BufferSet(u.img)
      BY <1>3, <2>1 DEF BufferSet
    <2>3. ImgOK(t.img, t.memory)
      BY <1>3, <1>8, <2>1 DEF Owned, ImgOK, IsState
    <2>4. Owned(t, others)
      BY <1>3, <2>1, <2>2, <2>3 DEF Owned
    <2>5. SamePixels(s, t) /\ Data(t.memory, t.img.processed) = Data(s.memory, s.img.raw)
      BY <1>3, <1>12, <2>1 DEF SamePixels
    <2>6. Pictured(s, t)
      BY <1>3, <1>5, <1>8, <2>1, <2>5 DEF Pictured
    <2> QED BY <1>3, <2>1, <2>4, <2>6
  <1>9. CASE content = "PNG"
    <2>1. t = u \/ t = Process(u, "stb")
      BY <1>4, <1>5, <1>9
    <2> QED BY <1>5, <1>6, <1>7, <1>9, <2>1 DEF t
  <1>10. CASE content = "Elevation"
    <2>1. t = Process(u, "new")
      BY <1>4, <1>5, <1>10
    <2> QED BY <1>5, <1>7, <1>10, <2>1 DEF t
  <1>11. CASE content # "PNG" /\ content # "Elevation"
    <2>1. \/ t = u
          \/ content \in DOMAIN RawTypes /\ t = [u EXCEPT !.img.processed = u.img.raw]
      BY <1>4, <1>11
    <2> QED BY <1>6, <1>8, <1>11, <2>1 DEF t
  <1> QED BY <1>9, <1>10, <1>11 DEF t

\* What is written into the raw buffer leaves it the image's own.
LEMMA WrittenOwned ==
  ASSUME NEW s, NEW others, Owned(s, others), s.img.raw # NULL, NEW data
  PROVE  LET t == [s EXCEPT !.memory = With(@, s.img.raw, "new", data)]
         IN  /\ Owned(t, others) /\ Kept(others, s.memory, t.memory) /\ t.img = s.img
             /\ Data(t.memory, t.img.raw) = data
PROOF
  <1> DEFINE t == [s EXCEPT !.memory = With(@, s.img.raw, "new", data)]
             b == s.img.raw
             new == With(s.memory, b, "new", data)
  <1>1. b \in DOMAIN s.memory /\ b \notin others
    BY DEF Owned, BufferSet
  <1>2. s.memory[b].by = "new"
    BY DEF Owned, ImgOK
  <1>3. /\ DOMAIN new = DOMAIN s.memory /\ \A a \in DOMAIN new : new[a].by = s.memory[a].by
        /\ \A a \in DOMAIN new \ {b} : new[a] = s.memory[a]
        /\ new[b].data = data
    BY <1>1, <1>2 DEF With
  <1>4. /\ IsState(t) /\ t.memory = new /\ t.img = s.img
        /\ t.faults = s.faults /\ t.asserted = s.asserted
    BY DEF Owned, IsState, StateFields
  <1> HIDE DEF new, t
  <1>5. ImgOK(t.img, t.memory)
    <2>1. s.img.processed # NULL => s.img.processed \in DOMAIN s.memory
      BY DEF Owned, BufferSet
    <2> QED BY <1>1, <1>3, <1>4, <2>1 DEF Owned, ImgOK
  <1>6. Owned(t, others)
    BY <1>3, <1>4, <1>5 DEF Owned
  <1>7. Kept(others, s.memory, t.memory)
    BY <1>1, <1>3, <1>4 DEF Kept, Owned
  <1>8. Data(t.memory, t.img.raw) = data
    BY <1>1, <1>3, <1>4 DEF Data
  <1> QED BY <1>4, <1>6, <1>7, <1>8 DEF t

\* Data that are decoded get a buffer of their own.
LEMMA DecodedOwned ==
  ASSUME NEW s, NEW others, Owned(s, others), s.img.raw = NULL
  PROVE  LET t == ConvertContentTypeToRawImage(s)
         IN  /\ Owned(t, others) /\ Kept(others, s.memory, t.memory)
             /\ t.img.content = s.img.content
             /\ ~Decodes(s) => /\ t.img.raw = NULL
                               /\ t.img.width = s.img.width /\ t.img.height = s.img.height
             /\ LET data == Data(s.memory, s.img.processed)
                IN  Decodes(s) =>
                      /\ t.img.width = data[2] /\ t.img.height = data[3]
                      /\ IF data[2] * data[3] = 0 THEN t.img.raw = NULL
                         ELSE /\ t.img.raw # NULL
                              /\ Data(t.memory, t.img.raw) = SubSeq(data, 4, Len(data))
PROOF
  <1> DEFINE u == FreeRawData(s)
             data == Data(u.memory, u.img.processed)
             v == FreeRawData(u)
             sized == Allocated(v, data[2], data[3], "S16")
             t == ConvertContentTypeToRawImage(s)
  <1>1. /\ Owned(u, others) /\ Kept(others, s.memory, u.memory)
        /\ u.img.raw = NULL /\ u.img.content = s.img.content
        /\ u.img.width = s.img.width /\ u.img.height = s.img.height
        /\ data = Data(s.memory, s.img.processed)
    BY FreeRawOwned
  <1>2. \/ ~Decodes(u) /\ t = u
        \/ Decodes(u) /\ sized.img.raw = NULL /\ t = sized
        \/ Decodes(u) /\ sized.img.raw # NULL
           /\ t = [sized EXCEPT !.memory = With(@, sized.img.raw, "new", SubSeq(data, 4, Len(data)))]
    BY DEF ConvertContentTypeToRawImage, AllocateRawData
  <1>7. Decodes(u) <=> Decodes(s)
    BY <1>1 DEF Decodes
  <1> HIDE DEF t, u, data
  <1>3. /\ Owned(v, others) /\ Kept(others, u.memory, v.memory)
        /\ v.img.raw = NULL /\ v.img.content = u.img.content
    BY <1>1, FreeRawOwned
  <1> HIDE DEF v
  <1>4. /\ Owned(sized, others) /\ Kept(others, v.memory, sized.memory)
        /\ sized.img.content = v.img.content
        /\ sized.img.width = data[2] /\ sized.img.height = data[3]
        /\ data[2] * data[3] # 0 => sized.img.raw # NULL
        /\ data[2] * data[3] = 0 => sized.img.raw = NULL
    BY <1>3, AllocatedOwned
  <1> HIDE DEF sized
  <1>5. Kept(others, s.memory, sized.memory)
    BY <1>1, <1>3, <1>4 DEF Kept
  <1>6. CASE Decodes(u) /\ sized.img.raw # NULL
             /\ t = [sized EXCEPT !.memory = With(@, sized.img.raw, "new", SubSeq(data, 4, Len(data)))]
    <2> DEFINE pixels == SubSeq(data, 4, Len(data))
    <2>3. t = [sized EXCEPT !.memory = With(@, sized.img.raw, "new", pixels)]
      BY <1>6
    <2> HIDE DEF pixels
    <2> DEFINE e == [sized EXCEPT !.memory = With(@, sized.img.raw, "new", pixels)]
    <2>4. /\ Owned(e, others) /\ Kept(others, sized.memory, e.memory) /\ e.img = sized.img
          /\ Data(e.memory, e.img.raw) = pixels
      BY <1>4, <1>6, WrittenOwned, Zenon
    <2>5. t = e
      BY <2>3
    <2> HIDE DEF e
    <2>1. /\ Owned(t, others) /\ Kept(others, sized.memory, t.memory) /\ t.img = sized.img
          /\ Data(t.memory, t.img.raw) = pixels
      BY <2>4, <2>5
    <2>2. Kept(others, s.memory, t.memory)
      BY <1>5, <2>1 DEF Kept
    <2> QED BY <1>1, <1>3, <1>4, <1>6, <1>7, <2>1, <2>2 DEF t, pixels
  <1> QED BY <1>1, <1>2, <1>3, <1>4, <1>5, <1>6, <1>7 DEF t

-----------------------------------------------------------------------------
(* All images.                                                             *)

\* the buffers of the other images
Rest(n) == UNION {BufferSet(images[m]) : m \in DOMAIN images \ {n}}

\* The memory is the buffers of the images, and no two of them share one.
Balanced ==
  /\ IsSeq(images)
  /\ IsFiniteSet(DOMAIN memory)
  /\ \A n \in DOMAIN images : ImgOK(images[n], memory)
  /\ \A m, n \in DOMAIN images : m # n => BufferSet(images[m]) \intersect BufferSet(images[n]) = {}
  /\ DOMAIN memory = UNION {BufferSet(images[n]) : n \in DOMAIN images}
  /\ faults = {} /\ asserted \subseteq {NULL}

LEMMA BufferSetIsNat ==
  ASSUME NEW img, NEW mem, ImgOK(img, mem)
  PROVE  BufferSet(img) \subseteq Nat \ {NULL}
PROOF
  BY DEF ImgOK, BufferSet

\* Each image has its part of the memory.
LEMMA StateOwned ==
  ASSUME Balanced, NEW n \in DOMAIN images
  PROVE  Owned(State(images[n]), Rest(n))
PROOF
  <1> DEFINE s == State(images[n])
  <1>1. /\ IsState(s) /\ s.img = images[n] /\ s.memory = memory
        /\ s.faults = faults /\ s.asserted = asserted
    BY DEF State, IsState, StateFields, Balanced, ImgOK
  <1>2. Rest(n) \in SUBSET DOMAIN memory
    BY DEF Rest, Balanced
  <1>3. Rest(n) \subseteq Nat \ {NULL}
    BY BufferSetIsNat DEF Rest, Balanced
  <1>4. BufferSet(images[n]) \intersect Rest(n) = {}
    BY DEF Rest, Balanced
  <1>5. DOMAIN memory = Rest(n) \union BufferSet(images[n])
    BY DEF Rest, Balanced
  <1>6. IsFiniteSet(Rest(n))
    BY <1>2, FS_Subset DEF Balanced
  <1> HIDE DEF s
  <1>7. Owned(s, Rest(n))
    BY <1>1, <1>3, <1>4, <1>5, <1>6 DEF Owned, Balanced
  <1> QED BY <1>7 DEF s

\* The memory is right for a new image.
LEMMA NoneOwned ==
  ASSUME Balanced
  PROVE  Owned(State(NoBuffers), DOMAIN memory)
PROOF
  <1> DEFINE s == State(NoBuffers)
  <1>1. /\ IsState(s) /\ s.img = NoBuffers /\ s.memory = memory
        /\ s.faults = faults /\ s.asserted = asserted
    BY DEF State, IsState, StateFields, ImgFields, NoBuffers
  <1>2. BufferSet(NoBuffers) = {}
    BY DEF BufferSet, NoBuffers
  <1>3. ImgOK(NoBuffers, memory)
    BY DEF ImgOK, ImgFields, NoBuffers, NULL
  <1>4. DOMAIN memory \subseteq Nat \ {NULL}
    BY BufferSetIsNat DEF Balanced
  <1> HIDE DEF s
  <1>5. Owned(s, DOMAIN memory)
    BY <1>1, <1>2, <1>3, <1>4 DEF Owned, Balanced
  <1> QED BY <1>5 DEF s

\* The next memory and images, by the parts of the invariant.
LEMMA BalancedNext ==
  ASSUME IsSeq(images'), IsFiniteSet(DOMAIN memory'),
         \A n \in DOMAIN images' : ImgOK(images'[n], memory'),
         \A m, n \in DOMAIN images' :
           m # n => BufferSet(images'[m]) \intersect BufferSet(images'[n]) = {},
         DOMAIN memory' = UNION {BufferSet(images'[n]) : n \in DOMAIN images'},
         faults' = {}, asserted' \subseteq {NULL}
  PROVE  Balanced'
PROOF
  <1>1. IsSeq(images)'
    BY DEF IsSeq, Elements
  <1>2. \A n \in DOMAIN images' : ImgOK(images[n], memory)'
    BY DEF ImgOK
  <1>3. \A m, n \in DOMAIN images' :
          m # n => (BufferSet(images[m]) \intersect BufferSet(images[n]) = {})'
    BY DEF BufferSet
  <1>4. (DOMAIN memory = UNION {BufferSet(images[n]) : n \in DOMAIN images})'
    BY DEF BufferSet
  <1> QED BY <1>1, <1>2, <1>3, <1>4 DEF Balanced

\* One image changes, with its part of the memory.
LEMMA ChangeBalanced ==
  ASSUME Balanced, NEW n \in DOMAIN images, NEW s, Owned(s, Rest(n)),
         Kept(Rest(n), memory, s.memory), Change(n, s)
  PROVE  /\ Balanced' /\ Len(images') = Len(images) /\ images'[n] = s.img
         /\ DOMAIN images' = DOMAIN images
         /\ \A m \in DOMAIN images \ {n} : images'[m] = images[m]
PROOF
  <1>1. /\ images' = [images EXCEPT ![n] = s.img] /\ memory' = s.memory
        /\ faults' = s.faults /\ asserted' = s.asserted
    BY DEF Change, Becomes
  <1>2. DOMAIN images = 1 .. Len(images) /\ Len(images) \in Nat
    BY IsSeqDomain DEF Balanced
  <1>3. /\ DOMAIN images' = DOMAIN images /\ images'[n] = s.img
        /\ \A m \in DOMAIN images \ {n} : images'[m] = images[m]
    BY <1>1
  <1>4. images' \in [1 .. Len(images) -> {images'[m] : m \in DOMAIN images}]
    BY <1>1, <1>2
  <1>5. IsSeq(images') /\ Len(images') = Len(images)
    BY <1>2, <1>4, CountedIsSeq
  <1>6. ASSUME NEW m \in DOMAIN images'
        PROVE  ImgOK(images'[m], memory')
    <2>1. CASE m = n
      BY <1>1, <1>3, <2>1 DEF Owned
    <2>2. CASE m # n
      <3>1. ImgOK(images[m], memory) /\ BufferSet(images[m]) \subseteq Rest(n)
        BY <1>3, <2>2 DEF Balanced, Rest
      <3>2. \A b \in BufferSet(images[m]) : memory'[b].by = memory[b].by
        BY <1>1, <3>1 DEF Kept
      <3>3. ImgOK(images[m], memory')
        BY <3>1, <3>2 DEF ImgOK, BufferSet
      <3> QED BY <1>3, <2>2, <3>3
    <2> QED BY <2>1, <2>2
  <1>7. ASSUME NEW a \in DOMAIN images', NEW m \in DOMAIN images', a # m
        PROVE  BufferSet(images'[a]) \intersect BufferSet(images'[m]) = {}
    <2>1. \A k \in DOMAIN images \ {n} : BufferSet(images[k]) \subseteq Rest(n)
      BY DEF Rest
    <2>2. BufferSet(s.img) \intersect Rest(n) = {}
      BY DEF Owned
    <2>3. CASE a = n
      BY <1>3, <1>7, <2>1, <2>2, <2>3
    <2>4. CASE m = n
      BY <1>3, <1>7, <2>1, <2>2, <2>4
    <2>5. CASE a # n /\ m # n
      BY <1>3, <1>7, <2>5 DEF Balanced
    <2> QED BY <2>3, <2>4, <2>5
  <1>8. DOMAIN memory' = UNION {BufferSet(images'[m]) : m \in DOMAIN images'}
    <2>1. DOMAIN memory' = Rest(n) \union BufferSet(s.img)
      BY <1>1 DEF Owned
    <2>2. Rest(n) = UNION {BufferSet(images'[m]) : m \in DOMAIN images' \ {n}}
      BY <1>3 DEF Rest
    <2> QED BY <1>3, <2>1, <2>2
  <1>9. IsFiniteSet(DOMAIN memory')
    BY <1>1, OwnedFinite
  <1>10. faults' = {} /\ asserted' \subseteq {NULL}
    BY <1>1 DEF Owned
  <1>11. Balanced'
    BY <1>5, <1>6, <1>7, <1>8, <1>9, <1>10, BalancedNext
  <1> QED BY <1>3, <1>5, <1>11

\* A new image brings its buffers with it.
LEMMA PushBalanced ==
  ASSUME Balanced, NEW s, Owned(s, DOMAIN memory), Kept(DOMAIN memory, memory, s.memory), Push(s)
  PROVE  /\ Balanced' /\ Len(images') = Len(images) + 1
         /\ DOMAIN images' = DOMAIN images \union {Len(images) + 1}
         /\ images'[Len(images) + 1] = s.img
         /\ \A m \in DOMAIN images : images'[m] = images[m]
PROOF
  <1> DEFINE n == Len(images) + 1
  <1>1. /\ images' = Append(images, s.img) /\ memory' = s.memory
        /\ faults' = s.faults /\ asserted' = s.asserted
    BY DEF Push, Becomes
  <1>2. DOMAIN images = 1 .. Len(images) /\ Len(images) \in Nat
    BY IsSeqDomain DEF Balanced
  <1>3. /\ IsSeq(images') /\ Len(images') = n
        /\ DOMAIN images' = DOMAIN images \union {n} /\ images'[n] = s.img
        /\ \A m \in DOMAIN images : images'[m] = images[m]
    BY <1>1, AppendIsSeq DEF Balanced
  <1>4. \A m \in DOMAIN images : m # n /\ BufferSet(images[m]) \subseteq DOMAIN memory
    BY <1>2 DEF Balanced
  <1>5. ASSUME NEW m \in DOMAIN images'
        PROVE  ImgOK(images'[m], memory')
    <2>1. CASE m = n
      BY <1>1, <1>3, <2>1 DEF Owned
    <2>2. CASE m \in DOMAIN images
      <3>1. ImgOK(images[m], memory)
        BY <2>2 DEF Balanced
      <3>2. \A b \in BufferSet(images[m]) : memory'[b].by = memory[b].by
        BY <1>1, <1>4, <2>2 DEF Kept
      <3>3. ImgOK(images[m], memory')
        BY <3>1, <3>2 DEF ImgOK, BufferSet
      <3> QED BY <1>3, <2>2, <3>3
    <2> QED BY <1>3, <2>1, <2>2
  <1>6. ASSUME NEW a \in DOMAIN images', NEW m \in DOMAIN images', a # m
        PROVE  BufferSet(images'[a]) \intersect BufferSet(images'[m]) = {}
    <2>1. BufferSet(s.img) \intersect DOMAIN memory = {}
      BY DEF Owned
    <2>2. CASE a = n
      BY <1>3, <1>4, <1>6, <2>1, <2>2
    <2>3. CASE m = n
      BY <1>3, <1>4, <1>6, <2>1, <2>3
    <2>4. CASE a # n /\ m # n
      BY <1>3, <1>6, <2>4 DEF Balanced
    <2> QED BY <2>2, <2>3, <2>4
  <1>7. DOMAIN memory' = UNION {BufferSet(images'[m]) : m \in DOMAIN images'}
    <2>1. DOMAIN memory' = DOMAIN memory \union BufferSet(s.img)
      BY <1>1 DEF Owned
    <2>2. DOMAIN memory = UNION {BufferSet(images'[m]) : m \in DOMAIN images}
      BY <1>3 DEF Balanced
    <2> QED BY <1>3, <2>1, <2>2
  <1>8. IsFiniteSet(DOMAIN memory')
    BY <1>1, OwnedFinite
  <1>9. faults' = {} /\ asserted' \subseteq {NULL}
    BY <1>1 DEF Owned
  <1>10. Balanced'
    BY <1>3, <1>5, <1>6, <1>7, <1>8, <1>9, BalancedNext
  <1> QED BY <1>3, <1>10

\* The last image goes, and its buffers with it.
LEMMA PopBalanced ==
  ASSUME Balanced, Len(images) >= 1, Pop(Destroyed(State(TopImage)))
  PROVE  /\ Balanced' /\ Len(images') = Len(images) - 1
         /\ DOMAIN images' = DOMAIN images \ {Len(images)}
         /\ \A m \in DOMAIN images' : images'[m] = images[m]
PROOF
  <1> DEFINE n == Len(images)
             s == Destroyed(State(TopImage))
  <1>1. /\ images' = SubSeq(images, 1, n - 1) /\ memory' = s.memory
        /\ faults' = s.faults /\ asserted' = s.asserted
    BY DEF Pop, Becomes, Front
  <1>2. DOMAIN images = 1 .. Len(images) /\ n \in DOMAIN images
    BY IsSeqDomain DEF Balanced
  <1>3. /\ DOMAIN s.memory = Rest(n) /\ Kept(Rest(n), memory, s.memory)
        /\ s.faults = {} /\ s.asserted \subseteq {NULL}
    <2>1. Owned(State(TopImage), Rest(n))
      BY <1>2, StateOwned DEF TopImage, Top
    <2>2. State(TopImage).memory = memory
      BY DEF State
    <2> QED BY <2>1, <2>2, DestroyedOwned
  <1> HIDE DEF s
  <1>4. /\ IsSeq(images') /\ Len(images') = n - 1
        /\ DOMAIN images' = DOMAIN images \ {n}
        /\ \A m \in DOMAIN images' : images'[m] = images[m]
    BY <1>1, FrontIsSeq DEF Balanced
  <1>5. ASSUME NEW m \in DOMAIN images'
        PROVE  ImgOK(images'[m], memory')
    <2>1. ImgOK(images[m], memory) /\ BufferSet(images[m]) \subseteq Rest(n)
      BY <1>4 DEF Balanced, Rest
    <2>2. \A b \in BufferSet(images[m]) : memory'[b].by = memory[b].by
      BY <1>1, <1>3, <2>1 DEF Kept
    <2>3. ImgOK(images[m], memory')
      BY <2>1, <2>2 DEF ImgOK, BufferSet
    <2> QED BY <1>4, <2>3
  <1>6. \A a, m \in DOMAIN images' :
          a # m => BufferSet(images'[a]) \intersect BufferSet(images'[m]) = {}
    BY <1>4 DEF Balanced
  <1>7. DOMAIN memory' = UNION {BufferSet(images'[m]) : m \in DOMAIN images'}
    BY <1>1, <1>3, <1>4 DEF Rest
  <1>8. IsFiniteSet(DOMAIN memory')
    <2>1. Rest(n) \in SUBSET DOMAIN memory
      BY DEF Rest, Balanced
    <2> QED BY <1>1, <1>3, <2>1, FS_Subset DEF Balanced
  <1>9. Balanced'
    BY <1>1, <1>3, <1>4, <1>5, <1>6, <1>7, <1>8, BalancedNext
  <1> QED BY <1>4, <1>9

\* Pixels are written into a raw buffer.
LEMMA FillBalanced ==
  ASSUME Balanced, NEW n \in DOMAIN images, images[n].raw # NULL, NEW pixels, Fill(n, pixels)
  PROVE  Balanced' /\ images' = images
PROOF
  <1>1. /\ memory' = With(memory, images[n].raw, "new", pixels)
        /\ images' = images /\ faults' = faults /\ asserted' = asserted
    BY DEF Fill
  <1>2. images[n].raw \in BufferSet(images[n]) /\ memory[images[n].raw].by = "new"
    BY DEF Balanced, BufferSet, ImgOK
  <1>3. images[n].raw \in DOMAIN memory
    BY <1>2 DEF Balanced
  <1>4. DOMAIN memory' = DOMAIN memory /\ \A b \in DOMAIN memory : memory'[b].by = memory[b].by
    BY <1>1, <1>2, <1>3 DEF With
  <1>5. ASSUME NEW m \in DOMAIN images'
        PROVE  ImgOK(images'[m], memory')
    <2>1. ImgOK(images[m], memory) /\ BufferSet(images[m]) \subseteq DOMAIN memory
      BY <1>1 DEF Balanced
    <2>2. ImgOK(images[m], memory')
      BY <1>4, <2>1 DEF ImgOK, BufferSet
    <2> QED BY <1>1, <2>2
  <1> QED BY <1>1, <1>4, <1>5, BalancedNext DEF Balanced

-----------------------------------------------------------------------------
(* New images.                                                             *)

LEMMA NewImage ==
  ASSUME Balanced, NEW width, NEW height, NEW type
  PROVE  LET s == Image(width, height, type)
         IN  /\ Owned(s, DOMAIN memory) /\ Kept(DOMAIN memory, memory, s.memory)
             /\ s.img.processed = NULL
             /\ s.img.width = width /\ s.img.height = height
             /\ IF width * height = 0 THEN s.img.raw = NULL
                ELSE /\ s.img.raw # NULL
                     /\ Data(s.memory, s.img.raw) = Filled(width * height, Garbage)
PROOF
  <1> DEFINE u == State(NoBuffers)
             s == Allocated(u, width, height, type)
  <1>1. Owned(u, DOMAIN memory)
    BY NoneOwned
  <1>2. u.memory = memory /\ u.img.raw = NULL /\ u.img.processed = NULL
    BY DEF State, NoBuffers
  <1> HIDE DEF u
  <1>3. /\ Owned(s, DOMAIN memory) /\ Kept(DOMAIN memory, u.memory, s.memory)
        /\ s.img.processed = u.img.processed
        /\ s.img.width = width /\ s.img.height = height
        /\ IF width * height = 0 THEN s.img.raw = NULL
           ELSE /\ s.img.raw # NULL
                /\ Data(s.memory, s.img.raw) = Filled(width * height, Garbage)
    BY <1>1, <1>2, AllocatedOwned
  <1> HIDE DEF s
  <1>4. s = Image(width, height, type)
    BY DEF s, u, Image
  <1> QED BY <1>2, <1>3, <1>4

\* An image of a file that was read has no pixels yet.
LEMMA NewImageOf ==
  ASSUME Balanced, NEW data
  PROVE  LET s == ImageOf(data, "Elevation")
         IN  /\ Owned(s, DOMAIN memory) /\ Kept(DOMAIN memory, memory, s.memory)
             /\ s.img.raw = NULL /\ s.img.content = "Elevation"
             /\ s.img.width = 0 /\ s.img.height = 0
             /\ Data(s.memory, s.img.processed) = data
PROOF
  <1> DEFINE b == FreeBuffer(memory)
             img == [NoBuffers EXCEPT !.processed = b, !.content = "Elevation"]
             s == ImageOf(data, "Elevation")
             new == With(memory, b, "new", data)
  <1>1. b \in Nat \ {NULL} /\ b \notin DOMAIN memory
    BY Fresh DEF Balanced
  <1>2. s = [State(img) EXCEPT !.memory = With(@, b, "new", data)]
    BY DEF ImageOf
  <1> HIDE DEF b
  <1>3. /\ DOMAIN img = ImgFields /\ img.raw = NULL /\ img.processed = b
        /\ img.content = "Elevation" /\ img.width = 0 /\ img.height = 0
    BY DEF NoBuffers, ImgFields
  <1> HIDE DEF img, s
  <1>4. /\ IsState(s) /\ s.img = img /\ s.memory = new
        /\ s.faults = faults /\ s.asserted = asserted
    BY <1>2, <1>3 DEF State, IsState, StateFields
  <1>5. /\ DOMAIN new = DOMAIN memory \union {b} /\ new[b].by = "new" /\ new[b].data = data
        /\ \A a \in DOMAIN memory : new[a] = memory[a]
    BY <1>1 DEF With
  <1> HIDE DEF new
  <1>6. BufferSet(img) = {b}
    BY <1>1, <1>3 DEF BufferSet
  <1>7. ImgOK(img, new)
    BY <1>1, <1>3, <1>5 DEF ImgOK, NULL
  <1>8. DOMAIN memory \subseteq Nat \ {NULL}
    BY BufferSetIsNat DEF Balanced
  <1>9. Owned(s, DOMAIN memory)
    BY <1>1, <1>4, <1>5, <1>6, <1>7, <1>8 DEF Owned, Balanced
  <1>10. Kept(DOMAIN memory, memory, s.memory)
    BY <1>4, <1>5 DEF Kept
  <1>11. Data(s.memory, s.img.processed) = data
    BY <1>3, <1>4, <1>5 DEF Data
  <1> QED BY <1>3, <1>4, <1>9, <1>10, <1>11 DEF s

-----------------------------------------------------------------------------
(* The images on the stack, and what is known of them.                     *)

\* While tiles are stored or read, images are converted to one content type only.
Elevated == \A n \in DOMAIN images : images[n].processed = NULL \/ images[n].content = "Elevation"

Shape ==
  \/ pc = "idle" /\ Len(images) = 0
  \/ /\ pc \in {"render", "convert"} /\ Len(images) = 1
     /\ images[1].raw # NULL /\ images[1].processed = NULL
  \/ pc \in {"reply", "leave"} /\ Len(images) = 1
  \/ /\ Elevated
     /\ \/ pc \in {"next tile", "higher level"} /\ Len(images) = 1
        \/ pc \in {"request", "store", "sub-tile"} /\ Len(images) = 2 /\ images[2].raw # NULL
        \/ pc = "leave tile" /\ Len(images) = 2
        \/ pc \in {"copy", "leave sub-tile"} /\ Len(images) = 3 /\ images[2].raw # NULL
        \/ /\ pc = "loaded" /\ Len(images) = 3 /\ images[2].raw # NULL
           /\ images[3].raw = NULL /\ images[3].content = "Elevation"
        \/ pc = "store mip" /\ Len(images) = 3
        \/ pc = "leave mip" /\ Len(images) \in 1 .. 3

IInv == Balanced /\ Shape

\* The pixels of a tile are more than none.
LEMMA TileHasPixels ==
  /\ TileWidth * TileHeight # 0
  /\ (2 * TileWidth) * (2 * TileHeight) # 0
PROOF
  <1>1. TileWidth * TileHeight >= 1
    BY ImageAssumption
  <1>2. (2 * TileWidth) * (2 * TileHeight) >= 1
    BY ImageAssumption
  <1> QED BY <1>1, <1>2

LEMMA StackDomain ==
  ASSUME Balanced
  PROVE  DOMAIN images = 1 .. Len(images) /\ Len(images) \in Nat
PROOF
  BY IsSeqDomain DEF Balanced

LEMMA AnswerSteps ==
  ASSUME IInv, BeginAnswer \/ Render \/ LayerFails \/ Convert \/ Reply \/ Leave
  PROVE  IInv'
PROOF
  <1>1. Balanced /\ DOMAIN images = 1 .. Len(images) /\ Len(images) \in Nat
    BY StackDomain DEF IInv
  <1>2. CASE BeginAnswer
    <2> DEFINE s == Image(TileWidth, TileHeight, format'.type)
    <2>1. pc = "idle" /\ pc' = "render" /\ Push(s) /\ Len(images) = 0
      BY <1>2 DEF BeginAnswer, GoTo, IInv, Shape
    <2>2. /\ Owned(s, DOMAIN memory) /\ Kept(DOMAIN memory, memory, s.memory)
          /\ s.img.processed = NULL /\ s.img.raw # NULL
      BY <1>1, NewImage, TileHasPixels
    <2> HIDE DEF s
    <2>3. Balanced' /\ Len(images') = 1 /\ images'[1] = s.img
      BY <1>1, <2>1, <2>2, PushBalanced
    <2> QED BY <2>1, <2>2, <2>3 DEF IInv, Shape
  <1>3. CASE Render
    <2>1. /\ pc = "render" /\ pc' = "convert" /\ Len(images) = 1
          /\ images[1].raw # NULL /\ images[1].processed = NULL
          /\ Fill(1, shown')
      BY <1>3 DEF Render, GoTo, IInv, Shape, Top
    <2>2. Balanced' /\ images' = images
      BY <1>1, <2>1, FillBalanced
    <2> QED BY <2>1, <2>2 DEF IInv, Shape
  <1>4. CASE LayerFails \/ Reply
    <2>1. UNCHANGED <<memory, images, faults, asserted>>
      BY <1>4 DEF LayerFails, Reply
    <2>2. Balanced'
      BY <1>1, <2>1, BalancedNext DEF Balanced
    <2>3. Len(images) = 1 /\ pc' = "leave"
      BY <1>4 DEF LayerFails, Reply, GoTo, IInv, Shape
    <2> QED BY <2>1, <2>2, <2>3 DEF IInv, Shape
  <1>5. CASE Convert
    <2> DEFINE s == ConvertRawImageToContentType(State(images[1]), format.content)
    <2>1. /\ pc = "convert" /\ pc' = "reply" /\ Len(images) = 1
          /\ images[1].processed = NULL /\ Change(1, s)
      BY <1>5 DEF Convert, GoTo, IInv, Shape, Top, TopImage
    <2>2. Owned(State(images[1]), Rest(1)) /\ 1 \in DOMAIN images
      BY <1>1, <2>1, StateOwned
    <2>3. State(images[1]).img = images[1] /\ State(images[1]).memory = memory
      BY DEF State
    <2>4. Owned(s, Rest(1)) /\ Kept(Rest(1), memory, s.memory)
      BY <2>1, <2>2, <2>3, ConvertedOwned
    <2> HIDE DEF s
    <2>5. Balanced' /\ Len(images') = 1
      BY <1>1, <2>1, <2>2, <2>4, ChangeBalanced
    <2> QED BY <2>1, <2>5 DEF IInv, Shape
  <1>6. CASE Leave
    <2>1. pc' = "idle" /\ Len(images) = 1 /\ Pop(Destroyed(State(TopImage)))
      BY <1>6 DEF Leave, GoTo, IInv, Shape
    <2>2. Balanced' /\ Len(images') = 0
      BY <1>1, <2>1, PopBalanced
    <2> QED BY <2>1, <2>2 DEF IInv, Shape
  <1> QED BY <1>2, <1>3, <1>4, <1>5, <1>6

\* An image that is stored is converted to the content type of all.
LEMMA StoreBalanced ==
  ASSUME Balanced, Elevated, NEW n \in DOMAIN images, Change(n, Stored(n))
  PROVE  /\ Balanced' /\ Elevated' /\ Len(images') = Len(images)
         /\ DOMAIN images' = DOMAIN images
         /\ \A m \in DOMAIN images : images'[m].raw = images[m].raw
PROOF
  <1> DEFINE s == Stored(n)
  <1>1. Owned(State(images[n]), Rest(n))
    BY StateOwned
  <1>2. State(images[n]).img = images[n] /\ State(images[n]).memory = memory
    BY DEF State
  <1>3. images[n].processed = NULL \/ images[n].content = "Elevation"
    BY DEF Elevated
  <1>4. /\ Owned(s, Rest(n)) /\ Kept(Rest(n), memory, s.memory)
        /\ s.img.raw = images[n].raw /\ s.img.content = "Elevation"
    BY <1>1, <1>2, <1>3, ConvertedOwned DEF Stored
  <1> HIDE DEF s
  <1>5. /\ Balanced' /\ Len(images') = Len(images) /\ images'[n] = s.img
        /\ DOMAIN images' = DOMAIN images
        /\ \A m \in DOMAIN images \ {n} : images'[m] = images[m]
    BY <1>4, ChangeBalanced DEF s
  <1> QED BY <1>4, <1>5 DEF Elevated

\* A new image has not been converted, or holds an elevation.
LEMMA PushElevated ==
  ASSUME Balanced, Elevated \/ Len(images) = 0, NEW s,
         Owned(s, DOMAIN memory), Kept(DOMAIN memory, memory, s.memory), Push(s),
         s.img.processed = NULL \/ s.img.content = "Elevation"
  PROVE  /\ Balanced' /\ Elevated' /\ Len(images') = Len(images) + 1
         /\ images'[Len(images) + 1] = s.img
         /\ \A m \in DOMAIN images : images'[m] = images[m]
PROOF
  <1>1. DOMAIN images = 1 .. Len(images) /\ Len(images) \in Nat
    BY StackDomain
  <1>2. /\ Balanced' /\ Len(images') = Len(images) + 1
        /\ DOMAIN images' = DOMAIN images \union {Len(images) + 1}
        /\ images'[Len(images) + 1] = s.img
        /\ \A m \in DOMAIN images : images'[m] = images[m]
    BY PushBalanced
  <1> QED BY <1>1, <1>2 DEF Elevated

LEMMA PopElevated ==
  ASSUME Balanced, Elevated, Len(images) >= 1, Pop(Destroyed(State(TopImage)))
  PROVE  /\ Balanced' /\ Elevated' /\ Len(images') = Len(images) - 1
         /\ \A m \in DOMAIN images' : images'[m] = images[m]
PROOF
  BY PopBalanced DEF Elevated

LEMMA SameBalanced ==
  ASSUME Balanced, UNCHANGED <<memory, images, faults, asserted>>
  PROVE  Balanced' /\ Elevated' = Elevated /\ images' = images
PROOF
  BY BalancedNext DEF Balanced, Elevated

\* One of the images on the stack is stored.
LEMMA ToStoreThere ==
  ASSUME Balanced, Len(images) >= 1
  PROVE  ToStore \in DOMAIN images
PROOF
  <1>1. 1 \in DOMAIN images /\ Len(images) \in DOMAIN images
    BY StackDomain
  <1> QED BY <1>1 DEF ToStore, Top

\* How many images there are before and after one is destroyed.
LEMMA Heights ==
  /\ 2 - 1 = 1 /\ 1 - 1 = 0 /\ 3 \in 1 .. 3
  /\ \A k \in 1 .. 3 : k >= 1 /\ (k # 1 => k - 1 \in 1 .. 3)
PROOF
  OBVIOUS

LEMMA AfterStoring ==
  ASSUME Balanced', Elevated', pc' = "leave mip", Len(images') = 3
  PROVE  IInv'
PROOF
  <1>1. Len(images') \in 1 .. 3
    BY Heights, Zenon
  <1> QED BY <1>1, Zenon DEF IInv, Shape

LEMMA FetchSteps ==
  ASSUME IInv,
         BeginFetching \/ BeginTile \/ ReadShort \/ ReadTile \/ StoreFetched \/ StoreFetchedFails
           \/ LeaveTile \/ EndFetching
  PROVE  IInv'
PROOF
  <1>1. Balanced /\ DOMAIN images = 1 .. Len(images) /\ Len(images) \in Nat
    BY StackDomain DEF IInv
  <1>2. CASE BeginFetching
    <2> DEFINE s == Image(0, 0, "S16")
    <2>1. pc = "idle" /\ pc' = "next tile" /\ Push(s) /\ Len(images) = 0
      BY <1>2 DEF BeginFetching, GoTo, IInv, Shape
    <2>2. Owned(s, DOMAIN memory) /\ Kept(DOMAIN memory, memory, s.memory) /\ s.img.processed = NULL
      BY <1>1, NewImage
    <2> HIDE DEF s
    <2>3. Balanced' /\ Elevated' /\ Len(images') = Len(images) + 1
      BY <1>1, <2>1, <2>2, PushElevated
    <2>4. Len(images') = 1
      <3>1. Len(images) = 0 /\ Len(images') = Len(images) + 1
        BY <2>1, <2>3
      <3> QED BY <3>1
    <2> QED BY <2>1, <2>3, <2>4 DEF IInv, Shape
  <1>3. CASE BeginTile
    <2> DEFINE s == Image(TileWidth, TileHeight, "S16")
    <2>1. Elevated /\ pc' = "request" /\ Push(s) /\ Len(images) = 1
      BY <1>3 DEF BeginTile, GoTo, IInv, Shape
    <2>2. /\ Owned(s, DOMAIN memory) /\ Kept(DOMAIN memory, memory, s.memory)
          /\ s.img.processed = NULL /\ s.img.raw # NULL
      BY <1>1, NewImage, TileHasPixels
    <2> HIDE DEF s
    <2>3. Balanced' /\ Elevated' /\ Len(images') = 2 /\ images'[2] = s.img
      BY <1>1, <2>1, <2>2, PushElevated
    <2> QED BY <2>1, <2>2, <2>3 DEF IInv, Shape
  <1>4. CASE ReadShort \/ ReadTile
    <2>1. Elevated /\ pc' \in {"request", "store"} /\ Len(images) = 2 /\ images[2].raw # NULL
      BY <1>4 DEF ReadShort, ReadTile, GoTo, IInv, Shape
    <2>2. PICK pixels : Fill(2, pixels)
      BY <1>4, <2>1 DEF ReadShort, ReadTile, Read, Top
    <2>3. Balanced' /\ images' = images
      BY <1>1, <2>1, <2>2, FillBalanced
    <2>4. Elevated'
      BY <2>1, <2>3 DEF Elevated
    <2> QED BY <2>1, <2>3, <2>4 DEF IInv, Shape
  <1>5. CASE StoreFetched \/ StoreFetchedFails
    <2>1. Elevated /\ Len(images) = 2 /\ images[2].raw # NULL
      BY <1>5 DEF StoreFetched, StoreFetchedFails, GoTo, IInv, Shape
    <2>0. ToStore \in DOMAIN images /\ 2 \in DOMAIN images
      BY <1>1, <2>1, ToStoreThere
    <2>2. pc' \in {"leave tile", "request"}
      BY <1>5 DEF StoreFetched, StoreFetchedFails, GoTo
    <2>3. UNCHANGED <<memory, images, faults, asserted>> \/ Change(ToStore, Stored(ToStore))
      BY <1>5 DEF StoreFetched, StoreFetchedFails
    <2>4. CASE UNCHANGED <<memory, images, faults, asserted>>
      <3>1. Balanced' /\ Elevated' /\ Len(images') = 2 /\ images'[2].raw # NULL
        BY <1>1, <2>1, <2>4, SameBalanced
      <3> QED BY <2>2, <3>1 DEF IInv, Shape
    <2>5. CASE Change(ToStore, Stored(ToStore))
      <3>1. /\ Balanced' /\ Elevated' /\ Len(images') = 2
            /\ \A m \in DOMAIN images : images'[m].raw = images[m].raw
        BY <1>1, <2>0, <2>1, <2>5, StoreBalanced
      <3>2. images'[2].raw # NULL
        BY <2>0, <2>1, <3>1
      <3> QED BY <2>2, <3>1, <3>2 DEF IInv, Shape
    <2> QED BY <2>3, <2>4, <2>5
  <1>6. CASE LeaveTile \/ EndFetching
    <2>1. /\ Elevated /\ Pop(Destroyed(State(TopImage)))
          /\ \/ pc' = "next tile" /\ Len(images) = 2
             \/ pc' = "idle" /\ Len(images) = 1
      BY <1>6 DEF LeaveTile, EndFetching, GoTo, IInv, Shape
    <2>2. Len(images) >= 1
      <3>1. Len(images) = 2 \/ Len(images) = 1
        BY <2>1
      <3> QED BY <3>1
    <2>3. Balanced' /\ Elevated' /\ Len(images') = Len(images) - 1
      BY <1>1, <2>1, <2>2, PopElevated
    <2>4. \/ pc' = "next tile" /\ Len(images') = 1
          \/ pc' = "idle" /\ Len(images') = 0
      <3>1. /\ \/ pc' = "next tile" /\ Len(images) = 2
               \/ pc' = "idle" /\ Len(images) = 1
            /\ Len(images') = Len(images) - 1
        BY <2>1, <2>3
      <3> QED BY <3>1, Heights, Zenon
    <2> QED BY <2>3, <2>4 DEF IInv, Shape
  <1> QED BY <1>2, <1>3, <1>4, <1>5, <1>6

LEMMA MipSteps ==
  ASSUME IInv,
         BeginMip \/ BeginHigherLevel \/ SkipSubTile \/ LoadSubTile \/ LoadFails \/ ConvertSubTile
           \/ CopySubTile \/ LeaveSubTile \/ Sample \/ StoreMip \/ StoreMipFails \/ LeaveMip
  PROVE  IInv'
PROOF
  <1>1. Balanced /\ DOMAIN images = 1 .. Len(images) /\ Len(images) \in Nat
    BY StackDomain DEF IInv
  <1>2. CASE BeginMip
    <2> DEFINE s == Image(0, 0, "S16")
    <2>1. pc = "idle" /\ pc' = "higher level" /\ Push(s) /\ Len(images) = 0
      BY <1>2 DEF BeginMip, GoTo, IInv, Shape
    <2>2. Owned(s, DOMAIN memory) /\ Kept(DOMAIN memory, memory, s.memory) /\ s.img.processed = NULL
      BY <1>1, NewImage
    <2> HIDE DEF s
    <2>3. Balanced' /\ Elevated' /\ Len(images') = Len(images) + 1
      BY <1>1, <2>1, <2>2, PushElevated
    <2>4. Len(images') = 1
      <3>1. Len(images) = 0 /\ Len(images') = Len(images) + 1
        BY <2>1, <2>3
      <3> QED BY <3>1
    <2> QED BY <2>1, <2>3, <2>4 DEF IInv, Shape
  <1>3. ASSUME NEW width, NEW height, width * height # 0, NEW data,
               LET s == Image(width, height, "S16")
               IN  Push([s EXCEPT !.memory = With(@, s.img.raw, "new", data)]),
               Elevated
        PROVE  /\ Balanced' /\ Elevated' /\ Len(images') = Len(images) + 1
               /\ images'[Len(images) + 1].raw # NULL
               /\ \A m \in DOMAIN images : images'[m] = images[m]
    <2> DEFINE s == Image(width, height, "S16")
               t == [s EXCEPT !.memory = With(@, s.img.raw, "new", data)]
    <2>1. /\ Owned(s, DOMAIN memory) /\ Kept(DOMAIN memory, memory, s.memory)
          /\ s.img.processed = NULL /\ s.img.raw # NULL
      BY <1>1, <1>3, NewImage
    <2>2. Push(t)
      BY <1>3
    <2> HIDE DEF s
    <2>3. Owned(t, DOMAIN memory) /\ Kept(DOMAIN memory, s.memory, t.memory) /\ t.img = s.img
      BY <2>1, WrittenOwned
    <2> HIDE DEF t
    <2>4. Kept(DOMAIN memory, memory, t.memory)
      BY <2>1, <2>3 DEF Kept
    <2>5. /\ Balanced' /\ Elevated' /\ Len(images') = Len(images) + 1
          /\ images'[Len(images) + 1] = t.img
          /\ \A m \in DOMAIN images : images'[m] = images[m]
      BY <1>1, <1>3, <2>1, <2>2, <2>3, <2>4, PushElevated
    <2> QED BY <2>1, <2>3, <2>5
  <1>4. CASE BeginHigherLevel
    <2>1. Elevated /\ pc' = "sub-tile" /\ Len(images) = 1
      BY <1>4 DEF BeginHigherLevel, GoTo, IInv, Shape
    <2>2. LET s == Image(2 * TileWidth, 2 * TileHeight, "S16")
          IN  Push([s EXCEPT !.memory = With(@, s.img.raw, "new", Filled(4 * TilePixels, Invalid))])
      BY <1>4 DEF BeginHigherLevel
    <2>3. Balanced' /\ Elevated' /\ Len(images') = 2 /\ images'[2].raw # NULL
      BY <1>3, <2>1, <2>2, TileHasPixels
    <2> QED BY <2>1, <2>3 DEF IInv, Shape
  <1>5. CASE Sample
    <2>1. Elevated /\ pc' = "store mip" /\ Len(images) = 2
      BY <1>5 DEF Sample, GoTo, IInv, Shape
    <2>2. PICK pixels : LET s == Image(TileWidth, TileHeight, "S16")
                        IN  Push([s EXCEPT !.memory = With(@, s.img.raw, "new", pixels)])
      BY <1>5 DEF Sample
    <2>3. Balanced' /\ Elevated' /\ Len(images') = Len(images) + 1
      BY <1>3, <2>1, <2>2, TileHasPixels
    <2>4. Len(images') = 3
      <3>1. Len(images) = 2 /\ Len(images') = Len(images) + 1
        BY <2>1, <2>3
      <3> QED BY <3>1
    <2> QED BY <2>1, <2>3, <2>4 DEF IInv, Shape
  <1>6. CASE SkipSubTile \/ LoadFails
    <2>1. /\ Elevated /\ pc' = "sub-tile" /\ Len(images) = 2 /\ images[2].raw # NULL
          /\ UNCHANGED <<memory, images, faults, asserted>>
      BY <1>6 DEF SkipSubTile, LoadFails, GoTo, IInv, Shape
    <2>2. Balanced' /\ Elevated' /\ Len(images') = 2 /\ images'[2].raw # NULL
      BY <1>1, <2>1, SameBalanced
    <2> QED BY <2>1, <2>2 DEF IInv, Shape
  <1>7. CASE LoadSubTile
    <2>1. Elevated /\ pc' = "loaded" /\ Len(images) = 2 /\ images[2].raw # NULL
      BY <1>7 DEF LoadSubTile, GoTo, IInv, Shape
    <2>2. PICK data : Push(ImageOf(data, "Elevation"))
      BY <1>7 DEF LoadSubTile
    <2> DEFINE s == ImageOf(data, "Elevation")
    <2>3. /\ Owned(s, DOMAIN memory) /\ Kept(DOMAIN memory, memory, s.memory)
          /\ s.img.raw = NULL /\ s.img.content = "Elevation"
      BY <1>1, NewImageOf
    <2>4. Push(s)
      BY <2>2
    <2> HIDE DEF s
    <2>5. /\ Balanced' /\ Elevated' /\ Len(images') = Len(images) + 1
          /\ images'[Len(images) + 1] = s.img
          /\ \A m \in DOMAIN images : images'[m] = images[m]
      BY <1>1, <2>1, <2>3, <2>4, PushElevated
    <2>6. /\ Len(images') = 3 /\ images'[2].raw # NULL
          /\ images'[3].raw = NULL /\ images'[3].content = "Elevation"
      BY <1>1, <2>1, <2>3, <2>5
    <2> QED BY <2>1, <2>5, <2>6 DEF IInv, Shape
  <1>8. CASE ConvertSubTile
    <2> DEFINE s == ConvertContentTypeToRawImage(State(images[3]))
    <2>1. /\ Elevated /\ pc' = "copy" /\ Len(images) = 3 /\ images[2].raw # NULL
          /\ images[3].raw = NULL /\ images[3].content = "Elevation" /\ Change(3, s)
      BY <1>8 DEF ConvertSubTile, GoTo, IInv, Shape, Top, TopImage
    <2>2. Owned(State(images[3]), Rest(3)) /\ 3 \in DOMAIN images
      BY <1>1, <2>1, StateOwned
    <2>3. State(images[3]).img = images[3] /\ State(images[3]).memory = memory
      BY DEF State
    <2>4. Owned(s, Rest(3)) /\ Kept(Rest(3), memory, s.memory) /\ s.img.content = images[3].content
      BY <2>1, <2>2, <2>3, DecodedOwned
    <2> HIDE DEF s
    <2>5. /\ Balanced' /\ Len(images') = 3 /\ images'[3] = s.img /\ DOMAIN images' = DOMAIN images
          /\ \A m \in DOMAIN images \ {3} : images'[m] = images[m]
      BY <1>1, <2>1, <2>2, <2>4, ChangeBalanced
    <2>6. images'[3].content = "Elevation"
      BY <2>1, <2>4, <2>5
    <2>7. Elevated'
      <3>1. \A m \in DOMAIN images : images[m].processed = NULL \/ images[m].content = "Elevation"
        BY <2>1 DEF Elevated
      <3>2. \A m \in DOMAIN images' : images'[m].processed = NULL \/ images'[m].content = "Elevation"
        BY <2>5, <2>6, <3>1, Zenon
      <3> QED BY <3>2, Zenon DEF Elevated
    <2>8. images'[2].raw # NULL
      BY <1>1, <2>1, <2>5
    <2> QED BY <2>1, <2>5, <2>7, <2>8, Zenon DEF IInv, Shape
  <1>9. CASE CopySubTile
    <2>1. Elevated /\ pc' = "leave sub-tile" /\ Len(images) = 3 /\ images[2].raw # NULL
      BY <1>9 DEF CopySubTile, GoTo, IInv, Shape
    <2>2. UNCHANGED <<memory, images, faults, asserted>> \/ \E pixels : Fill(2, pixels)
      BY <1>9 DEF CopySubTile
    <2>0. 2 \in DOMAIN images
      <3>1. Len(images) = 3
        BY <2>1
      <3> QED BY <1>1, <3>1
    <2>3. Balanced' /\ images' = images
      <3>1. CASE UNCHANGED <<memory, images, faults, asserted>>
        BY <1>1, <2>1, <3>1, SameBalanced
      <3>2. CASE \E pixels : Fill(2, pixels)
        BY <1>1, <2>0, <2>1, <3>2, FillBalanced
      <3> QED BY <2>2, <3>1, <3>2
    <2>4. Elevated'
      BY <2>1, <2>3 DEF Elevated
    <2> QED BY <2>1, <2>3, <2>4 DEF IInv, Shape
  <1>10. CASE LeaveSubTile
    <2>1. /\ Elevated /\ pc' = "sub-tile" /\ Len(images) = 3 /\ images[2].raw # NULL
          /\ Pop(Destroyed(State(TopImage)))
      BY <1>10 DEF LeaveSubTile, GoTo, IInv, Shape
    <2>2. Len(images) >= 1
      <3>1. Len(images) = 3
        BY <2>1
      <3> QED BY <3>1
    <2>3. /\ Balanced' /\ Elevated' /\ Len(images') = Len(images) - 1
          /\ \A m \in DOMAIN images' : images'[m] = images[m]
      BY <1>1, <2>1, <2>2, PopElevated
    <2>4. DOMAIN images' = DOMAIN images \ {Len(images)}
      BY <1>1, <2>1, <2>2, PopBalanced
    <2>5. Len(images') = 2 /\ images'[2].raw # NULL
      BY <1>1, <2>1, <2>3, <2>4
    <2> QED BY <2>1, <2>3, <2>5 DEF IInv, Shape
  <1>11. CASE StoreMip \/ StoreMipFails
    <2>1. Elevated /\ pc' = "leave mip" /\ Len(images) = 3
      BY <1>11 DEF StoreMip, StoreMipFails, GoTo, IInv, Shape
    <2>0. ToStore \in DOMAIN images
      <3>1. Len(images) = 3
        BY <2>1
      <3>2. Len(images) >= 1
        BY <3>1
      <3> QED BY <1>1, <3>2, ToStoreThere
    <2>2. UNCHANGED <<memory, images, faults, asserted>> \/ Change(ToStore, Stored(ToStore))
      BY <1>11 DEF StoreMip, StoreMipFails
    <2>3. CASE UNCHANGED <<memory, images, faults, asserted>>
      <3>1. Balanced' /\ Elevated' /\ Len(images') = 3
        BY <1>1, <2>1, <2>3, SameBalanced
      <3> QED BY <2>1, <3>1, AfterStoring
    <2>4. CASE Change(ToStore, Stored(ToStore))
      <3>1. Balanced' /\ Elevated' /\ Len(images') = 3
        BY <1>1, <2>0, <2>1, <2>4, StoreBalanced
      <3> QED BY <2>1, <3>1, AfterStoring
    <2> QED BY <2>2, <2>3, <2>4
  <1>12. CASE LeaveMip
    <2>1. Elevated /\ Pop(Destroyed(State(TopImage)))
      BY <1>12 DEF LeaveMip, IInv, Shape
    <2>0. /\ Len(images) \in 1 .. 3
          /\ pc' = IF Len(images) = 1 THEN "idle" ELSE "leave mip"
      BY <1>12 DEF LeaveMip, IInv, Shape, Top
    <2>2. Len(images) >= 1
      BY <2>0, Heights, Zenon
    <2>3. Balanced' /\ Elevated' /\ Len(images') = Len(images) - 1
      BY <1>1, <2>1, <2>2, PopElevated
    <2>4. \/ pc' = "idle" /\ Len(images') = 0
          \/ pc' = "leave mip" /\ Len(images') \in 1 .. 3
      <3>1. Len(images') = Len(images) - 1
        BY <2>3
      <3> QED BY <2>0, <3>1, Heights, Zenon
    <2> QED BY <2>3, <2>4 DEF IInv, Shape
  <1> QED BY <1>2, <1>4, <1>5, <1>6, <1>7, <1>8, <1>9, <1>10, <1>11, <1>12

-----------------------------------------------------------------------------
(* The theorem                                                             *)

LEMMA InitBalanced == Init => IInv
PROOF
  <1> SUFFICES ASSUME Init PROVE IInv
    OBVIOUS
  <1>1. memory = <<>> /\ images = <<>> /\ pc = "idle" /\ faults = {} /\ asserted = {}
    BY DEF Init
  <1>2. IsSeq(images) /\ DOMAIN images = {} /\ DOMAIN memory = {} /\ Len(images) = 0
    BY <1>1 DEF IsSeq
  <1>3. UNION {BufferSet(images[n]) : n \in DOMAIN images} = {}
    BY <1>2
  <1>4. IsFiniteSet(DOMAIN memory)
    BY <1>2, FS_EmptySet
  <1>5. Balanced
    BY <1>1, <1>2, <1>3, <1>4 DEF Balanced
  <1> QED BY <1>1, <1>2, <1>5 DEF IInv, Shape

LEMMA StepBalanced == IInv /\ [Next]_vars => IInv'
PROOF
  <1> SUFFICES ASSUME IInv, [Next]_vars PROVE IInv'
    OBVIOUS
  <1>1. CASE UNCHANGED vars
    <2>1. UNCHANGED <<memory, images, faults, asserted, pc>>
      BY <1>1 DEF vars
    <2>2. Balanced' /\ Elevated' = Elevated /\ images' = images
      BY <2>1, SameBalanced DEF IInv
    <2>3. Shape'
      BY <2>1, <2>2 DEF IInv, Shape, Elevated
    <2> QED BY <2>2, <2>3 DEF IInv
  <1>2. CASE BeginAnswer \/ Render \/ LayerFails \/ Convert \/ Reply \/ Leave
    BY <1>2, AnswerSteps
  <1>3. CASE \/ BeginFetching \/ BeginTile \/ ReadShort \/ ReadTile \/ StoreFetched
             \/ StoreFetchedFails \/ LeaveTile \/ EndFetching
    BY <1>3, FetchSteps
  <1>4. CASE \/ BeginMip \/ BeginHigherLevel \/ SkipSubTile \/ LoadSubTile \/ LoadFails
             \/ ConvertSubTile \/ CopySubTile \/ LeaveSubTile \/ Sample \/ StoreMip
             \/ StoreMipFails \/ LeaveMip
    BY <1>4, MipSteps
  <1> QED BY <1>1, <1>2, <1>3, <1>4 DEF Next

LEMMA BalancedMeans == IInv => BuffersBalanced
PROOF
  <1> SUFFICES ASSUME IInv PROVE BuffersBalanced
    OBVIOUS
  <1>1. FreedOnce
    BY DEF IInv, Balanced, FreedOnce
  <1>2. ASSUME NEW b \in DOMAIN memory
        PROVE  Cardinality({n \in DOMAIN images : b \in {images[n].raw, images[n].processed}}) = 1
    <2>1. PICK n \in DOMAIN images : b \in BufferSet(images[n])
      BY DEF IInv, Balanced
    <2>2. b # NULL
      BY <2>1, BufferSetIsNat DEF IInv, Balanced
    <2>3. ASSUME NEW m \in DOMAIN images
          PROVE  b \in {images[m].raw, images[m].processed} <=> m = n
      BY <2>1, <2>2 DEF IInv, Balanced, BufferSet
    <2>4. {m \in DOMAIN images : b \in {images[m].raw, images[m].processed}} = {n}
      BY <2>3
    <2> QED BY <2>4, FS_Singleton
  <1> QED BY <1>1, <1>2 DEF BuffersBalanced, EveryBufferOwned

(***************************************************************************)
(* Each buffer that is allocated is freed exactly once, and in the way it  *)
(* was allocated, whatever the sizes of tiles and the formats of answers,  *)
(* whatever was read from a file and whichever step failed: the functions  *)
(* of class Image keep what they own, and the callers destroy what they    *)
(* made in the reverse order.                                              *)
(***************************************************************************)
THEOREM EachBufferFreedOnce == Spec => []BuffersBalanced
PROOF
  BY InitBalanced, StepBalanced, BalancedMeans, PTL DEF Spec

-----------------------------------------------------------------------------
(* What a step does to the pixels of the images on the stack.              *)

\* an image stays, and its pixels are as they were
Unmoved(m) ==
  /\ images'[m].raw = images[m].raw /\ images'[m].width = images[m].width
  /\ images'[m].height = images[m].height /\ Raw(m)' = Raw(m)

LEMMA RawIsThere ==
  ASSUME Balanced, NEW m \in DOMAIN images
  PROVE  /\ NULL \notin DOMAIN memory /\ BufferSet(images[m]) \subseteq DOMAIN memory
         /\ images[m].raw # NULL => images[m].raw \in DOMAIN memory
         /\ images[m].processed # NULL => images[m].processed \in DOMAIN memory
PROOF
  <1>1. BufferSet(images[m]) \subseteq DOMAIN memory
    BY DEF Balanced
  <1>2. NULL \notin DOMAIN memory
    BY DEF Balanced, BufferSet
  <1> QED BY <1>1, <1>2 DEF BufferSet

LEMMA StaysUnmoved ==
  ASSUME Balanced, Balanced', NEW m \in DOMAIN images, m \in DOMAIN images',
         images'[m] = images[m],
         \A b \in BufferSet(images[m]) : memory'[b] = memory[b]
  PROVE  Unmoved(m)
PROOF
  <1>1. /\ NULL \notin DOMAIN memory
        /\ images[m].raw # NULL => images[m].raw \in DOMAIN memory
    BY RawIsThere
  <1>2. UNION {BufferSet(images'[n]) : n \in DOMAIN images'} = DOMAIN memory'
    BY DEF Balanced, BufferSet
  <1>3. NULL \notin DOMAIN memory'
    BY <1>2 DEF BufferSet
  <1>4. images[m].raw # NULL => images[m].raw \in DOMAIN memory'
    BY <1>2 DEF BufferSet
  <1>5. images[m].raw # NULL => memory'[images[m].raw] = memory[images[m].raw]
    BY DEF BufferSet
  <1>6. Data(memory', images[m].raw) = Data(memory, images[m].raw)
    BY <1>1, <1>3, <1>4, <1>5 DEF Data
  <1> QED BY <1>6 DEF Unmoved, Raw

LEMMA ChangePixels ==
  ASSUME Balanced, NEW n \in DOMAIN images, NEW s, Owned(s, Rest(n)),
         Kept(Rest(n), memory, s.memory), Change(n, s)
  PROVE  /\ images'[n] = s.img /\ memory' = s.memory
         /\ Raw(n)' = Data(s.memory, s.img.raw)
         /\ \A m \in DOMAIN images \ {n} : Unmoved(m)
         /\ SamePixels(State(images[n]), s) => Unmoved(n)
PROOF
  <1>1. /\ Balanced' /\ DOMAIN images' = DOMAIN images /\ images'[n] = s.img
        /\ \A m \in DOMAIN images \ {n} : images'[m] = images[m]
    BY ChangeBalanced
  <1>2. memory' = s.memory
    BY DEF Change, Becomes
  <1>3. Raw(n)' = Data(s.memory, s.img.raw)
    BY <1>1, <1>2 DEF Raw
  <1>4. ASSUME NEW m \in DOMAIN images \ {n} PROVE Unmoved(m)
    <2>1. BufferSet(images[m]) \subseteq Rest(n)
      BY DEF Rest
    <2>2. \A b \in BufferSet(images[m]) : memory'[b] = memory[b]
      BY <1>2, <2>1 DEF Kept
    <2>3. images'[m] = images[m] /\ m \in DOMAIN images'
      BY <1>1
    <2> QED BY <1>1, <2>2, <2>3, StaysUnmoved
  <1>5. ASSUME SamePixels(State(images[n]), s) PROVE Unmoved(n)
    <2> DEFINE t == State(images[n])
    <2>1. Owned(t, Rest(n))
      BY StateOwned
    <2>2. t.memory = memory /\ t.img = images[n]
      BY DEF State
    <2> HIDE DEF t
    <2>3. SamePixels(t, s)
      BY <1>5 DEF t
    <2>4. Data(s.memory, s.img.raw) = Data(t.memory, t.img.raw)
      BY <2>1, <2>3, SameData
    <2>5. Raw(n)' = Raw(n)
      BY <1>3, <2>2, <2>4 DEF Raw
    <2> QED BY <1>1, <2>2, <2>3, <2>5 DEF Unmoved, SamePixels
  <1> QED BY <1>1, <1>2, <1>3, <1>4, <1>5

LEMMA PushPixels ==
  ASSUME Balanced, NEW s, Owned(s, DOMAIN memory), Kept(DOMAIN memory, memory, s.memory), Push(s)
  PROVE  /\ images'[Len(images) + 1] = s.img /\ memory' = s.memory
         /\ \A n : n = Len(images) + 1 => Raw(n)' = Data(s.memory, s.img.raw)
         /\ \A m \in DOMAIN images : Unmoved(m)
PROOF
  <1> DEFINE n == Len(images) + 1
  <1>1. /\ Balanced' /\ DOMAIN images' = DOMAIN images \union {n} /\ images'[n] = s.img
        /\ \A m \in DOMAIN images : images'[m] = images[m]
    BY PushBalanced
  <1>2. memory' = s.memory
    BY DEF Push, Becomes
  <1>3. ASSUME NEW k, k = Len(images) + 1
        PROVE  Raw(k)' = Data(s.memory, s.img.raw)
    BY <1>1, <1>2, <1>3 DEF Raw
  <1>4. ASSUME NEW m \in DOMAIN images PROVE Unmoved(m)
    <2>1. BufferSet(images[m]) \subseteq DOMAIN memory
      BY RawIsThere
    <2>2. \A b \in BufferSet(images[m]) : memory'[b] = memory[b]
      BY <1>2, <2>1 DEF Kept
    <2>3. images'[m] = images[m] /\ m \in DOMAIN images'
      BY <1>1
    <2> QED BY <1>1, <2>2, <2>3, StaysUnmoved
  <1> QED BY <1>1, <1>2, <1>3, <1>4

LEMMA PopPixels ==
  ASSUME Balanced, Len(images) >= 1, Pop(Destroyed(State(TopImage)))
  PROVE  \A m \in DOMAIN images' : Unmoved(m)
PROOF
  <1> DEFINE n == Len(images)
             s == Destroyed(State(TopImage))
  <1>1. /\ Balanced' /\ DOMAIN images' = DOMAIN images \ {n}
        /\ \A m \in DOMAIN images' : images'[m] = images[m]
    BY PopBalanced
  <1>2. n \in DOMAIN images
    BY IsSeqDomain DEF Balanced
  <1>3. Kept(Rest(n), memory, s.memory) /\ memory' = s.memory
    <2>1. Owned(State(TopImage), Rest(n)) /\ State(TopImage).memory = memory
      BY <1>2, StateOwned DEF TopImage, Top, State
    <2> QED BY <2>1, DestroyedOwned DEF Pop, Becomes
  <1> HIDE DEF s
  <1>4. ASSUME NEW m \in DOMAIN images' PROVE Unmoved(m)
    <2>1. m \in DOMAIN images /\ images'[m] = images[m] /\ BufferSet(images[m]) \subseteq Rest(n)
      BY <1>1 DEF Rest
    <2>2. \A b \in BufferSet(images[m]) : memory'[b] = memory[b]
      BY <1>3, <2>1 DEF Kept
    <2> QED BY <1>1, <2>1, <2>2, StaysUnmoved
  <1> QED BY <1>4

LEMMA FillPixels ==
  ASSUME Balanced, NEW n \in DOMAIN images, images[n].raw # NULL, NEW pixels, Fill(n, pixels)
  PROVE  /\ Raw(n)' = pixels
         /\ \A m \in DOMAIN images \ {n} : Unmoved(m)
PROOF
  <1>1. Balanced' /\ images' = images
    BY FillBalanced
  <1>2. memory' = With(memory, images[n].raw, "new", pixels)
    BY DEF Fill
  <1>3. images[n].raw \in DOMAIN memory
    BY RawIsThere
  <1>4. /\ images[n].raw \in DOMAIN memory' /\ memory'[images[n].raw].data = pixels
        /\ \A b \in DOMAIN memory \ {images[n].raw} : memory'[b] = memory[b]
    BY <1>2, <1>3 DEF With
  <1>5. Raw(n)' = pixels
    BY <1>1, <1>4 DEF Raw, Data
  <1>6. ASSUME NEW m \in DOMAIN images \ {n} PROVE Unmoved(m)
    <2>1. BufferSet(images[m]) \subseteq DOMAIN memory \ {images[n].raw}
      BY RawIsThere DEF Balanced, BufferSet
    <2>2. \A b \in BufferSet(images[m]) : memory'[b] = memory[b]
      BY <1>4, <2>1
    <2> QED BY <1>1, <2>2, StaysUnmoved
  <1> QED BY <1>5, <1>6

LEMMA SameIsUnmoved ==
  ASSUME UNCHANGED <<memory, images>>
  PROVE  \A m : Unmoved(m)
PROOF BY DEF Unmoved, Raw

\* An image that is stored keeps its pixels, and is made to a file of them.
LEMMA StorePixels ==
  ASSUME Balanced, Elevated, NEW n \in DOMAIN images, Change(n, Stored(n))
  PROVE  /\ \A m \in DOMAIN images : Unmoved(m)
         /\ Data(Stored(n).memory, Stored(n).img.processed) =
              Encoded(images[n].width, images[n].height, Raw(n))
PROOF
  <1> DEFINE s == Stored(n)
             t == State(images[n])
  <1>1. Owned(t, Rest(n))
    BY StateOwned
  <1>2. t.img = images[n] /\ t.memory = memory
    BY DEF State
  <1>3. images[n].processed = NULL \/ images[n].content = "Elevation"
    BY DEF Elevated
  <1>4. s = ConvertRawImageToContentType(t, "Elevation")
    BY DEF Stored
  <1> HIDE DEF t, s
  <1>5. /\ Owned(s, Rest(n)) /\ Kept(Rest(n), memory, s.memory)
        /\ s.img.content = "Elevation" /\ Pictured(t, s)
    BY <1>1, <1>2, <1>3, <1>4, ConvertedOwned
  <1>6. \A m \in DOMAIN images \ {n} : Unmoved(m)
    BY <1>5, ChangePixels DEF s
  <1>7. Unmoved(n)
    BY <1>5, ChangePixels DEF s, t, Pictured
  <1>8. "Elevation" \notin DOMAIN RawTypes
    BY DEF RawTypes
  <1>9. Data(s.memory, s.img.processed) =
          Encoded(images[n].width, images[n].height, Raw(n))
    BY <1>2, <1>5, <1>8 DEF Pictured, Raw
  <1> QED BY <1>6, <1>7, <1>9 DEF s

-----------------------------------------------------------------------------
(* What is in the buffers.                                                 *)

\* the pixels of an image are as many as its size says
Sized(n) ==
  /\ images[n].width \in Nat /\ images[n].height \in Nat
  /\ images[n].raw # NULL => Raw(n) \in [1 .. images[n].width * images[n].height -> Int]

IsTile(n) ==
  images[n].raw # NULL /\ images[n].width = TileWidth /\ images[n].height = TileHeight

HasNoPixels(n) == images[n].raw = NULL /\ images[n].width = 0 /\ images[n].height = 0

Answer == IF format.content \in DOMAIN RawTypes THEN shown ELSE Encoded(TileWidth, TileHeight, shown)

\* One image is rendered and sent.
AnswerInv ==
  /\ pc \in {"render", "convert"} => IsTile(1)
  /\ pc = "convert" => Raw(1) = shown
  /\ pc = "reply" /\ images[1].processed # NULL => Data(memory, images[1].processed) = Answer
  /\ pc = "leave" /\ images[1].processed # NULL => out = Answer

\* One image of no pixels is the first, and one is fetched.
FetchInv ==
  /\ pc \in {"next tile", "request", "store", "leave tile"} => HasNoPixels(1)
  /\ pc \in {"request", "store"} => IsTile(2)
  /\ pc = "store" => Raw(2) = shown
  /\ StoredAsSent

CountInv ==
  /\ sub \in 0 .. 4 /\ tiles \in 0 .. MaxTiles
  /\ pc \in {"loaded", "copy", "leave sub-tile"} => sub < 4

Merging == {"sub-tile", "loaded", "copy", "leave sub-tile"}

\* which of the four sub-tiles a pixel is in
Quarter(column, row) == (column \div TileWidth) + 2 * (row \div TileHeight)

\* The four sub-tiles are put together but for one that was loaded and not yet copied.
Merged(waiting) ==
  \A column \in 0 .. 2 * TileWidth - 1, row \in 0 .. 2 * TileHeight - 1 :
    Raw(2)[At(row, column, 2 * TileWidth)] =
      IF Quarter(column, row) = waiting THEN Invalid ELSE Mosaic(column, row)

NoSubTile == 4
Waiting == IF pc \in {"loaded", "copy"} THEN sub ELSE NoSubTile

MosaicInv ==
  /\ images[2].width = 2 * TileWidth /\ images[2].height = 2 * TileHeight
  /\ shown \in [1 .. 4 -> Pictures \union {Nothing}]
  /\ Merged(Waiting)

\* sub-tiles that were not read yet
NoneFrom(n) == \A k \in n .. 4 : shown[k] = Nothing

\* what was read of the sub-tile that is next
LoadedInv ==
  LET data == Data(memory, images[3].processed)
  IN  \/ shown[sub + 1] \in Pictures /\ data = Encoded(TileWidth, TileHeight, shown[sub + 1])
      \/ /\ shown[sub + 1] = Nothing /\ images[3].width = 0 /\ images[3].height = 0
         /\ data \in {Encoded(0, 0, <<>>), <<Garbage>>}

CopyInv ==
  \/ shown[sub + 1] \in Pictures /\ IsTile(3) /\ Raw(3) = shown[sub + 1]
  \/ shown[sub + 1] = Nothing /\ images[3].width = 0

SampledInv ==
  \A column \in 0 .. TileWidth - 1, row \in 0 .. TileHeight - 1 :
    IsMean(Raw(3)[At(row, column, TileWidth)], column, row)

MipInv ==
  /\ pc \in Merging \union {"higher level", "store mip"} => HasNoPixels(1) /\ out = Nothing
  /\ pc \in Merging => MosaicInv
  /\ pc = "sub-tile" => NoneFrom(sub + 1)
  /\ pc \in {"loaded", "copy", "leave sub-tile"} => NoneFrom(sub + 2)
  /\ pc = "loaded" => LoadedInv
  /\ pc = "copy" => CopyInv
  /\ pc = "store mip" => IsTile(3) /\ SampledInv
  /\ MipRight

AllSized == \A n \in DOMAIN images : Sized(n)

PixelInv ==
  /\ AllSized
  /\ AnswerInv /\ FetchInv /\ CountInv /\ MipInv

\* Sequences of pixels.
LEMMA FilledPixels ==
  ASSUME NEW n \in Nat, NEW v
  PROVE  Filled(n, v) \in [1 .. n -> {v}]
PROOF BY DEF Filled

\* A tile has pixels, and the mosaic of four sub-tiles four times as many.
LEMMA TileSize ==
  /\ TilePixels \in Nat \ {0} /\ TileWidth * TileHeight = TilePixels
  /\ TileWidth \in Nat \ {0} /\ TileHeight \in Nat \ {0}
  /\ (2 * TileWidth) * (2 * TileHeight) = 4 * TilePixels
PROOF
  <1>1. TileWidth \in Nat \ {0} /\ TileHeight \in Nat \ {0}
    BY ImageAssumption
  <1>2. TileWidth * TileHeight \in Nat \ {0}
    BY <1>1
  <1>3. (2 * TileWidth) * (2 * TileHeight) = 4 * (TileWidth * TileHeight)
    BY <1>1
  <1> QED BY <1>1, <1>2, <1>3 DEF TilePixels

\* A picture has as many pixels as a tile.
LEMMA PictureIsPixels ==
  ASSUME NEW p \in Pictures
  PROVE  p \in [1 .. TilePixels -> Int] /\ IsSeq(p) /\ Len(p) = TilePixels /\ p # Nothing
PROOF
  <1>1. p \in [1 .. TilePixels -> Int] /\ TilePixels \in Nat \ {0}
    BY ImageAssumption, TileSize
  <1>2. IsSeq(p) /\ Len(p) = TilePixels
    BY <1>1, CountedIsSeq
  <1>3. Len(Nothing) = 0
    BY DEF Nothing
  <1> QED BY <1>1, <1>2, <1>3

\* The first pixels of a picture are written over those that were there.
LEMMA ReadOver ==
  ASSUME NEW n \in Nat, NEW p \in [1 .. n -> Int], NEW q \in [1 .. n -> Int], NEW count \in 0 .. n
  PROVE  LET r == SubSeq(p, 1, count) \o SubSeq(q, count + 1, n)
         IN  r \in [1 .. n -> Int] /\ (count = n => r = p)
PROOF
  <1> DEFINE a == SubSeq(p, 1, count)
             b == SubSeq(q, count + 1, n)
             r == a \o b
  <1>1. p \in Seq(Int) /\ q \in Seq(Int) /\ Len(p) = n /\ Len(q) = n
    BY SeqDef, LenProperties
  <1>2. count \in Nat /\ count <= n
    OBVIOUS
  <1>3. /\ a \in Seq(Int) /\ Len(a) = count
        /\ \A i \in 1 .. count : a[i] = p[i]
    <2>1. \A i \in 1 .. count : p[i] \in Int
      BY <1>2
    <2>2. /\ a \in Seq(Int) /\ Len(a) = IF 1 <= count THEN count - 1 + 1 ELSE 0
          /\ \A i \in 1 .. count - 1 + 1 : a[i] = p[1 + i - 1]
      BY <1>2, <2>1, SubSeqProperties, SMTT(30)
    <2> QED BY <1>2, <2>2
  <1>4. /\ b \in Seq(Int) /\ Len(b) = n - count
    <2>1. SubSeq(q, count + 1, Len(q)) \in Seq(Int) /\ Len(SubSeq(q, count + 1, Len(q))) = Len(q) - count
      BY <1>1, <1>2, RestOfSeq
    <2> QED BY <1>1, <2>1
  <1> HIDE DEF a, b
  <1>5. /\ r \in Seq(Int) /\ Len(r) = count + (n - count)
        /\ \A i \in 1 .. count : r[i] = a[i]
    <2>1. /\ r \in Seq(Int) /\ Len(r) = Len(a) + Len(b)
          /\ \A i \in 1 .. Len(a) + Len(b) : r[i] = IF i <= Len(a) THEN a[i] ELSE b[i - Len(a)]
      BY <1>3, <1>4, ConcatProperties
    <2> QED BY <1>2, <1>3, <1>4, <2>1
  <1> HIDE DEF r
  <1>6. Len(r) = n
    BY <1>2, <1>5
  <1>7. r \in [1 .. n -> Int]
    BY <1>5, <1>6, LenProperties
  <1>8. count = n => r = p
    BY <1>3, <1>5, <1>7
  <1> QED BY <1>7, <1>8 DEF r, a, b

\* An encoded image has its size in front of its pixels.
LEMMA EncodedParts ==
  ASSUME NEW width, NEW height, NEW pixels, IsSeq(pixels)
  PROVE  LET code == Encoded(width, height, pixels)
         IN  /\ code # Nothing /\ code[1] = FourCC /\ code[2] = width /\ code[3] = height
             /\ SubSeq(code, 4, Len(code)) = pixels
             /\ Len(code) = 3 + Len(pixels)
             /\ \A i \in 1 .. Len(pixels) : code[3 + i] = pixels[i]
             /\ SubSeq(code, 1, 3) = <<FourCC, width, height>>
PROOF
  <1> DEFINE S == {FourCC, width, height} \union Elements(pixels)
             head == <<FourCC, width, height>>
             code == head \o pixels
  <1>1. head \in Seq(S) /\ Len(head) = 3
    <2>1. FourCC \in S /\ width \in S /\ height \in S
      OBVIOUS
    <2> HIDE DEF S
    <2>2. head \in Seq(S)
      BY <2>1
    <2>3. Len(head) = 3
      OBVIOUS
    <2> QED BY <2>2, <2>3
  <1>2. pixels \in Seq(S)
    BY SeqMonotonic DEF IsSeq
  <1>3. head[1] = FourCC /\ head[2] = width /\ head[3] = height
    OBVIOUS
  <1>4. Len(pixels) \in Nat
    BY <1>2, LenProperties
  <1> HIDE DEF head, S
  <1>5. /\ code \in Seq(S) /\ Len(code) = 3 + Len(pixels)
        /\ \A i \in 1 .. 3 + Len(pixels) : code[i] = IF i <= 3 THEN head[i] ELSE pixels[i - 3]
    <2>1. /\ code \in Seq(S) /\ Len(code) = Len(head) + Len(pixels)
          /\ \A i \in 1 .. Len(head) + Len(pixels) :
               code[i] = IF i <= Len(head) THEN head[i] ELSE pixels[i - Len(head)]
      BY <1>1, <1>2, ConcatProperties
    <2> HIDE DEF code
    <2> QED BY <1>1, <2>1
  <1>6. /\ code[1] = FourCC /\ code[2] = width /\ code[3] = height
        /\ \A i \in 1 .. Len(pixels) : code[3 + i] = pixels[i]
    <2>1. \A i \in 1 .. Len(pixels) : /\ 3 + i \in 1 .. 3 + Len(pixels) /\ ~(3 + i <= 3)
                                      /\ 3 + i - 3 = i
      BY <1>4
    <2>2. 1 \in 1 .. 3 + Len(pixels) /\ 2 \in 1 .. 3 + Len(pixels) /\ 3 \in 1 .. 3 + Len(pixels)
      BY <1>4
    <2> HIDE DEF code
    <2> QED BY <1>3, <1>5, <2>1, <2>2
  <1> HIDE DEF code
  <1>7. SubSeq(code, 4, Len(code)) = pixels
    <2>1. /\ SubSeq(code, 3 + 1, Len(code)) \in Seq(S)
          /\ Len(SubSeq(code, 3 + 1, Len(code))) = Len(code) - 3
          /\ \A i \in 1 .. Len(code) - 3 : SubSeq(code, 3 + 1, Len(code))[i] = code[3 + i]
      BY <1>4, <1>5, RestOfSeq
    <2>2. 3 + 1 = 4 /\ Len(code) - 3 = Len(pixels)
      BY <1>4, <1>5
    <2>3. /\ SubSeq(code, 4, Len(code)) \in Seq(S)
          /\ Len(SubSeq(code, 4, Len(code))) = Len(pixels)
          /\ \A i \in 1 .. Len(pixels) : SubSeq(code, 4, Len(code))[i] = pixels[i]
      BY <1>6, <2>1, <2>2
    <2> QED BY <1>2, <2>3, SeqEqual
  <1>8. SubSeq(code, 1, 3) = head
    <2>1. \A i \in 1 .. 3 : code[i] \in S
      BY <1>4, <1>5, ElementOfSeq
    <2>2. /\ SubSeq(code, 1, 3) \in Seq(S) /\ Len(SubSeq(code, 1, 3)) = 3
          /\ \A i \in 1 .. 3 : SubSeq(code, 1, 3)[i] = code[i]
      <3>1. /\ SubSeq(code, 1, 3) \in Seq(S) /\ Len(SubSeq(code, 1, 3)) = IF 1 <= 3 THEN 3 - 1 + 1 ELSE 0
            /\ \A i \in 1 .. 3 - 1 + 1 : SubSeq(code, 1, 3)[i] = code[1 + i - 1]
        BY <2>1, SubSeqProperties
      <3> QED BY <3>1
    <2>3. \A i \in 1 .. 3 : SubSeq(code, 1, 3)[i] = head[i]
      BY <1>3, <1>6, <2>2
    <2> QED BY <1>1, <2>2, <2>3, SeqEqual
  <1>9. code # Nothing
    BY <1>4, <1>5 DEF Nothing
  <1> QED BY <1>5, <1>6, <1>7, <1>8, <1>9 DEF code, head, Encoded

-----------------------------------------------------------------------------
(* The box filter.                                                         *)

\* what a pixel adds to the sum and to the number of those with data
Value(x) == IF x = Invalid THEN 0 ELSE x
Counts(x) == IF x = Invalid THEN 0 ELSE 1

\* The loop over a box of four pixels.
LEMMA BoxOfFour ==
  ASSUME NEW v \in [1 .. 4 -> Int]
  PROVE  /\ BoxSums(v).value = Value(v[1]) + Value(v[2]) + Value(v[3]) + Value(v[4])
         /\ BoxSums(v).numBoxEntries = Counts(v[1]) + Counts(v[2]) + Counts(v[3]) + Counts(v[4])
PROOF
  <1> DEFINE Next1(b, x) == IF x = Invalid THEN b
                            ELSE [value |-> b.value + x, numBoxEntries |-> b.numBoxEntries + 1]
             b0 == [value |-> 0, numBoxEntries |-> 0]
             b1 == Next1(b0, v[1])
             b2 == Next1(b1, v[2])
             b3 == Next1(b2, v[3])
             b4 == Next1(b3, v[4])
             w == [k \in 0 .. 4 |-> IF k = 0 THEN b0 ELSE IF k = 1 THEN b1 ELSE IF k = 2 THEN b2 ELSE IF k = 3 THEN b3 ELSE b4]
             Is(f) == f = [k \in 0 .. 4 |-> IF k = 0 THEN b0 ELSE IF v[k] = Invalid THEN f[k - 1] 
                          ELSE [value |-> f[k - 1].value + v[k], numBoxEntries |-> f[k - 1].numBoxEntries + 1]]
  <1>1. Len(v) = 4
    BY CountedIsSeq, 4 \in Nat
  <1>2. BoxSums(v) = (CHOOSE f : Is(f))[4]
    BY <1>1, Zenon DEF BoxSums
  <1>3. Is(w)
    <2> DEFINE e(k) == IF k = 0 THEN b0 ELSE IF v[k] = Invalid THEN w[k - 1] 
                          ELSE [value |-> w[k - 1].value + v[k], numBoxEntries |-> w[k - 1].numBoxEntries + 1]
    <2> HIDE DEF b0, b1, b2, b3, b4, Next1
    <2>0. 0 \in 0 .. 4 /\ 1 \in 0 .. 4 /\ 2 \in 0 .. 4 /\ 3 \in 0 .. 4 /\ 4 \in 0 .. 4
      OBVIOUS
    <2>1. w[0] = b0 /\ w[1] = b1 /\ w[2] = b2 /\ w[3] = b3 /\ w[4] = b4
      BY <2>0
    <2>2. w[0] = e(0) /\ w[1] = e(1) /\ w[2] = e(2) /\ w[3] = e(3) /\ w[4] = e(4)
      <3> HIDE DEF w
      <3>1. /\ e(0) = b0 /\ e(1) = Next1(w[0], v[1]) /\ e(2) = Next1(w[1], v[2])
            /\ e(3) = Next1(w[2], v[3]) /\ e(4) = Next1(w[3], v[4])
        BY DEF Next1
      <3>2. b1 = Next1(b0, v[1]) /\ b2 = Next1(b1, v[2]) /\ b3 = Next1(b2, v[3]) /\ b4 = Next1(b3, v[4])
        BY Zenon DEF b1, b2, b3, b4
      <3> QED BY <2>1, <3>1, <3>2, Zenon
    <2>3. \A k \in 0 .. 4 : w[k] = e(k)
      <3> HIDE DEF w, e
      <3> QED BY <2>2
    <2>4. w = [k \in 0 .. 4 |-> e(k)]
      <3> HIDE DEF e
      <3> QED BY <2>3
    <2> QED BY <2>4 DEF Is
  <1> DEFINE after == CHOOSE f : Is(f)
  <1>4. Is(after)
    <2> HIDE DEF Is
    <2> QED BY <1>3, Zenon
  <1>5. BoxSums(v) = after[4]
    BY <1>2
  <1> HIDE DEF after
  <1>6. /\ after[0] = b0 /\ after[1] = Next1(after[0], v[1]) /\ after[2] = Next1(after[1], v[2])
        /\ after[3] = Next1(after[2], v[3]) /\ after[4] = Next1(after[3], v[4])
    BY <1>4
  <1>7. BoxSums(v) = b4
    <2> HIDE DEF Next1, b0
    <2> QED BY <1>5, <1>6
  <1>8. v[1] \in Int /\ v[2] \in Int /\ v[3] \in Int /\ v[4] \in Int
    OBVIOUS
  <1>9. ASSUME NEW b, NEW x
        PROVE /\ Next1(b, x).value = IF x = Invalid THEN b.value ELSE b.value + x
              /\ Next1(b, x).numBoxEntries = IF x = Invalid THEN b.numBoxEntries ELSE b.numBoxEntries + 1
    OBVIOUS
  <1>10. b0.value = 0 /\ b0.numBoxEntries = 0
    OBVIOUS
  <1>11. ASSUME NEW b, NEW x \in Int, b.value \in Int, b.numBoxEntries \in Int
         PROVE  /\ Next1(b, x).value = b.value + Value(x)
                /\ Next1(b, x).numBoxEntries = b.numBoxEntries + Counts(x)
                /\ Next1(b, x).value \in Int /\ Next1(b, x).numBoxEntries \in Int
    BY <1>9, <1>11 DEF Value, Counts
  <1>12. \A x \in Int : Value(x) \in Int /\ Counts(x) \in Int
    BY DEF Value, Counts
  <1> HIDE DEF Next1, b0
  <1>13. /\ b1.value = Value(v[1]) /\ b1.numBoxEntries = Counts(v[1])
         /\ b1.value \in Int /\ b1.numBoxEntries \in Int
    BY <1>8, <1>10, <1>11, <1>12
  <1> HIDE DEF b1
  <1>14. /\ b2.value = b1.value + Value(v[2]) /\ b2.numBoxEntries = b1.numBoxEntries + Counts(v[2])
         /\ b2.value \in Int /\ b2.numBoxEntries \in Int
    BY <1>8, <1>11, <1>13
  <1> HIDE DEF b2
  <1>15. /\ b3.value = b2.value + Value(v[3]) /\ b3.numBoxEntries = b2.numBoxEntries + Counts(v[3])
         /\ b3.value \in Int /\ b3.numBoxEntries \in Int
    BY <1>8, <1>11, <1>14
  <1> HIDE DEF b3
  <1>16. b4.value = b3.value + Value(v[4]) /\ b4.numBoxEntries = b3.numBoxEntries + Counts(v[4])
    BY <1>8, <1>11, <1>15
  <1> QED BY <1>7, <1>13, <1>14, <1>15, <1>16

\* A division that drops the fraction.
LEMMA QuotientMeans ==
  ASSUME NEW a \in Int, NEW n \in 1 .. 4
  PROVE  LET q == Quotient(a, n)
         IN  /\ q \in Int /\ q * a >= 0
             /\ n * Magnitude(q) <= Magnitude(a) /\ Magnitude(a) < n * (Magnitude(q) + 1)
PROOF
  <1> DEFINE q == Quotient(a, n)
  <1>1. ASSUME NEW b \in Nat
        PROVE  b \div n \in Nat /\ n * (b \div n) <= b /\ b < n * ((b \div n) + 1)
    <2>1. CASE n = 1
      BY <2>1
    <2>2. CASE n = 2
      BY <2>2
    <2>3. CASE n = 3
      BY <2>3
    <2>4. CASE n = 4
      BY <2>4
    <2> QED BY <2>1, <2>2, <2>3, <2>4
  <1>2. CASE a >= 0
    <2> DEFINE p == a \div n
    <2>1. p \in Nat /\ n * p <= a /\ a < n * (p + 1)
      BY <1>1, <1>2
    <2>2. q = p
      BY <1>2 DEF Quotient
    <2> HIDE DEF q, p
    <2>3. p * a >= 0
      BY <1>2, <2>1
    <2>4. Magnitude(p) = p /\ Magnitude(a) = a
      BY <1>2, <2>1 DEF Magnitude
    <2> QED BY <2>1, <2>2, <2>3, <2>4 DEF q
  <1>3. CASE a < 0
    <2> DEFINE b == -a
               p == b \div n
    <2>0. b \in Nat /\ a = -b
      BY <1>3
    <2>1. p \in Nat /\ n * p <= b /\ b < n * (p + 1)
      BY <1>1, <2>0
    <2>2. q = -p
      BY <1>3 DEF Quotient
    <2> HIDE DEF q, p, b
    <2>3. p * b \in Nat
      BY <2>0, <2>1
    <2>5. (-p) * (-b) = p * b
      BY <2>0, <2>1
    <2>4. Magnitude(-p) = p /\ Magnitude(a) = b
      BY <1>3, <2>0, <2>1 DEF Magnitude
    <2>6. q \in Int /\ q * a >= 0
      BY <2>0, <2>1, <2>2, <2>3, <2>5
    <2> QED BY <2>1, <2>2, <2>4, <2>6 DEF q
  <1> QED BY <1>2, <1>3

\* How many of four pixels have data.
LEMMA FourCounted ==
  ASSUME NEW f \in [0 .. 3 -> Int]
  PROVE  Cardinality({k \in 0 .. 3 : f[k] # Invalid}) =
           Counts(f[0]) + Counts(f[1]) + Counts(f[2]) + Counts(f[3])
PROOF
  <1> DEFINE S(n) == {k \in 0 .. n : f[k] # Invalid}
  <1>1. ASSUME NEW n \in 0 .. 3, NEW T, IsFiniteSet(T), T = {k \in 0 .. n - 1 : f[k] # Invalid}
        PROVE  IsFiniteSet(S(n)) /\ Cardinality(S(n)) = Cardinality(T) + Counts(f[n])
    <2>0. n \notin T /\ Cardinality(T) \in Nat
      BY <1>1, FS_CardinalityType
    <2>1. CASE f[n] # Invalid
      <3>1. S(n) = T \union {n}
        BY <1>1, <2>1
      <3>2. Cardinality(T \union {n}) = Cardinality(T) + 1 /\ IsFiniteSet(T \union {n})
        BY <1>1, <2>0, FS_AddElement
      <3>3. Counts(f[n]) = 1
        BY <2>1 DEF Counts
      <3> HIDE DEF S
      <3> QED BY <3>1, <3>2, <3>3
    <2>2. CASE f[n] = Invalid
      <3>1. S(n) = T
        BY <1>1, <2>2
      <3>2. Cardinality(T) + Counts(f[n]) = Cardinality(T)
        BY <2>0, <2>2 DEF Counts
      <3> HIDE DEF S
      <3> QED BY <1>1, <3>1, <3>2
    <2> QED BY <2>1, <2>2
  <1>2. {} = {k \in 0 .. 0 - 1 : f[k] # Invalid} /\ IsFiniteSet({}) /\ Cardinality({}) = 0
    BY FS_EmptySet
  <1>3. IsFiniteSet(S(0)) /\ Cardinality(S(0)) = 0 + Counts(f[0])
    BY <1>1, <1>2
  <1>4. IsFiniteSet(S(1)) /\ Cardinality(S(1)) = Cardinality(S(0)) + Counts(f[1])
    <2>1. S(0) = {k \in 0 .. 1 - 1 : f[k] # Invalid}
      OBVIOUS
    <2> QED BY <1>1, <1>3, <2>1
  <1>5. IsFiniteSet(S(2)) /\ Cardinality(S(2)) = Cardinality(S(1)) + Counts(f[2])
    <2>1. S(1) = {k \in 0 .. 2 - 1 : f[k] # Invalid}
      OBVIOUS
    <2> QED BY <1>1, <1>4, <2>1
  <1>6. Cardinality(S(3)) = Cardinality(S(2)) + Counts(f[3])
    <2>1. S(2) = {k \in 0 .. 3 - 1 : f[k] # Invalid}
      OBVIOUS
    <2> QED BY <1>1, <1>5, <2>1
  <1>7. 0 + Counts(f[0]) = Counts(f[0])
    BY DEF Counts
  <1> HIDE DEF S
  <1>8. Cardinality(S(3)) = Counts(f[0]) + Counts(f[1]) + Counts(f[2]) + Counts(f[3])
    BY <1>3, <1>4, <1>5, <1>6, <1>7
  <1> QED BY <1>8 DEF S

\* The average of a box is the mean of the four pixels below.
LEMMA MeanOfFour ==
  ASSUME NEW column \in Nat, NEW row \in Nat, NEW v \in [1 .. 4 -> Int],
         v[1] = Mosaic(2 * column, 2 * row), v[2] = Mosaic(2 * column + 1, 2 * row),
         v[3] = Mosaic(2 * column, 2 * row + 1), v[4] = Mosaic(2 * column + 1, 2 * row + 1)
  PROVE  BoxAverage(v) \in Int /\ IsMean(BoxAverage(v), column, row)
PROOF
  <1> DEFINE f == [k \in 0 .. 3 |-> Mosaic(2 * column + (k % 2), 2 * row + (k \div 2))]
             n == Counts(v[1]) + Counts(v[2]) + Counts(v[3]) + Counts(v[4])
             total == Value(v[1]) + Value(v[2]) + Value(v[3]) + Value(v[4])
             a == BoxAverage(v)
  <1>1. f[0] = v[1] /\ f[1] = v[2] /\ f[2] = v[3] /\ f[3] = v[4]
    <2>1. /\ 0 % 2 = 0 /\ 0 \div 2 = 0 /\ 1 % 2 = 1 /\ 1 \div 2 = 0
          /\ 2 % 2 = 0 /\ 2 \div 2 = 1 /\ 3 % 2 = 1 /\ 3 \div 2 = 1
      OBVIOUS
    <2>2. 2 * column + 0 = 2 * column /\ 2 * row + 0 = 2 * row
      OBVIOUS
    <2>3. 0 \in 0 .. 3 /\ 1 \in 0 .. 3 /\ 2 \in 0 .. 3 /\ 3 \in 0 .. 3
      OBVIOUS
    <2>4. \A k \in 0 .. 3 : f[k] = Mosaic(2 * column + (k % 2), 2 * row + (k \div 2))
      BY Zenon
    <2> HIDE DEF f
    <2>5. /\ f[0] = Mosaic(2 * column + (0 % 2), 2 * row + (0 \div 2))
          /\ f[1] = Mosaic(2 * column + (1 % 2), 2 * row + (1 \div 2))
          /\ f[2] = Mosaic(2 * column + (2 % 2), 2 * row + (2 \div 2))
          /\ f[3] = Mosaic(2 * column + (3 % 2), 2 * row + (3 \div 2))
      BY <2>3, <2>4, Zenon
    <2> QED BY <2>1, <2>2, <2>5, Zenon
  <1>2. v[1] \in Int /\ v[2] \in Int /\ v[3] \in Int /\ v[4] \in Int
    OBVIOUS
  <1>3. f \in [0 .. 3 -> Int]
    <2>1. DOMAIN f = 0 .. 3 /\ f = [k \in DOMAIN f |-> f[k]]
      OBVIOUS
    <2>2. \A k \in 0 .. 3 : k = 0 \/ k = 1 \/ k = 2 \/ k = 3
      OBVIOUS
    <2> HIDE DEF f
    <2>3. \A k \in 0 .. 3 : f[k] \in Int
      BY <1>1, <1>2, <2>2
    <2> QED BY <2>1, <2>3
  <1>4. Cardinality({k \in 0 .. 3 : Mosaic(2 * column + (k % 2), 2 * row + (k \div 2)) # Invalid}) = n
    <2>1. {k \in 0 .. 3 : Mosaic(2 * column + (k % 2), 2 * row + (k \div 2)) # Invalid} =
          {k \in 0 .. 3 : f[k] # Invalid}
      BY Zenon
    <2> HIDE DEF f
    <2> QED BY <1>1, <1>3, <2>1, FourCounted
  <1>5. n \in 0 .. 4 /\ total \in Int
    BY <1>2 DEF Counts, Value
  <1>6. BoxSums(v).value = total /\ BoxSums(v).numBoxEntries = n
    BY BoxOfFour
  <1>7. /\ a \in Int
        /\ IF n = 0 THEN a = Invalid
           ELSE /\ a * total >= 0
                /\ n * Magnitude(a) <= Magnitude(total) /\ Magnitude(total) < n * (Magnitude(a) + 1)
    <2> HIDE DEF n, total
    <2>1. CASE n = 0
      BY <1>6, <2>1, ImageAssumption DEF BoxAverage
    <2>2. CASE n # 0
      <3>1. n \in 1 .. 4
        BY <1>5, <2>2
      <3>2. a = Quotient(total, n)
        BY <1>6, <3>1 DEF BoxAverage
      <3> HIDE DEF a
      <3> QED BY <1>5, <2>2, <3>1, <3>2, QuotientMeans
    <2> QED BY <2>1, <2>2
  <1>8. /\ Value(f[0]) = IF f[0] = Invalid THEN 0 ELSE f[0]
        /\ Value(f[1]) = IF f[1] = Invalid THEN 0 ELSE f[1]
        /\ Value(f[2]) = IF f[2] = Invalid THEN 0 ELSE f[2]
        /\ Value(f[3]) = IF f[3] = Invalid THEN 0 ELSE f[3]
    BY DEF Value
  <1>9. /\ f[0] = Mosaic(2 * column + (0 % 2), 2 * row + (0 \div 2))
        /\ f[1] = Mosaic(2 * column + (1 % 2), 2 * row + (1 \div 2))
        /\ f[2] = Mosaic(2 * column + (2 % 2), 2 * row + (2 \div 2))
        /\ f[3] = Mosaic(2 * column + (3 % 2), 2 * row + (3 \div 2))
    <2>1. 0 \in 0 .. 3 /\ 1 \in 0 .. 3 /\ 2 \in 0 .. 3 /\ 3 \in 0 .. 3
      OBVIOUS
    <2> QED BY <2>1, Zenon
  <1> DEFINE sum == Value(f[0]) + Value(f[1]) + Value(f[2]) + Value(f[3])
  <1>10. sum = total
    <2> HIDE DEF f
    <2> QED BY <1>1
  <1>11. IsMean(a, column, row) <=>
           LET part(k) == IF f[k] = Invalid THEN 0 ELSE f[k]
               t == part(0) + part(1) + part(2) + part(3)
           IN  IF n = 0 THEN a = Invalid
               ELSE /\ a * t >= 0
                    /\ n * Magnitude(a) <= Magnitude(t) /\ Magnitude(t) < n * (Magnitude(a) + 1)
    <2> HIDE DEF f, a, n
    <2> QED BY <1>4, <1>9, Zenon DEF IsMean
  <1> HIDE DEF f, a, n, total, sum
  <1>12. IsMean(a, column, row)
    BY <1>7, <1>8, <1>10, <1>11, Zenon DEF sum
  <1> QED BY <1>7, <1>12 DEF a

-----------------------------------------------------------------------------
(* Pixels are numbered row by row.                                         *)

\* Division and remainder are what they are defined to be.
LEMMA DividedBy ==
  ASSUME NEW a \in Nat, NEW w \in Nat \ {0}, NEW q \in Nat, NEW r \in 0 .. w - 1, a = q * w + r
  PROVE  a \div w = q /\ a % w = r
PROOF OBVIOUS

\* A row and a column make a pixel.
LEMMA PixelAt ==
  ASSUME NEW w \in Nat \ {0}, NEW h \in Nat \ {0}, NEW column \in 0 .. w - 1, NEW row \in 0 .. h - 1
  PROVE  LET i == At(row, column, w)
         IN  i \in 1 .. w * h /\ Row(i, w) = row /\ Column(i, w) = column
PROOF
  <1> DEFINE a == row * w + column
  <1>1. a \in Nat
    OBVIOUS
  <1>2. a \div w = row /\ a % w = column
    BY <1>1, DividedBy
  <1>3. a + 1 <= w * h
    <2>1. (h - 1 - row) * w >= 0
      OBVIOUS
    <2>2. (h - 1 - row) * w = w * h - w - row * w
      OBVIOUS
    <2> QED BY <1>1, <2>1, <2>2
  <1>4. At(row, column, w) = a + 1 /\ (a + 1) - 1 = a /\ w * h \in Nat
    BY <1>1 DEF At
  <1> HIDE DEF a
  <1>5. a + 1 \in 1 .. w * h
    BY <1>1, <1>3, <1>4
  <1>6. Row(a + 1, w) = ((a + 1) - 1) \div w /\ Column(a + 1, w) = ((a + 1) - 1) % w
    BY DEF Row, Column
  <1> QED BY <1>2, <1>4, <1>5, <1>6, Zenon

\* Each pixel has a row and a column.
LEMMA PixelOf ==
  ASSUME NEW w \in Nat \ {0}, NEW h \in Nat \ {0}, NEW i \in 1 .. w * h
  PROVE  /\ Row(i, w) \in 0 .. h - 1 /\ Column(i, w) \in 0 .. w - 1
         /\ At(Row(i, w), Column(i, w), w) = i
PROOF
  <1> DEFINE a == i - 1
             d == a \div w
             e == a % w
  <1>1. a \in Nat /\ a < w * h /\ w * h \in Nat
    OBVIOUS
  <1>2. Row(i, w) = d /\ Column(i, w) = e /\ i = a + 1
    BY DEF Row, Column
  <1> HIDE DEF a
  <1>3. d \in Int /\ e \in 0 .. w - 1 /\ a = w * d + e
    BY <1>1
  <1> HIDE DEF d, e
  <1>4. d >= 0
    <2> SUFFICES ASSUME d <= -1 PROVE FALSE
      BY <1>3
    <2>1. w * (-1 - d) >= 0
      BY <1>3
    <2>2. w * (-1 - d) = -w - w * d
      BY <1>3
    <2> QED BY <1>1, <1>3, <2>1, <2>2
  <1>5. d <= h - 1
    <2> SUFFICES ASSUME d >= h PROVE FALSE
      BY <1>3
    <2>1. w * (d - h) >= 0
      BY <1>3
    <2>2. w * (d - h) = w * d - w * h
      BY <1>3
    <2> QED BY <1>1, <1>3, <2>1, <2>2
  <1>6. At(d, e, w) = a + 1
    <2>1. d * w = w * d
      BY <1>3
    <2> QED BY <1>3, <2>1 DEF At
  <1> QED BY <1>2, <1>3, <1>4, <1>5, <1>6

\* A tile of a mosaic of two by two has a quarter of its pixels.
LEMMA Halves == \A n \in Nat \ {0} : (2 * n) \div n = 2
PROOF
  <1> SUFFICES ASSUME NEW n \in Nat \ {0} PROVE (2 * n) \div n = 2
    OBVIOUS
  <1>1. 2 * n \in Nat /\ 2 * n = 2 * n + 0 /\ 0 \in 0 .. n - 1
    OBVIOUS
  <1> QED BY <1>1, DividedBy

\* The four pixels that a pixel of the mip tile is sampled from.
LEMMA BoxPlaces ==
  ASSUME NEW w \in Nat \ {0}, NEW column \in Nat, NEW row \in Nat
  PROVE  LET first == 1 + row * 2 * (2 * w) + column * 2
             Place(k) == first + (k - 1) + Row(k, 2) * (2 * w - 2)
         IN  /\ Place(1) = At(2 * row, 2 * column, 2 * w)
             /\ Place(2) = At(2 * row, 2 * column + 1, 2 * w)
             /\ Place(3) = At(2 * row + 1, 2 * column, 2 * w)
             /\ Place(4) = At(2 * row + 1, 2 * column + 1, 2 * w)
PROOF
  <1>1. Row(1, 2) = 0 /\ Row(2, 2) = 0 /\ Row(3, 2) = 1 /\ Row(4, 2) = 1
    BY DEF Row
  <1> DEFINE p == row * w
  <1>2. p \in Nat /\ row * 2 * (2 * w) = 4 * p /\ 2 * row * (2 * w) = 4 * p
        /\ (2 * row + 1) * (2 * w) = 4 * p + 2 * w
    OBVIOUS
  <1> HIDE DEF p
  <1> QED BY <1>1, <1>2 DEF At

\* SampleWithBoxFilter makes each pixel the mean of four.
LEMMA Sampled ==
  ASSUME NEW src \in [1 .. (2 * TileWidth) * (2 * TileHeight) -> Int],
         \A column \in 0 .. 2 * TileWidth - 1, row \in 0 .. 2 * TileHeight - 1 :
           src[At(row, column, 2 * TileWidth)] = Mosaic(column, row)
  PROVE  LET s == SampleWithBoxFilter(src, 2 * TileWidth, 2 * TileHeight, TileWidth, TileHeight)
         IN  /\ s \in [1 .. TilePixels -> Int]
             /\ \A column \in 0 .. TileWidth - 1, row \in 0 .. TileHeight - 1 :
                  IsMean(s[At(row, column, TileWidth)], column, row)
PROOF
  <1> DEFINE w == TileWidth
             h == TileHeight
             First(i) == 1 + Row(i, w) * 2 * (2 * w) + Column(i, w) * 2
             Box(i) == [k \in 1 .. 4 |-> src[First(i) + (k - 1) + Row(k, 2) * (2 * w - 2)]]
             s == SampleWithBoxFilter(src, 2 * w, 2 * h, w, h)
  <1>1. w \in Nat \ {0} /\ h \in Nat \ {0} /\ w * h = TilePixels
    BY TileSize
  <1>2. s = [i \in 1 .. TilePixels |-> BoxAverage(Box(i))]
    <2>1. (2 * w) \div w = 2 /\ (2 * h) \div h = 2 /\ 2 * 2 = 4
      BY <1>1, Halves
    <2> HIDE DEF w, h
    <2> QED BY <1>1, <2>1, Zenon DEF SampleWithBoxFilter
  <1> HIDE DEF s
  <1>3. ASSUME NEW i \in 1 .. TilePixels
        PROVE  /\ BoxAverage(Box(i)) \in Int
               /\ IsMean(BoxAverage(Box(i)), Column(i, w), Row(i, w))
    <2> DEFINE column == Column(i, w)
               row == Row(i, w)
               v == Box(i)
    <2>1. column \in 0 .. w - 1 /\ row \in 0 .. h - 1
      BY <1>1, PixelOf
    <2>2. /\ v[1] = src[First(i) + (1 - 1) + Row(1, 2) * (2 * w - 2)]
          /\ v[2] = src[First(i) + (2 - 1) + Row(2, 2) * (2 * w - 2)]
          /\ v[3] = src[First(i) + (3 - 1) + Row(3, 2) * (2 * w - 2)]
          /\ v[4] = src[First(i) + (4 - 1) + Row(4, 2) * (2 * w - 2)]
          /\ v = [k \in 1 .. 4 |-> v[k]]
      <3>1. 1 \in 1 .. 4 /\ 2 \in 1 .. 4 /\ 3 \in 1 .. 4 /\ 4 \in 1 .. 4
        OBVIOUS
      <3> QED BY <3>1, Zenon
    <2> HIDE DEF v, column, row, w, h
    <2>3. /\ v[1] = src[At(2 * row, 2 * column, 2 * w)]
          /\ v[2] = src[At(2 * row, 2 * column + 1, 2 * w)]
          /\ v[3] = src[At(2 * row + 1, 2 * column, 2 * w)]
          /\ v[4] = src[At(2 * row + 1, 2 * column + 1, 2 * w)]
      <3>0. column \in Nat /\ row \in Nat
        BY <2>1
      <3>1. First(i) = 1 + row * 2 * (2 * w) + column * 2
        BY Zenon DEF row, column
      <3> DEFINE first == 1 + row * 2 * (2 * w) + column * 2
      <3>2. /\ first + (1 - 1) + Row(1, 2) * (2 * w - 2) = At(2 * row, 2 * column, 2 * w)
            /\ first + (2 - 1) + Row(2, 2) * (2 * w - 2) = At(2 * row, 2 * column + 1, 2 * w)
            /\ first + (3 - 1) + Row(3, 2) * (2 * w - 2) = At(2 * row + 1, 2 * column, 2 * w)
            /\ first + (4 - 1) + Row(4, 2) * (2 * w - 2) = At(2 * row + 1, 2 * column + 1, 2 * w)
        BY <1>1, <3>0, BoxPlaces, Zenon
      <3>3. First(i) = first
        BY <3>1
      <3> HIDE DEF First, first
      <3> QED BY <2>2, <3>2, <3>3, Zenon
    <2>4. /\ 2 * column \in 0 .. 2 * w - 1 /\ 2 * column + 1 \in 0 .. 2 * w - 1
          /\ 2 * row \in 0 .. 2 * h - 1 /\ 2 * row + 1 \in 0 .. 2 * h - 1
          /\ 2 * w \in Nat \ {0} /\ 2 * h \in Nat \ {0} /\ column \in Nat /\ row \in Nat
      BY <1>1, <2>1
    <2>5. \A c \in 0 .. 2 * w - 1, r \in 0 .. 2 * h - 1 :
            src[At(r, c, 2 * w)] = Mosaic(c, r) /\ src[At(r, c, 2 * w)] \in Int
      <3>1. ASSUME NEW c \in 0 .. 2 * w - 1, NEW r \in 0 .. 2 * h - 1
            PROVE  src[At(r, c, 2 * w)] \in Int
        <4>1. At(r, c, 2 * w) \in 1 .. (2 * w) * (2 * h)
          BY <2>4, PixelAt
        <4>2. src \in [1 .. (2 * w) * (2 * h) -> Int]
          BY Zenon DEF w, h
        <4> HIDE DEF At
        <4> QED BY <4>1, <4>2
      <3>2. \A c \in 0 .. 2 * w - 1, r \in 0 .. 2 * h - 1 : src[At(r, c, 2 * w)] = Mosaic(c, r)
        BY Zenon DEF w, h
      <3> QED BY <3>1, <3>2, Zenon
    <2>6. /\ v[1] = Mosaic(2 * column, 2 * row) /\ v[2] = Mosaic(2 * column + 1, 2 * row)
          /\ v[3] = Mosaic(2 * column, 2 * row + 1) /\ v[4] = Mosaic(2 * column + 1, 2 * row + 1)
          /\ v[1] \in Int /\ v[2] \in Int /\ v[3] \in Int /\ v[4] \in Int
      BY <2>3, <2>4, <2>5, Zenon
    <2>7. v \in [1 .. 4 -> Int]
      <3>1. \A k \in 1 .. 4 : k = 1 \/ k = 2 \/ k = 3 \/ k = 4
        OBVIOUS
      <3>2. \A k \in 1 .. 4 : v[k] \in Int
        BY <2>6, <3>1, Zenon
      <3> QED BY <2>2, <3>2
    <2>8. BoxAverage(v) \in Int /\ IsMean(BoxAverage(v), column, row)
      BY <2>4, <2>6, <2>7, MeanOfFour, Zenon
    <2> QED BY <2>8, Zenon DEF v, column, row
  <1> HIDE DEF Box
  <1>4. s \in [1 .. TilePixels -> Int]
    BY <1>2, <1>3
  <1>5. ASSUME NEW column \in 0 .. w - 1, NEW row \in 0 .. h - 1
        PROVE  IsMean(s[At(row, column, w)], column, row)
    <2> DEFINE i == At(row, column, w)
    <2>1. i \in 1 .. TilePixels /\ Row(i, w) = row /\ Column(i, w) = column
      <3> HIDE DEF w, h
      <3>1. i \in 1 .. w * h /\ Row(i, w) = row /\ Column(i, w) = column
        BY <1>1, PixelAt, Zenon
      <3> QED BY <1>1, <3>1, Zenon
    <2> HIDE DEF i
    <2>2. s[i] = BoxAverage(Box(i))
      BY <1>2, <2>1
    <2> QED BY <1>3, <2>1, <2>2, Zenon DEF i
  <1> QED BY <1>4, <1>5 DEF s, w, h

\* One axis of a mosaic of two by two tiles.
LEMMA HalfOf ==
  ASSUME NEW n \in Nat \ {0}, NEW c \in 0 .. 2 * n - 1, NEW b \in 0 .. 1
  PROVE  /\ MinOf(2 * n - n * b, n) = n
         /\ c \div n \in 0 .. 1 /\ c % n \in 0 .. n - 1
         /\ c - n * b \in 0 .. n - 1 <=> c \div n = b
         /\ c \div n = b => c - n * b = c % n
PROOF
  <1>1. c \in Nat /\ (b = 0 \/ b = 1)
    OBVIOUS
  <1>2. CASE c < n
    <2>1. c = 0 * n + c /\ c \in 0 .. n - 1
      BY <1>2
    <2>2. c \div n = 0 /\ c % n = c
      BY <1>1, <2>1, DividedBy
    <2>3. CASE b = 0
      BY <1>1, <2>1, <2>2, <2>3 DEF MinOf
    <2>4. CASE b = 1
      BY <1>1, <2>1, <2>2, <2>4 DEF MinOf
    <2> QED BY <1>1, <2>3, <2>4
  <1>3. CASE c >= n
    <2>1. c = 1 * n + (c - n) /\ c - n \in 0 .. n - 1
      BY <1>3
    <2>2. c \div n = 1 /\ c % n = c - n
      BY <1>1, <2>1, DividedBy
    <2>3. CASE b = 0
      BY <1>1, <1>3, <2>1, <2>2, <2>3 DEF MinOf
    <2>4. CASE b = 1
      BY <1>1, <2>1, <2>2, <2>4 DEF MinOf
    <2> QED BY <1>1, <2>3, <2>4
  <1> QED BY <1>1, <1>2, <1>3

\* The four quarters of a mosaic are numbered as the sub-tiles are.
LEMMA FourQuarters ==
  ASSUME NEW q \in 0 .. 3, NEW a \in 0 .. 1, NEW b \in 0 .. 1
  PROVE  /\ q % 2 \in 0 .. 1 /\ q \div 2 \in 0 .. 1
         /\ a + 2 * b = q <=> a = q % 2 /\ b = q \div 2
PROOF OBVIOUS

\* CopyFromSubImage fills one quarter of the mosaic and leaves the others.
LEMMA Copied ==
  ASSUME NEW dst \in [1 .. (2 * TileWidth) * (2 * TileHeight) -> Int],
         NEW src \in [1 .. TilePixels -> Int], NEW q \in 0 .. 3
  PROVE  LET new == CopyFromSubImage(dst, 2 * TileWidth, 2 * TileHeight, src, TileWidth, TileHeight,
                                     TileWidth * (q % 2), TileHeight * (q \div 2))
         IN  /\ new \in [1 .. (2 * TileWidth) * (2 * TileHeight) -> Int]
             /\ \A column \in 0 .. 2 * TileWidth - 1, row \in 0 .. 2 * TileHeight - 1 :
                  new[At(row, column, 2 * TileWidth)] =
                    IF Quarter(column, row) = q
                    THEN src[At(row % TileHeight, column % TileWidth, TileWidth)]
                    ELSE dst[At(row, column, 2 * TileWidth)]
PROOF
  <1> DEFINE w == TileWidth
             h == TileHeight
             a == q % 2
             b == q \div 2
             new == CopyFromSubImage(dst, 2 * w, 2 * h, src, w, h, w * a, h * b)
             Pixel(column, row, i) ==
               IF row - h * b \in 0 .. h - 1 /\ column - w * a \in 0 .. w - 1
               THEN src[At(row - h * b, column - w * a, w)] ELSE dst[i]
  <1>1. w \in Nat \ {0} /\ h \in Nat \ {0} /\ w * h = TilePixels
    BY TileSize
  <1>2. a \in 0 .. 1 /\ b \in 0 .. 1
    BY FourQuarters
  <1>3. 2 * w \in Nat \ {0} /\ 2 * h \in Nat \ {0}
    BY <1>1
  <1>4. MinOf(2 * w - w * a, w) = w /\ MinOf(2 * h - h * b, h) = h
    <2>1. 0 \in 0 .. 2 * w - 1 /\ 0 \in 0 .. 2 * h - 1
      BY <1>1
    <2> HIDE DEF a, b, w, h
    <2> QED BY <1>1, <1>2, <2>1, HalfOf
  <1>5. DOMAIN dst = 1 .. (2 * w) * (2 * h)
    OBVIOUS
  <1> HIDE DEF a, b
  <1>6. new = [i \in 1 .. (2 * w) * (2 * h) |-> Pixel(Column(i, 2 * w), Row(i, 2 * w), i)]
    <2> HIDE DEF w, h
    <2> QED BY <1>4, <1>5, Zenon DEF CopyFromSubImage
  <1> HIDE DEF new
  <1>7. src \in [1 .. w * h -> Int] /\ dst \in [1 .. (2 * w) * (2 * h) -> Int]
    BY <1>1
  <1> HIDE DEF w, h
  <1>8. ASSUME NEW column \in 0 .. 2 * w - 1, NEW row \in 0 .. 2 * h - 1
        PROVE  \A i : Pixel(column, row, i) =
                        IF Quarter(column, row) = q THEN src[At(row % h, column % w, w)] ELSE dst[i]
    <2>1. /\ column \div w \in 0 .. 1 /\ column % w \in 0 .. w - 1
          /\ column - w * a \in 0 .. w - 1 <=> column \div w = a
          /\ column \div w = a => column - w * a = column % w
      BY <1>1, <1>2, HalfOf
    <2>2. /\ row \div h \in 0 .. 1 /\ row % h \in 0 .. h - 1
          /\ row - h * b \in 0 .. h - 1 <=> row \div h = b
          /\ row \div h = b => row - h * b = row % h
      BY <1>1, <1>2, HalfOf
    <2>3. Quarter(column, row) = q <=> column \div w = a /\ row \div h = b
      <3>1. Quarter(column, row) = (column \div w) + 2 * (row \div h)
        BY DEF Quarter, w, h
      <3>2. (column \div w) + 2 * (row \div h) = q <=>
              column \div w = q % 2 /\ row \div h = q \div 2
        BY <2>1, <2>2, FourQuarters
      <3> QED BY <3>1, <3>2, Zenon DEF a, b
    <2>4. CASE Quarter(column, row) = q
      <3>1. row - h * b = row % h /\ column - w * a = column % w
        BY <2>1, <2>2, <2>3, <2>4, Zenon
      <3>2. row - h * b \in 0 .. h - 1 /\ column - w * a \in 0 .. w - 1
        BY <2>1, <2>2, <2>3, <2>4, Zenon
      <3> QED BY <2>4, <3>1, <3>2, Zenon
    <2>5. CASE Quarter(column, row) # q
      <3>1. ~(row - h * b \in 0 .. h - 1 /\ column - w * a \in 0 .. w - 1)
        BY <2>1, <2>2, <2>3, <2>5, Zenon
      <3> QED BY <2>5, <3>1, Zenon
    <2> QED BY <2>4, <2>5
  <1>9. ASSUME NEW column \in 0 .. 2 * w - 1, NEW row \in 0 .. 2 * h - 1, NEW i \in 1 .. (2 * w) * (2 * h)
        PROVE  Pixel(column, row, i) \in Int
    <2>1. CASE Quarter(column, row) = q
      <3>1. row % h \in 0 .. h - 1 /\ column % w \in 0 .. w - 1
        BY <1>1, <1>2, HalfOf
      <3>2. At(row % h, column % w, w) \in 1 .. w * h
        BY <1>1, <3>1, PixelAt
      <3>3. src[At(row % h, column % w, w)] \in Int
        BY <1>7, <3>2
      <3> HIDE DEF Pixel
      <3> QED BY <1>8, <2>1, <3>3, Zenon
    <2>2. CASE Quarter(column, row) # q
      <3>1. dst[i] \in Int
        BY <1>7
      <3> HIDE DEF Pixel
      <3> QED BY <1>8, <2>2, <3>1, Zenon
    <2> QED BY <2>1, <2>2
  <1>10. new \in [1 .. (2 * w) * (2 * h) -> Int]
    <2>1. ASSUME NEW i \in 1 .. (2 * w) * (2 * h)
          PROVE  Pixel(Column(i, 2 * w), Row(i, 2 * w), i) \in Int
      <3>1. Row(i, 2 * w) \in 0 .. 2 * h - 1 /\ Column(i, 2 * w) \in 0 .. 2 * w - 1
        BY <1>3, PixelOf
      <3> HIDE DEF Pixel
      <3> QED BY <1>9, <3>1, Zenon
    <2> HIDE DEF Pixel
    <2> QED BY <1>6, <2>1
  <1>11. ASSUME NEW column \in 0 .. 2 * w - 1, NEW row \in 0 .. 2 * h - 1
         PROVE  new[At(row, column, 2 * w)] =
                  IF Quarter(column, row) = q THEN src[At(row % h, column % w, w)]
                  ELSE dst[At(row, column, 2 * w)]
    <2> DEFINE i == At(row, column, 2 * w)
    <2>1. i \in 1 .. (2 * w) * (2 * h) /\ Row(i, 2 * w) = row /\ Column(i, 2 * w) = column
      BY <1>3, PixelAt
    <2> HIDE DEF i, Pixel
    <2>2. new[i] = Pixel(column, row, i)
      BY <1>6, <2>1
    <2> QED BY <1>8, <2>2, Zenon DEF i
  <1> QED BY <1>10, <1>11 DEF new, w, h, a, b

-----------------------------------------------------------------------------
(* A step and the invariant.                                               *)

\* What is said of an image stays true while its pixels and its size stay.
LEMMA Stays ==
  ASSUME NEW m, Unmoved(m)
  PROVE  /\ Sized(m) => Sized(m)'
         /\ IsTile(m) => IsTile(m)'
         /\ HasNoPixels(m) => HasNoPixels(m)'
         /\ Raw(m)' = Raw(m)
PROOF
  BY DEF Unmoved, Sized, IsTile, HasNoPixels

\* Images that are as they were are still of the size they say.
LEMMA SizedStays ==
  ASSUME AllSized, DOMAIN images' \subseteq DOMAIN images, \A m \in DOMAIN images' : Unmoved(m)
  PROVE  AllSized'
PROOF
  <1>1. ASSUME NEW m \in DOMAIN images' PROVE Sized(m)'
    <2>1. Sized(m) /\ Unmoved(m)
      BY DEF AllSized
    <2> QED BY <2>1, Stays
  <1> QED BY <1>1 DEF AllSized

\* So they are if one of them is of its size anew.
LEMMA SizedBut ==
  ASSUME AllSized, NEW n, DOMAIN images' \subseteq DOMAIN images \union {n},
         \A m \in DOMAIN images \ {n} : Unmoved(m), Sized(n)'
  PROVE  AllSized'
PROOF
  <1>1. ASSUME NEW m \in DOMAIN images' PROVE Sized(m)'
    <2>1. CASE m = n
      BY <2>1
    <2>2. CASE m # n
      <3>1. Sized(m) /\ Unmoved(m)
        BY <2>2 DEF AllSized
      <3> QED BY <3>1, Stays
    <2> QED BY <2>1, <2>2
  <1> QED BY <1>1 DEF AllSized

Answering == {"render", "convert", "reply", "leave"}
Fetching == {"next tile", "request", "store", "leave tile"}
Mipping == Merging \union {"higher level", "store mip", "leave mip"}

\* Nothing is said of what is not being done.
LEMMA Elsewhere ==
  /\ pc' \notin Answering => AnswerInv'
  /\ pc' \notin Fetching => FetchInv'
  /\ pc' \notin Mipping => MipInv'
PROOF
  <1>1. pc' \notin Answering => AnswerInv'
    BY DEF Answering, AnswerInv
  <1>2. pc' \notin Fetching => FetchInv'
    BY DEF Fetching, FetchInv, StoredAsSent
  <1>3. pc' \notin Mipping => MipInv'
    BY DEF Mipping, Merging, MipInv, MipRight
  <1> QED BY <1>1, <1>2, <1>3

\* The counters stay in their bounds while they are not counted up.
LEMMA CountsStay ==
  ASSUME CountInv, sub' = sub, tiles' = tiles, pc' \in {"loaded", "copy", "leave sub-tile"} => sub < 4
  PROVE  CountInv'
PROOF BY DEF CountInv

\* What is on the stack depends on what is going on.
LEMMA Levels ==
  ASSUME IInv
  PROVE  /\ pc = "idle" => Len(images) = 0
         /\ pc \in Answering \union {"next tile", "higher level"} => Len(images) = 1
         /\ pc \in {"request", "store", "sub-tile", "leave tile"} => Len(images) = 2
         /\ pc \in {"copy", "leave sub-tile", "loaded", "store mip"} => Len(images) = 3
         /\ pc \in {"request", "store", "sub-tile", "copy", "leave sub-tile", "loaded"} =>
              images[2].raw # NULL
         /\ pc \in Fetching \union Mipping => Elevated
         /\ Balanced /\ DOMAIN images = 1 .. Len(images) /\ Len(images) \in Nat
PROOF
  <1>1. Balanced /\ DOMAIN images = 1 .. Len(images) /\ Len(images) \in Nat
    BY StackDomain DEF IInv
  <1>2. Shape
    BY DEF IInv
  <1> QED BY <1>1, <1>2, Zenon DEF Shape, Answering, Fetching, Mipping, Merging

\* What a new buffer holds is numbers.
LEMMA GarbageIsPixels ==
  /\ Filled(TileWidth * TileHeight, Garbage) \in [1 .. TilePixels -> Int]
PROOF
  <1>1. Filled(TilePixels, Garbage) \in [1 .. TilePixels -> {Garbage}]
    BY TileSize, FilledPixels
  <1>2. Garbage \in Int
    BY ImageAssumption
  <1> QED BY <1>1, <1>2, TileSize

\* An image for a tile is put on the stack.
LEMMA NewTile ==
  ASSUME Balanced, AllSized, NEW type, Push(Image(TileWidth, TileHeight, type)),
         NEW n, n = Len(images) + 1
  PROVE  /\ AllSized' /\ IsTile(n)'
         /\ \A m \in DOMAIN images : Unmoved(m)
PROOF
  <1> DEFINE s == Image(TileWidth, TileHeight, type)
  <1>1. /\ Owned(s, DOMAIN memory) /\ Kept(DOMAIN memory, memory, s.memory)
        /\ s.img.width = TileWidth /\ s.img.height = TileHeight /\ s.img.raw # NULL
        /\ Data(s.memory, s.img.raw) = Filled(TileWidth * TileHeight, Garbage)
    BY NewImage, TileHasPixels
  <1> HIDE DEF s
  <1>2. /\ images'[n] = s.img
        /\ Raw(n)' = Data(s.memory, s.img.raw)
        /\ \A m \in DOMAIN images : Unmoved(m)
    BY <1>1, PushPixels DEF s
  <1>3. DOMAIN images' = DOMAIN images \union {n}
    BY <1>1, PushBalanced DEF s
  <1>4. Raw(n)' \in [1 .. TilePixels -> Int]
    BY <1>1, <1>2, GarbageIsPixels
  <1>5. Sized(n)' /\ IsTile(n)'
    BY <1>1, <1>2, <1>4, TileSize DEF Sized, IsTile
  <1>6. AllSized'
    BY <1>2, <1>3, <1>5, SizedBut
  <1> QED BY <1>2, <1>5, <1>6

\* So is one without pixels.
LEMMA NewEmptyTile ==
  ASSUME Balanced, AllSized, NEW type, Push(Image(0, 0, type)), NEW n, n = Len(images) + 1
  PROVE  /\ AllSized' /\ HasNoPixels(n)'
         /\ \A m \in DOMAIN images : Unmoved(m)
PROOF
  <1> DEFINE s == Image(0, 0, type)
  <1>1. /\ Owned(s, DOMAIN memory) /\ Kept(DOMAIN memory, memory, s.memory)
        /\ s.img.width = 0 /\ s.img.height = 0 /\ s.img.raw = NULL
    BY NewImage
  <1> HIDE DEF s
  <1>2. images'[n] = s.img /\ \A m \in DOMAIN images : Unmoved(m)
    BY <1>1, PushPixels DEF s
  <1>3. DOMAIN images' = DOMAIN images \union {n}
    BY <1>1, PushBalanced DEF s
  <1>5. Sized(n)' /\ HasNoPixels(n)'
    BY <1>1, <1>2 DEF Sized, HasNoPixels
  <1>6. AllSized'
    BY <1>2, <1>3, <1>5, SizedBut
  <1> QED BY <1>2, <1>5, <1>6

\* The pixels of an image are written.
LEMMA TileFilled ==
  ASSUME Balanced, AllSized, NEW n \in DOMAIN images, images[n].raw # NULL,
         NEW pixels \in [1 .. images[n].width * images[n].height -> Int], Fill(n, pixels)
  PROVE  /\ AllSized' /\ Raw(n)' = pixels /\ images' = images
         /\ \A m \in DOMAIN images \ {n} : Unmoved(m)
PROOF
  <1>1. images' = images
    BY FillBalanced
  <1>2. Raw(n)' = pixels /\ \A m \in DOMAIN images \ {n} : Unmoved(m)
    BY FillPixels
  <1>3. Sized(n)'
    BY <1>1, <1>2 DEF Sized, AllSized
  <1>4. AllSized'
    BY <1>1, <1>2, <1>3, SizedBut
  <1> QED BY <1>1, <1>2, <1>4

\* A tile of the size it says has that many pixels.
LEMMA TileIsSized ==
  ASSUME AllSized, NEW n \in DOMAIN images, IsTile(n)
  PROVE  /\ Raw(n) \in [1 .. TilePixels -> Int]
         /\ images[n].width * images[n].height = TilePixels
PROOF BY TileSize DEF AllSized, Sized, IsTile

-----------------------------------------------------------------------------
(* An answer                                                               *)

\* The steps of an answer keep what is said of the pixels.
LEMMA AnswerPixels ==
  ASSUME IInv, IInv', PixelInv,
         BeginAnswer \/ Render \/ LayerFails \/ Convert \/ Reply \/ Leave
  PROVE  PixelInv'
PROOF
  <1>1. AllSized /\ AnswerInv /\ CountInv /\ Balanced /\ DOMAIN images = 1 .. Len(images)
    BY Levels DEF PixelInv
  <1>2. sub' = sub /\ tiles' = tiles /\ pc' \in Answering \union {"idle"}
    BY DEF BeginAnswer, Render, LayerFails, Convert, Reply, Leave, GoTo, Answering
  <1>3. FetchInv' /\ MipInv' /\ CountInv'
    <2>1. pc' \notin Fetching /\ pc' \notin Mipping /\ pc' \notin {"loaded", "copy", "leave sub-tile"}
      BY <1>2 DEF Answering, Fetching, Mipping, Merging
    <2>2. FetchInv' /\ MipInv'
      BY <2>1, Elsewhere
    <2>3. CountInv'
      BY <1>1, <1>2, <2>1, CountsStay
    <2> QED BY <2>2, <2>3
  <1>4. ASSUME Len(images) = 1
        PROVE  1 \in DOMAIN images /\ Top = 1 /\ TopImage = images[1] /\ Len(images) >= 1
    BY <1>1, <1>4 DEF Top, TopImage
  <1>5. AllSized' /\ AnswerInv'
    <2>1. CASE BeginAnswer
      <3>1. pc' = "render" /\ Len(images) = 0
        BY <2>1, Levels DEF BeginAnswer, GoTo
      <3>2. Push(Image(TileWidth, TileHeight, format'.type))
        BY <2>1 DEF BeginAnswer
      <3>3. 1 = Len(images) + 1
        BY <3>1
      <3>4. AllSized' /\ IsTile(1)'
        BY <1>1, <3>2, <3>3, NewTile
      <3> QED BY <3>1, <3>4 DEF AnswerInv
    <2>2. CASE Render
      <3>1. pc = "render" /\ pc' = "convert" /\ Len(images) = 1 /\ shown' \in Pictures
        BY <2>2, Levels DEF Render, GoTo, Answering
      <3>2. IsTile(1)
        BY <1>1, <3>1 DEF AnswerInv
      <3>3. Fill(1, shown')
        BY <1>4, <2>2, <3>1 DEF Render
      <3>4. shown' \in [1 .. images[1].width * images[1].height -> Int]
        BY <1>1, <1>4, <3>1, <3>2, PictureIsPixels, TileIsSized
      <3>5. AllSized' /\ Raw(1)' = shown' /\ images' = images
        BY <1>1, <1>4, <3>1, <3>2, <3>3, <3>4, TileFilled DEF IsTile
      <3> QED BY <3>1, <3>2, <3>5 DEF AnswerInv, IsTile
    <2>3. CASE LayerFails
      <3>1. pc = "render" /\ pc' = "leave" /\ UNCHANGED <<memory, images>>
        BY <2>3 DEF LayerFails, GoTo
      <3>2. images[1].processed = NULL
        BY <3>1 DEF IInv, Shape
      <3>3. AllSized'
        BY <1>1, <3>1, SameIsUnmoved, SizedStays
      <3> QED BY <3>1, <3>2, <3>3 DEF AnswerInv
    <2>4. CASE Convert
      <3> DEFINE s == ConvertRawImageToContentType(State(images[1]), format.content)
                 t == State(images[1])
      <3>1. pc = "convert" /\ pc' = "reply" /\ Len(images) = 1 /\ images[1].processed = NULL
        BY <2>4, Levels DEF Convert, GoTo, Answering, IInv, Shape
      <3>2. Change(1, s) /\ format' = format /\ shown' = shown
        BY <1>4, <2>4, <3>1 DEF Convert
      <3>3. Owned(t, Rest(1)) /\ t.img = images[1] /\ t.memory = memory
        BY <1>1, <1>4, <3>1, StateOwned DEF State
      <3> HIDE DEF t
      <3>4. /\ Owned(s, Rest(1)) /\ Kept(Rest(1), memory, s.memory)
            /\ s.img.content = format.content /\ Pictured(t, s)
        BY <3>1, <3>3, ConvertedOwned DEF t
      <3> HIDE DEF s
      <3>5. /\ images'[1] = s.img /\ memory' = s.memory
            /\ \A m \in DOMAIN images : Unmoved(m)
        BY <1>1, <1>4, <3>1, <3>2, <3>4, ChangePixels DEF t, Pictured
      <3>6. AllSized'
        <4>1. DOMAIN images' = DOMAIN images
          BY <1>1, <1>4, <3>1, <3>2, <3>4, ChangeBalanced
        <4> QED BY <1>1, <3>5, <4>1, SizedStays
      <3>7. IsTile(1) /\ Raw(1) = shown
        BY <1>1, <3>1 DEF AnswerInv
      <3>8. Data(t.memory, t.img.raw) = shown /\ t.img.width = TileWidth /\ t.img.height = TileHeight
        BY <3>3, <3>7 DEF Raw, IsTile
      <3>9. s.img.processed # NULL => Data(s.memory, s.img.processed) = Answer
        BY <3>4, <3>8 DEF Pictured, Answer
      <3>10. Answer' = Answer
        BY <3>2 DEF Answer
      <3>11. images'[1].processed # NULL => Data(memory', images'[1].processed) = Answer'
        BY <3>5, <3>9, <3>10
      <3> QED BY <3>1, <3>6, <3>11 DEF AnswerInv
    <2>5. CASE Reply
      <3>1. /\ pc = "reply" /\ pc' = "leave" /\ UNCHANGED <<memory, images>> /\ Len(images) = 1
            /\ format' = format /\ shown' = shown
        BY <2>5, Levels DEF Reply, GoTo, Answering
      <3>2. out' = Data(memory, images[1].processed)
        BY <1>4, <2>5, <3>1 DEF Reply
      <3>3. AllSized'
        BY <1>1, <3>1, SameIsUnmoved, SizedStays
      <3>4. Answer' = Answer /\ (images[1].processed # NULL => out' = Answer)
        BY <1>1, <3>1, <3>2 DEF AnswerInv, Answer
      <3> QED BY <3>1, <3>3, <3>4 DEF AnswerInv
    <2>6. CASE Leave
      <3>1. pc = "leave" /\ pc' = "idle" /\ Len(images) = 1 /\ Pop(Destroyed(State(TopImage)))
        BY <2>6, Levels DEF Leave, GoTo, Answering
      <3>2. /\ \A m \in DOMAIN images' : Unmoved(m)
            /\ DOMAIN images' \subseteq DOMAIN images
        BY <1>1, <1>4, <3>1, PopPixels, PopBalanced
      <3>3. AllSized'
        BY <1>1, <3>2, SizedStays
      <3> QED BY <3>1, <3>3, Elsewhere DEF Answering
    <2> QED BY <2>1, <2>2, <2>3, <2>4, <2>5, <2>6
  <1> QED BY <1>3, <1>5 DEF PixelInv

-----------------------------------------------------------------------------
(* Tiles are fetched                                                       *)

\* What is stored of an image of no pixels is an empty tile.
LEMMA EmptyStored ==
  ASSUME Balanced, NEW n \in DOMAIN images, HasNoPixels(n)
  PROVE  Raw(n) = <<>>
PROOF
  <1>1. NULL \notin DOMAIN memory
    BY RawIsThere
  <1> QED BY <1>1 DEF HasNoPixels, Raw, Data, Nothing

\* A tile is stored, and as an empty one when it has no data.
LEMMA TileStored ==
  ASSUME Balanced, Elevated, Len(images) \in 2 .. 3, HasNoPixels(1), IsTile(Top),
         Change(ToStore, Stored(ToStore))
  PROVE  /\ \A m \in DOMAIN images : Unmoved(m)
         /\ DOMAIN images' = DOMAIN images
         /\ Data(Stored(ToStore).memory, Stored(ToStore).img.processed) =
              IF IsImageCompletelyInvalid(Raw(Top)) THEN Encoded(0, 0, <<>>)
              ELSE Encoded(TileWidth, TileHeight, Raw(Top))
PROOF
  <1>1. ToStore \in DOMAIN images /\ 1 \in DOMAIN images
    <2>1. Len(images) >= 1 /\ DOMAIN images = 1 .. Len(images)
      BY StackDomain
    <2> QED BY <2>1, ToStoreThere
  <1>2. /\ \A m \in DOMAIN images : Unmoved(m)
        /\ Data(Stored(ToStore).memory, Stored(ToStore).img.processed) =
             Encoded(images[ToStore].width, images[ToStore].height, Raw(ToStore))
    BY <1>1, StorePixels
  <1>3. DOMAIN images' = DOMAIN images
    BY <1>1, StoreBalanced
  <1>4. CASE IsImageCompletelyInvalid(Raw(Top))
    <2>1. ToStore = 1
      BY <1>4 DEF ToStore
    <2>2. Raw(1) = <<>> /\ images[1].width = 0 /\ images[1].height = 0
      BY <1>1, EmptyStored DEF HasNoPixels
    <2> QED BY <1>2, <1>3, <1>4, <2>1, <2>2
  <1>5. CASE ~IsImageCompletelyInvalid(Raw(Top))
    <2>1. ToStore = Top
      BY <1>5 DEF ToStore
    <2> QED BY <1>2, <1>3, <1>5, <2>1 DEF IsTile
  <1> QED BY <1>4, <1>5

\* The body of an answer is read into the tile as far as it comes.
LEMMA TileRead ==
  ASSUME Balanced, AllSized, Len(images) = 2, IsTile(2), HasNoPixels(1), NEW count \in 0 .. TilePixels, Read(count)
  PROVE  /\ AllSized' /\ HasNoPixels(1)' /\ IsTile(2)'
         /\ count = TilePixels => Raw(2)' = shown'
PROOF
  <1> DEFINE pixels == SubSeq(shown', 1, count) \o SubSeq(Raw(2), count + 1, TilePixels)
  <1>1. 2 \in DOMAIN images /\ 1 \in DOMAIN images \ {2} /\ Top = 2
    BY StackDomain DEF Top
  <1>2. Fill(2, pixels) /\ shown' \in Pictures
    BY <1>1 DEF Read
  <1>3. shown' \in [1 .. TilePixels -> Int] /\ TilePixels \in Nat
    BY <1>2, PictureIsPixels, TileSize
  <1>4. Raw(2) \in [1 .. TilePixels -> Int] /\ images[2].width * images[2].height = TilePixels
    BY <1>1, TileIsSized
  <1>5. pixels \in [1 .. TilePixels -> Int] /\ (count = TilePixels => pixels = shown')
    <2> DEFINE p == shown'
               q == Raw(2)
    <2>1. p \in [1 .. TilePixels -> Int] /\ q \in [1 .. TilePixels -> Int]
      BY <1>3, <1>4
    <2> HIDE DEF p, q
    <2>2. LET r == SubSeq(p, 1, count) \o SubSeq(q, count + 1, TilePixels)
          IN  r \in [1 .. TilePixels -> Int] /\ (count = TilePixels => r = p)
      BY <1>3, <2>1, ReadOver
    <2> QED BY <2>2 DEF p, q
  <1> HIDE DEF pixels
  <1>6. images[2].raw # NULL
    BY DEF IsTile
  <1>7. /\ AllSized' /\ Raw(2)' = pixels /\ images' = images
        /\ \A m \in DOMAIN images \ {2} : Unmoved(m)
    BY <1>1, <1>2, <1>4, <1>5, <1>6, TileFilled
  <1>8. HasNoPixels(1)'
    BY <1>1, <1>7, Stays
  <1> QED BY <1>5, <1>7, <1>8 DEF IsTile

\* So do the steps of fetching tiles.
LEMMA FetchPixels ==
  ASSUME IInv, IInv', PixelInv,
         BeginFetching \/ BeginTile \/ ReadShort \/ ReadTile \/ StoreFetched \/ StoreFetchedFails
           \/ LeaveTile \/ EndFetching
  PROVE  PixelInv'
PROOF
  <1>1. AllSized /\ FetchInv /\ CountInv /\ Balanced /\ DOMAIN images = 1 .. Len(images)
    BY Levels DEF PixelInv
  <1>2. sub' = sub /\ pc' \in Fetching \union {"idle"}
    BY DEF BeginFetching, BeginTile, ReadShort, ReadTile, Read, StoreFetched, StoreFetchedFails,
           LeaveTile, EndFetching, GoTo, Fetching
  <1>3. AnswerInv' /\ MipInv'
    <2>1. pc' \notin Answering /\ pc' \notin Mipping
      BY <1>2 DEF Answering, Fetching, Mipping, Merging
    <2> QED BY <2>1, Elsewhere
  <1>4. CountInv'
    <2>1. tiles' = tiles \/ (tiles < MaxTiles /\ tiles' = tiles + 1)
      BY DEF BeginFetching, BeginTile, ReadShort, ReadTile, Read, StoreFetched, StoreFetchedFails,
             LeaveTile, EndFetching
    <2>4. tiles \in 0 .. MaxTiles /\ MaxTiles \in Nat
      BY <1>1, ImageAssumption DEF CountInv
    <2>2. tiles' \in 0 .. MaxTiles
      BY <2>1, <2>4
    <2>3. pc' \notin {"loaded", "copy", "leave sub-tile"}
      BY <1>2 DEF Fetching
    <2> QED BY <1>1, <1>2, <2>2, <2>3 DEF CountInv
  <1>5. AllSized' /\ FetchInv'
    <2>1. CASE BeginFetching
      <3>0. Len(images) = 0
        BY <2>1, Levels DEF BeginFetching, GoTo
      <3>1. pc' = "next tile" /\ Push(Image(0, 0, "S16"))
        BY <2>1 DEF BeginFetching, GoTo
      <3>2. 1 = Len(images) + 1
        BY <3>0
      <3>3. AllSized' /\ HasNoPixels(1)'
        BY <1>1, <3>1, <3>2, NewEmptyTile
      <3> QED BY <3>1, <3>3 DEF FetchInv, StoredAsSent
    <2>2. CASE BeginTile
      <3>0. Len(images) = 1
        BY <2>2, Levels DEF BeginTile, GoTo
      <3>1. pc = "next tile" /\ pc' = "request" /\ Push(Image(TileWidth, TileHeight, "S16"))
        BY <2>2 DEF BeginTile, GoTo
      <3>2. 2 = Len(images) + 1 /\ 1 \in DOMAIN images
        BY <1>1, <3>0
      <3>3. AllSized' /\ IsTile(2)' /\ Unmoved(1)
        BY <1>1, <3>1, <3>2, NewTile
      <3>4. HasNoPixels(1)'
        BY <1>1, <3>1, <3>3, Stays DEF FetchInv
      <3> QED BY <3>1, <3>3, <3>4 DEF FetchInv, StoredAsSent
    <2>3. CASE ReadShort \/ ReadTile
      <3>1. PICK count \in 0 .. TilePixels :
              Read(count) /\ (pc' = "request" \/ (pc' = "store" /\ count = TilePixels))
        <4>1. TilePixels \in Nat /\ 0 .. TilePixels - 1 \subseteq 0 .. TilePixels /\ TilePixels \in 0 .. TilePixels
          BY TileSize
        <4> QED BY <2>3, <4>1 DEF ReadShort, ReadTile, GoTo
      <3>2. pc = "request" /\ Len(images) = 2
        BY <2>3, Levels DEF ReadShort, ReadTile, GoTo
      <3>3. HasNoPixels(1) /\ IsTile(2)
        BY <1>1, <3>2 DEF FetchInv
      <3>4. /\ AllSized' /\ HasNoPixels(1)' /\ IsTile(2)'
            /\ count = TilePixels => Raw(2)' = shown'
        BY <1>1, <3>1, <3>2, <3>3, TileRead
      <3> QED BY <3>1, <3>4 DEF FetchInv, StoredAsSent
    <2>4. CASE StoreFetched \/ StoreFetchedFails
      <3>1. pc = "store" /\ Len(images) = 2 /\ Elevated /\ shown' = shown
        BY <2>4, Levels DEF StoreFetched, StoreFetchedFails, GoTo, Fetching
      <3>2. HasNoPixels(1) /\ IsTile(2) /\ Raw(2) = shown /\ Top = 2
        BY <1>1, <3>1 DEF FetchInv, Top
      <3>3. 1 \in DOMAIN images /\ 2 \in DOMAIN images /\ Len(images) \in 2 .. 3
        BY <1>1, <3>1
      <3>4. UNCHANGED <<memory, images>> \/ Change(ToStore, Stored(ToStore))
        BY <2>4 DEF StoreFetched, StoreFetchedFails
      <3>5. /\ \A m \in DOMAIN images : Unmoved(m)
            /\ DOMAIN images' = DOMAIN images
        <4>1. CASE UNCHANGED <<memory, images>>
          BY <4>1, SameIsUnmoved
        <4>2. CASE Change(ToStore, Stored(ToStore))
          BY <1>1, <3>1, <3>2, <3>3, <4>2, TileStored
        <4> QED BY <3>4, <4>1, <4>2
      <3>6. AllSized' /\ HasNoPixels(1)' /\ IsTile(2)'
        BY <1>1, <3>2, <3>3, <3>5, SizedStays, Stays
      <3>7. CASE StoreFetched
        <4>1. /\ pc' = "leave tile" /\ Change(ToStore, Stored(ToStore))
              /\ out' = Data(Stored(ToStore).memory, Stored(ToStore).img.processed)
          BY <3>7 DEF StoreFetched, GoTo
        <4>2. out' = IF IsImageCompletelyInvalid(shown) THEN Encoded(0, 0, <<>>)
                     ELSE Encoded(TileWidth, TileHeight, shown)
          <5>1. Data(Stored(ToStore).memory, Stored(ToStore).img.processed) =
                  IF IsImageCompletelyInvalid(Raw(Top)) THEN Encoded(0, 0, <<>>)
                  ELSE Encoded(TileWidth, TileHeight, Raw(Top))
            BY <1>1, <3>1, <3>2, <3>3, <4>1, TileStored
          <5> QED BY <3>2, <4>1, <5>1
        <4> QED BY <3>1, <3>6, <4>1, <4>2 DEF FetchInv, StoredAsSent
      <3>8. CASE StoreFetchedFails
        <4>1. pc' = "request"
          BY <3>8 DEF StoreFetchedFails, GoTo
        <4> QED BY <3>6, <4>1 DEF FetchInv, StoredAsSent
      <3> QED BY <2>4, <3>7, <3>8
    <2>5. CASE LeaveTile \/ EndFetching
      <3>0. /\ \/ pc = "leave tile" /\ pc' = "next tile" /\ Len(images) = 2
               \/ pc = "next tile" /\ pc' = "idle" /\ Len(images) = 1
        BY <2>5, Levels, Zenon DEF LeaveTile, EndFetching, GoTo
      <3>1. Pop(Destroyed(State(TopImage)))
        BY <2>5 DEF LeaveTile, EndFetching
      <3>2. Len(images) >= 1
        <4>1. Len(images) = 1 \/ Len(images) = 2
          BY <3>0, Zenon
        <4> QED BY <4>1
      <3>3. /\ \A m \in DOMAIN images' : Unmoved(m)
            /\ DOMAIN images' = DOMAIN images \ {Len(images)}
        BY <1>1, <3>1, <3>2, PopPixels, PopBalanced
      <3>4. AllSized'
        BY <1>1, <3>3, SizedStays
      <3>5. CASE pc' = "next tile"
        <4>0. Len(images) = 2 /\ pc = "leave tile"
          BY <3>0, <3>5
        <4>1. 1 \in DOMAIN images' /\ HasNoPixels(1)
          <5>1. Len(images) = 2
            BY <4>0
          <5>2. 1 \in DOMAIN images \ {Len(images)}
            BY <1>1, <5>1
          <5> QED BY <1>1, <3>3, <4>0, <5>2 DEF FetchInv
        <4>2. HasNoPixels(1)'
          BY <3>3, <4>1, Stays
        <4> QED BY <3>4, <3>5, <4>2 DEF FetchInv, StoredAsSent
      <3>6. CASE pc' = "idle"
        BY <3>4, <3>6, Elsewhere DEF Fetching
      <3> QED BY <3>0, <3>5, <3>6
    <2> QED BY <2>1, <2>2, <2>3, <2>4, <2>5
  <1> QED BY <1>3, <1>4, <1>5 DEF PixelInv

-----------------------------------------------------------------------------
(* A mip tile                                                              *)

\* Each pixel of the mosaic is in one of four sub-tiles.
LEMMA QuarterOf ==
  ASSUME NEW column \in 0 .. 2 * TileWidth - 1, NEW row \in 0 .. 2 * TileHeight - 1
  PROVE  /\ Quarter(column, row) \in 0 .. 3
         /\ 1 + (column \div TileWidth) + 2 * (row \div TileHeight) = Quarter(column, row) + 1
PROOF
  <1> DEFINE a == column \div TileWidth
             b == row \div TileHeight
  <1>1. a \in 0 .. 1 /\ b \in 0 .. 1
    <2>1. TileWidth \in Nat \ {0} /\ TileHeight \in Nat \ {0} /\ 0 \in 0 .. 1
      BY TileSize
    <2> QED BY <2>1, HalfOf
  <1>2. Quarter(column, row) = a + 2 * b
    BY DEF Quarter
  <1> HIDE DEF a, b
  <1>3. a + 2 * b \in 0 .. 3 /\ 1 + a + 2 * b = (a + 2 * b) + 1
    BY <1>1
  <1> QED BY <1>2, <1>3, Zenon DEF a, b

\* The mosaic has, at each place, the pixel of the sub-tile that is there.
LEMMA MosaicAt ==
  ASSUME NEW column \in 0 .. 2 * TileWidth - 1, NEW row \in 0 .. 2 * TileHeight - 1
  PROVE  LET tile == shown[Quarter(column, row) + 1]
         IN  Mosaic(column, row) =
               IF tile = Nothing THEN Invalid
               ELSE tile[At(row % TileHeight, column % TileWidth, TileWidth)]
PROOF BY QuarterOf, Zenon DEF Mosaic

\* A pixel of the mosaic is as it was if its sub-tile is.
LEMMA MosaicSame ==
  ASSUME NEW column \in 0 .. 2 * TileWidth - 1, NEW row \in 0 .. 2 * TileHeight - 1,
         shown'[Quarter(column, row) + 1] = shown[Quarter(column, row) + 1]
  PROVE  Mosaic(column, row)' = Mosaic(column, row)
PROOF BY QuarterOf, Zenon DEF Mosaic

\* The mosaic is as it was if its pixels and the sub-tiles are.
LEMMA MosaicKept ==
  ASSUME MosaicInv, Unmoved(2), shown' = shown, Waiting' = Waiting
  PROVE  MosaicInv'
PROOF
  <1>1. Raw(2)' = Raw(2) /\ images'[2].width = images[2].width /\ images'[2].height = images[2].height
    BY DEF Unmoved
  <1>2. Merged(Waiting)'
    <2>1. ASSUME NEW column \in 0 .. 2 * TileWidth - 1, NEW row \in 0 .. 2 * TileHeight - 1
          PROVE  (Raw(2)[At(row, column, 2 * TileWidth)] =
                    IF Quarter(column, row) = Waiting THEN Invalid ELSE Mosaic(column, row))'
      <3>1. Mosaic(column, row)' = Mosaic(column, row)
        BY MosaicSame
      <3>2. Raw(2)[At(row, column, 2 * TileWidth)] =
                    IF Quarter(column, row) = Waiting THEN Invalid ELSE Mosaic(column, row)
        BY Zenon DEF MosaicInv, Merged
      <3> QED BY <1>1, <3>1, <3>2, Zenon
    <2> QED BY <2>1, Zenon DEF Merged
  <1> QED BY <1>1, <1>2 DEF MosaicInv

\* The mosaic of a tile begins without any.
LEMMA MosaicBegins ==
  ASSUME images'[2].width = 2 * TileWidth, images'[2].height = 2 * TileHeight,
         Raw(2)' = Filled(4 * TilePixels, Invalid), shown' = Filled(4, Nothing),
         Waiting' = NoSubTile
  PROVE  MosaicInv' /\ NoneFrom(1)'
PROOF
  <1>1. /\ shown' \in [1 .. 4 -> Pictures \union {Nothing}]
        /\ \A k \in 1 .. 4 : shown'[k] = Nothing
    BY DEF Filled
  <1>2. ASSUME NEW column \in 0 .. 2 * TileWidth - 1, NEW row \in 0 .. 2 * TileHeight - 1
        PROVE  (Raw(2)[At(row, column, 2 * TileWidth)] =
                    IF Quarter(column, row) = Waiting THEN Invalid ELSE Mosaic(column, row))'
    <2>1. At(row, column, 2 * TileWidth) \in 1 .. 4 * TilePixels
      <3>1. /\ 2 * TileWidth \in Nat \ {0} /\ 2 * TileHeight \in Nat \ {0}
            /\ (2 * TileWidth) * (2 * TileHeight) = 4 * TilePixels
        BY TileSize
      <3>2. At(row, column, 2 * TileWidth) \in 1 .. (2 * TileWidth) * (2 * TileHeight)
        BY <3>1, PixelAt, Zenon
      <3> QED BY <3>1, <3>2, Zenon
    <2>2. Raw(2)'[At(row, column, 2 * TileWidth)] = Invalid
      BY <2>1, Zenon DEF Filled
    <2>3. Mosaic(column, row)' = Invalid
      <3>1. Quarter(column, row) \in 0 .. 3
        BY QuarterOf
      <3>2. Quarter(column, row) + 1 \in 1 .. 4
        BY <3>1
      <3>3. shown'[1 + (column \div TileWidth) + 2 * (row \div TileHeight)] = Nothing
        BY <1>1, <3>2, QuarterOf, Zenon
      <3> QED BY <3>3, Zenon DEF Mosaic
    <2> QED BY <2>2, <2>3, Zenon
  <1>3. Merged(Waiting)'
    BY <1>2, Zenon DEF Merged
  <1>4. NoneFrom(1)'
    BY <1>1 DEF NoneFrom
  <1> QED BY <1>1, <1>3, <1>4 DEF MosaicInv

\* A sub-tile is loaded, and waits to be copied.
LEMMA MosaicWaits ==
  ASSUME MosaicInv, Waiting = NoSubTile, Unmoved(2), sub \in 0 .. 3, sub' = sub,
         Waiting' = sub, NoneFrom(sub + 1),
         \/ shown' = shown
         \/ \E picture \in Pictures : shown' = [shown EXCEPT ![sub + 1] = picture]
  PROVE  MosaicInv' /\ NoneFrom(sub + 2)'
PROOF
  <1>1. /\ Raw(2)' = Raw(2) /\ images'[2].width = images[2].width
        /\ images'[2].height = images[2].height
    BY DEF Unmoved
  <1>2. shown \in [1 .. 4 -> Pictures \union {Nothing}]
    BY DEF MosaicInv
  <1>3. sub + 1 \in 1 .. 4 /\ sub \in Nat
    OBVIOUS
  <1>4. /\ shown' \in [1 .. 4 -> Pictures \union {Nothing}]
        /\ \A k \in 1 .. 4 : k # sub + 1 => shown'[k] = shown[k]
    BY <1>2, <1>3
  <1>5. \A k \in sub + 1 .. 4 : shown[k] = Nothing
    BY DEF NoneFrom
  <1>6. ASSUME NEW column \in 0 .. 2 * TileWidth - 1, NEW row \in 0 .. 2 * TileHeight - 1
        PROVE  (Raw(2)[At(row, column, 2 * TileWidth)] =
                    IF Quarter(column, row) = Waiting THEN Invalid ELSE Mosaic(column, row))'
    <2>1. Quarter(column, row) \in 0 .. 3
      BY QuarterOf
    <2>2. Quarter(column, row) + 1 \in 1 .. 4 /\ Quarter(column, row) # NoSubTile
      BY <2>1 DEF NoSubTile
    <2>3. Raw(2)[At(row, column, 2 * TileWidth)] = Mosaic(column, row)
      BY <2>2, Zenon DEF MosaicInv, Merged
    <2>4. CASE Quarter(column, row) = sub
      <3>1. sub + 1 \in sub + 1 .. 4
        BY <1>3
      <3>2. shown[Quarter(column, row) + 1] = Nothing
        BY <1>5, <2>4, <3>1, Zenon
      <3>3. Mosaic(column, row) = Invalid
        BY <3>2, MosaicAt, Zenon
      <3> QED BY <1>1, <2>3, <2>4, <3>3, Zenon
    <2>5. CASE Quarter(column, row) # sub
      <3>1. Quarter(column, row) + 1 # sub + 1
        BY <1>3, <2>1, <2>5
      <3>2. Mosaic(column, row)' = Mosaic(column, row)
        BY <1>4, <2>2, <3>1, MosaicSame, Zenon
      <3> QED BY <1>1, <2>3, <2>5, <3>2, Zenon
    <2> QED BY <2>4, <2>5
  <1>7. Merged(Waiting)'
    BY <1>6, Zenon DEF Merged
  <1>8. ASSUME NEW n, n = sub + 2
        PROVE  \A k \in n .. 4 : shown'[k] = Nothing
    <2>1. \A k \in n .. 4 : k \in sub + 1 .. 4 /\ k # sub + 1 /\ k \in 1 .. 4
      BY <1>3, <1>8
    <2> QED BY <1>4, <1>5, <2>1, Zenon
  <1>9. \A k \in sub + 2 .. 4 : shown'[k] = Nothing
    BY <1>8
  <1>10. NoneFrom(sub + 2)'
    BY <1>9 DEF NoneFrom
  <1>11. MosaicInv'
    BY <1>1, <1>4, <1>7 DEF MosaicInv
  <1> QED BY <1>10, <1>11

\* The sub-tile that waits is not there.
LEMMA MosaicSkips ==
  ASSUME MosaicInv, Waiting = sub, sub \in 0 .. 3, shown[sub + 1] = Nothing, Unmoved(2),
         shown' = shown, Waiting' = NoSubTile
  PROVE  MosaicInv'
PROOF
  <1>1. /\ Raw(2)' = Raw(2) /\ images'[2].width = images[2].width
        /\ images'[2].height = images[2].height
    BY DEF Unmoved
  <1>2. ASSUME NEW column \in 0 .. 2 * TileWidth - 1, NEW row \in 0 .. 2 * TileHeight - 1
        PROVE  (Raw(2)[At(row, column, 2 * TileWidth)] =
                    IF Quarter(column, row) = Waiting THEN Invalid ELSE Mosaic(column, row))'
    <2>1. Quarter(column, row) # NoSubTile
      <3>1. Quarter(column, row) \in 0 .. 3
        BY QuarterOf
      <3> QED BY <3>1 DEF NoSubTile
    <2>2. Mosaic(column, row)' = Mosaic(column, row)
      BY MosaicSame, Zenon
    <2>3. Raw(2)[At(row, column, 2 * TileWidth)] =
            IF Quarter(column, row) = sub THEN Invalid ELSE Mosaic(column, row)
      BY Zenon DEF MosaicInv, Merged
    <2>4. Quarter(column, row) = sub => Mosaic(column, row) = Invalid
      BY MosaicAt, Zenon
    <2> QED BY <1>1, <2>1, <2>2, <2>3, <2>4, Zenon
  <1>3. Merged(Waiting)'
    BY <1>2, Zenon DEF Merged
  <1> QED BY <1>1, <1>3 DEF MosaicInv

\* The sub-tile that waits is copied.
LEMMA MosaicGrows ==
  ASSUME MosaicInv, Waiting = sub, sub \in 0 .. 3, shown[sub + 1] \in Pictures,
         Raw(2) \in [1 .. (2 * TileWidth) * (2 * TileHeight) -> Int],
         images' = images, shown' = shown, Waiting' = NoSubTile,
         Raw(2)' = CopyFromSubImage(Raw(2), 2 * TileWidth, 2 * TileHeight,
                     shown[sub + 1], TileWidth, TileHeight,
                     TileWidth * (sub % 2), TileHeight * (sub \div 2))
  PROVE  MosaicInv' /\ Raw(2)' \in [1 .. (2 * TileWidth) * (2 * TileHeight) -> Int]
PROOF
  <1> DEFINE dst == Raw(2)
             src == shown[sub + 1]
             new == CopyFromSubImage(dst, 2 * TileWidth, 2 * TileHeight, src, TileWidth, TileHeight,
                                     TileWidth * (sub % 2), TileHeight * (sub \div 2))
  <1>1. src \in [1 .. TilePixels -> Int] /\ src # Nothing
    BY PictureIsPixels
  <1>2. dst \in [1 .. (2 * TileWidth) * (2 * TileHeight) -> Int]
    OBVIOUS
  <1> HIDE DEF dst, src
  <1>3. /\ new \in [1 .. (2 * TileWidth) * (2 * TileHeight) -> Int]
        /\ \A column \in 0 .. 2 * TileWidth - 1, row \in 0 .. 2 * TileHeight - 1 :
             new[At(row, column, 2 * TileWidth)] =
               IF Quarter(column, row) = sub
               THEN src[At(row % TileHeight, column % TileWidth, TileWidth)]
               ELSE dst[At(row, column, 2 * TileWidth)]
    BY <1>1, <1>2, Copied, Zenon
  <1>4. Raw(2)' = new
    BY Zenon DEF new, dst, src
  <1> HIDE DEF new
  <1>5. ASSUME NEW column \in 0 .. 2 * TileWidth - 1, NEW row \in 0 .. 2 * TileHeight - 1
        PROVE  (Raw(2)[At(row, column, 2 * TileWidth)] =
                    IF Quarter(column, row) = Waiting THEN Invalid ELSE Mosaic(column, row))'
    <2>1. Quarter(column, row) # NoSubTile
      <3>1. Quarter(column, row) \in 0 .. 3
        BY QuarterOf
      <3> QED BY <3>1 DEF NoSubTile
    <2>2. Mosaic(column, row)' = Mosaic(column, row)
      BY MosaicSame, Zenon
    <2>3. dst[At(row, column, 2 * TileWidth)] =
            IF Quarter(column, row) = sub THEN Invalid ELSE Mosaic(column, row)
      BY Zenon DEF MosaicInv, Merged, dst
    <2>4. new[At(row, column, 2 * TileWidth)] =
               IF Quarter(column, row) = sub
               THEN src[At(row % TileHeight, column % TileWidth, TileWidth)]
               ELSE dst[At(row, column, 2 * TileWidth)]
      BY <1>3, Zenon
    <2>5. CASE Quarter(column, row) = sub
      <3>1. Mosaic(column, row) = src[At(row % TileHeight, column % TileWidth, TileWidth)]
        BY <1>1, <2>5, MosaicAt, Zenon DEF src
      <3> QED BY <1>4, <2>1, <2>2, <2>4, <2>5, <3>1, Zenon
    <2>6. CASE Quarter(column, row) # sub
      BY <1>4, <2>1, <2>2, <2>3, <2>4, <2>6, Zenon
    <2> QED BY <2>5, <2>6
  <1>6. Merged(Waiting)'
    BY <1>5, Zenon DEF Merged
  <1> QED BY <1>3, <1>4, <1>6 DEF MosaicInv

\* pixels are written into the buffer of a new image
Written(s, pixels) == [s EXCEPT !.memory = With(@, s.img.raw, "new", pixels)]

\* An image is put on the stack whose pixels are known.
LEMMA NewFilled ==
  ASSUME Balanced, AllSized, NEW width \in Nat, NEW height \in Nat, width * height # 0, NEW type,
         NEW pixels \in [1 .. width * height -> Int], NEW n, n = Len(images) + 1,
         Push(Written(Image(width, height, type), pixels))
  PROVE  /\ AllSized' /\ Raw(n)' = pixels
         /\ images'[n].raw # NULL /\ images'[n].width = width /\ images'[n].height = height
         /\ \A m \in DOMAIN images : Unmoved(m)
PROOF
  <1> DEFINE s == Image(width, height, type)
             t == Written(s, pixels)
  <1>1. /\ Owned(s, DOMAIN memory) /\ Kept(DOMAIN memory, memory, s.memory)
        /\ s.img.width = width /\ s.img.height = height /\ s.img.raw # NULL
    BY NewImage
  <1>2. Push(t)
    BY Zenon
  <1> HIDE DEF s
  <1>3. /\ Owned(t, DOMAIN memory) /\ Kept(DOMAIN memory, s.memory, t.memory) /\ t.img = s.img
        /\ Data(t.memory, t.img.raw) = pixels
    BY <1>1, WrittenOwned, Zenon DEF Written
  <1> HIDE DEF t
  <1>4. Kept(DOMAIN memory, memory, t.memory)
    BY <1>1, <1>3 DEF Kept
  <1>5. /\ images'[n] = t.img /\ Raw(n)' = pixels
        /\ \A m \in DOMAIN images : Unmoved(m)
    BY <1>2, <1>3, <1>4, PushPixels
  <1>6. DOMAIN images' = DOMAIN images \union {n}
    BY <1>2, <1>3, <1>4, PushBalanced
  <1>7. images'[n].raw # NULL /\ images'[n].width = width /\ images'[n].height = height
    BY <1>1, <1>3, <1>5
  <1>8. Sized(n)'
    BY <1>5, <1>7 DEF Sized
  <1>9. AllSized'
    BY <1>5, <1>6, <1>8, SizedBut
  <1> QED BY <1>5, <1>7, <1>9

\* The steps of a mip tile, one by one: its first image has no pixels.
LEMMA BeginMipPixels ==
  ASSUME IInv, PixelInv, BeginMip
  PROVE  AllSized' /\ CountInv' /\ MipInv'
PROOF
  <1>1. AllSized /\ CountInv /\ Balanced
    BY Levels DEF PixelInv
  <1>2. Len(images) = 0
    BY Levels DEF BeginMip, GoTo
  <1>3. 1 = Len(images) + 1
    BY <1>2
  <1>4. Push(Image(0, 0, "S16")) /\ pc' = "higher level" /\ out' = Nothing /\ sub' = sub /\ tiles' = tiles
    BY DEF BeginMip, GoTo
  <1>5. AllSized' /\ HasNoPixels(1)'
    BY <1>1, <1>3, <1>4, NewEmptyTile
  <1>6. CountInv'
    BY <1>1, <1>4, CountsStay
  <1>7. MipInv'
    BY <1>4, <1>5 DEF MipInv, MipRight, Merging
  <1> QED BY <1>5, <1>6, <1>7

\* Its second is the mosaic, of invalid pixels at first.
LEMMA BeginHigherLevelPixels ==
  ASSUME IInv, PixelInv, BeginHigherLevel
  PROVE  AllSized' /\ CountInv' /\ MipInv'
PROOF
  <1>1. AllSized /\ CountInv /\ Balanced /\ MipInv /\ DOMAIN images = 1 .. Len(images)
    BY Levels DEF PixelInv
  <1>2. Len(images) = 1
    BY Levels DEF BeginHigherLevel, GoTo
  <1>3. 2 = Len(images) + 1 /\ 1 \in DOMAIN images
    BY <1>1, <1>2
  <1> DEFINE pixels == Filled(4 * TilePixels, Invalid)
  <1>0. sub' = 0 /\ tiles' = tiles
    BY DEF BeginHigherLevel
  <1>4. /\ pc = "higher level" /\ pc' = "sub-tile" /\ out' = out
        /\ shown' = Filled(4, Nothing)
    BY DEF BeginHigherLevel, GoTo
  <1>14. Push(Written(Image(2 * TileWidth, 2 * TileHeight, "S16"), pixels))
    BY Zenon DEF BeginHigherLevel, Written
  <1>5. /\ 2 * TileWidth \in Nat /\ 2 * TileHeight \in Nat
        /\ (2 * TileWidth) * (2 * TileHeight) = 4 * TilePixels /\ 4 * TilePixels \in Nat
    BY TileSize
  <1>6. pixels \in [1 .. (2 * TileWidth) * (2 * TileHeight) -> Int]
    <2>1. pixels \in [1 .. 4 * TilePixels -> {Invalid}]
      BY <1>5, FilledPixels
    <2> QED BY <1>5, <2>1, ImageAssumption
  <1> HIDE DEF pixels
  <1>7. /\ AllSized' /\ Raw(2)' = pixels /\ images'[2].width = 2 * TileWidth
        /\ images'[2].height = 2 * TileHeight /\ Unmoved(1)
    <2>1. /\ AllSized' /\ Raw(2)' = pixels /\ images'[2].width = 2 * TileWidth
          /\ images'[2].height = 2 * TileHeight /\ \A m \in DOMAIN images : Unmoved(m)
      <3> DEFINE w == 2 * TileWidth
                 h == 2 * TileHeight
      <3>1. w \in Nat /\ h \in Nat /\ w * h # 0 /\ pixels \in [1 .. w * h -> Int]
        BY <1>5, <1>6, TileHasPixels
      <3>2. Push(Written(Image(w, h, "S16"), pixels))
        BY <1>14
      <3> HIDE DEF w, h
      <3>3. /\ AllSized' /\ Raw(2)' = pixels /\ images'[2].width = w /\ images'[2].height = h
            /\ \A m \in DOMAIN images : Unmoved(m)
        <4>1. Balanced /\ AllSized /\ 2 = Len(images) + 1
          BY <1>1, <1>3
        <4> QED BY <3>1, <3>2, <4>1, NewFilled, SMTT(30)
      <3> QED BY <3>3 DEF w, h
    <2> QED BY <1>3, <2>1, Zenon
  <1>8. HasNoPixels(1)' /\ out' = Nothing
    BY <1>1, <1>4, <1>7, Stays DEF MipInv
  <1>9. Waiting' = NoSubTile
    BY <1>4 DEF Waiting
  <1>10. MosaicInv' /\ NoneFrom(1)'
    BY <1>4, <1>7, <1>9, MosaicBegins DEF pixels
  <1>11. NoneFrom(sub + 1)'
    <2>1. sub' + 1 = 1
      BY <1>0
    <2> QED BY <1>10, <2>1 DEF NoneFrom
  <1>12. MipInv'
    BY <1>4, <1>8, <1>10, <1>11 DEF MipInv, MipRight, Merging
  <1>13. CountInv'
    <2>1. sub' \in 0 .. 4
      BY <1>0
    <2>2. tiles' \in 0 .. MaxTiles
      BY <1>0, <1>1, Zenon DEF CountInv
    <2> QED BY <1>4, <2>1, <2>2 DEF CountInv
  <1> QED BY <1>7, <1>12, <1>13

\* The row of sub-tiles that is passed over ends after the one that failed.
LEMMA RowEnds ==
  ASSUME sub \in 0 .. 3
  PROVE  sub + 1 \in 0 .. 4 /\ RowEnd(sub) \in 0 .. 4 /\ RowEnd(sub) >= sub + 1
PROOF BY DEF RowEnd

\* What is after a sub-tile is after it in the list of what was read, too.
LEMMA OneMore ==
  \A a, b \in Int : b >= a + 1 => a + 1 \in Int /\ b + 1 \in Int /\ b + 1 >= a + 1
PROOF OBVIOUS

\* Later sub-tiles were not read if earlier ones were not.
LEMMA NoneLeft ==
  ASSUME NEW n \in Int, NEW m \in Int, m >= n, NoneFrom(n), shown' = shown
  PROVE  \A k \in m .. 4 : shown'[k] = Nothing
PROOF BY DEF NoneFrom

\* A sub-tile is passed over.
LEMMA PassPixels ==
  ASSUME IInv, PixelInv, SkipSubTile \/ LoadFails
  PROVE  AllSized' /\ CountInv' /\ MipInv'
PROOF
  <1>1. AllSized /\ CountInv /\ MipInv
    BY DEF PixelInv
  <1>2. /\ pc = "sub-tile" /\ pc' = "sub-tile" /\ UNCHANGED <<memory, images, shown, out, tiles>>
        /\ sub < 4 /\ sub' \in {sub + 1, RowEnd(sub)}
    BY DEF SkipSubTile, LoadFails, GoTo
  <1>3. sub \in 0 .. 4 /\ tiles \in 0 .. MaxTiles
    BY <1>1 DEF CountInv
  <1>4. sub \in 0 .. 3
    BY <1>2, <1>3
  <1>5. sub' \in 0 .. 4 /\ sub' >= sub + 1
    BY <1>2, <1>4, RowEnds
  <1>6. AllSized' /\ Unmoved(1) /\ Unmoved(2)
    BY <1>1, <1>2, SameIsUnmoved, SizedStays
  <1>7. HasNoPixels(1)' /\ out' = Nothing
    BY <1>1, <1>2, <1>6, Stays DEF MipInv, Merging
  <1>8. MosaicInv'
    BY <1>1, <1>2, <1>6, MosaicKept DEF MipInv, Merging, Waiting
  <1>9. NoneFrom(sub + 1)'
    <2>0. sub \in Int /\ sub' \in Int /\ sub' >= sub + 1
      BY <1>4, <1>5
    <2>1. sub + 1 \in Int /\ sub' + 1 \in Int /\ sub' + 1 >= sub + 1
      BY <2>0, OneMore, Zenon
    <2>2. NoneFrom(sub + 1)
      BY <1>1, <1>2 DEF MipInv
    <2>3. \A k \in sub' + 1 .. 4 : shown'[k] = Nothing
      BY <1>2, <2>1, <2>2, NoneLeft
    <2> QED BY <2>3 DEF NoneFrom
  <1>10. MipInv'
    BY <1>2, <1>7, <1>8, <1>9 DEF MipInv, MipRight, Merging
  <1>11. CountInv'
    BY <1>2, <1>3, <1>5 DEF CountInv
  <1> QED BY <1>6, <1>10, <1>11

\* The file of a tile.
LEMMA TileParts ==
  ASSUME NEW p \in Pictures, NEW data, data = Encoded(TileWidth, TileHeight, p)
  PROVE  /\ data # Nothing /\ data[1] = FourCC /\ data[2] = TileWidth /\ data[3] = TileHeight
         /\ SubSeq(data, 4, Len(data)) = p
PROOF
  <1>1. IsSeq(p)
    BY PictureIsPixels
  <1> QED BY <1>1, EncodedParts

\* What is known of the images while sub-tiles are put together.
LEMMA MergingState ==
  ASSUME IInv, PixelInv, pc \in Merging
  PROVE  /\ AllSized /\ Balanced /\ DOMAIN images = 1 .. Len(images)
         /\ Len(images) = IF pc = "sub-tile" THEN 2 ELSE 3
         /\ 1 \in DOMAIN images /\ 2 \in DOMAIN images /\ (pc # "sub-tile" => 3 \in DOMAIN images)
         /\ images[2].raw # NULL /\ HasNoPixels(1) /\ out = Nothing /\ MosaicInv
         /\ sub \in 0 .. 4 /\ tiles \in 0 .. MaxTiles
         /\ pc \in {"loaded", "copy", "leave sub-tile"} => sub \in 0 .. 3
         /\ Raw(2) \in [1 .. (2 * TileWidth) * (2 * TileHeight) -> Int]
PROOF
  <1>1. AllSized /\ Balanced /\ DOMAIN images = 1 .. Len(images) /\ images[2].raw # NULL
    BY Levels DEF PixelInv, Merging
  <1>2. Len(images) = IF pc = "sub-tile" THEN 2 ELSE 3
    BY Levels DEF Merging
  <1>3. 1 \in DOMAIN images /\ 2 \in DOMAIN images /\ (pc # "sub-tile" => 3 \in DOMAIN images)
    <2>1. CASE pc = "sub-tile"
      <3>1. Len(images) = 2
        BY <1>2, <2>1
      <3> QED BY <1>1, <2>1, <3>1
    <2>2. CASE pc # "sub-tile"
      <3>1. Len(images) = 3
        BY <1>2, <2>2
      <3> QED BY <1>1, <3>1
    <2> QED BY <2>1, <2>2
  <1>4. HasNoPixels(1) /\ out = Nothing /\ MosaicInv
    BY DEF PixelInv, MipInv
  <1>5. /\ sub \in 0 .. 4 /\ tiles \in 0 .. MaxTiles
        /\ pc \in {"loaded", "copy", "leave sub-tile"} => sub < 4
    BY DEF PixelInv, CountInv
  <1>6. pc \in {"loaded", "copy", "leave sub-tile"} => sub \in 0 .. 3
    <2>1. \A k \in 0 .. 4 : k < 4 => k \in 0 .. 3
      OBVIOUS
    <2> QED BY <1>5, <2>1, Zenon
  <1>7. Raw(2) \in [1 .. (2 * TileWidth) * (2 * TileHeight) -> Int]
    BY <1>1, <1>3, <1>4 DEF AllSized, Sized, MosaicInv
  <1> QED BY <1>1, <1>2, <1>3, <1>4, <1>5, <1>6, <1>7

\* A sub-tile is loaded, or the one of no pixels, or what is not an image.
LEMMA LoadSubTilePixels ==
  ASSUME IInv, PixelInv, LoadSubTile
  PROVE  AllSized' /\ CountInv' /\ MipInv'
PROOF
  <1>1. pc = "sub-tile" /\ pc' = "loaded" /\ sub' = sub /\ out' = out /\ tiles' = tiles
    BY DEF LoadSubTile, GoTo
  <1>2. /\ AllSized /\ Balanced /\ 1 \in DOMAIN images /\ 2 \in DOMAIN images
        /\ HasNoPixels(1) /\ out = Nothing /\ MosaicInv
    BY <1>1, MergingState DEF Merging
  <1>3. Len(images) = 2
    BY <1>1, MergingState DEF Merging
  <1>4. 3 = Len(images) + 1
    BY <1>3
  <1>5. sub \in 0 .. 3
    <2>1. sub \in 0 .. 4 /\ sub < 4
      BY <1>1, MergingState DEF Merging, LoadSubTile
    <2> QED BY <2>1
  <1>6. PICK data : /\ Push(ImageOf(data, "Elevation"))
                    /\ \/ \E picture \in Pictures : /\ data = Encoded(TileWidth, TileHeight, picture)
                                                    /\ shown' = [shown EXCEPT ![sub + 1] = picture]
                       \/ data \in {Encoded(0, 0, <<>>), <<Garbage>>} /\ shown' = shown
    BY Zenon DEF LoadSubTile
  <1> DEFINE s == ImageOf(data, "Elevation")
  <1>7. /\ Owned(s, DOMAIN memory) /\ Kept(DOMAIN memory, memory, s.memory)
        /\ s.img.raw = NULL /\ s.img.width = 0 /\ s.img.height = 0
        /\ Data(s.memory, s.img.processed) = data
    BY <1>2, NewImageOf
  <1>8. Push(s)
    BY <1>6
  <1> HIDE DEF s
  <1>9. images'[3] = s.img /\ memory' = s.memory /\ \A m \in DOMAIN images : Unmoved(m)
    BY <1>2, <1>4, <1>7, <1>8, PushPixels
  <1>10. DOMAIN images' = DOMAIN images \union {3}
    BY <1>2, <1>4, <1>7, <1>8, PushBalanced
  <1>11. AllSized'
    <2>1. Sized(3)'
      BY <1>7, <1>9 DEF Sized
    <2> QED BY <1>2, <1>9, <1>10, <2>1, SizedBut
  <1>12. HasNoPixels(1)' /\ out' = Nothing
    BY <1>1, <1>2, <1>9, Stays
  <1>13. MosaicInv' /\ NoneFrom(sub + 2)'
    <2>1. Waiting = NoSubTile /\ Waiting' = sub /\ Unmoved(2)
      BY <1>1, <1>2, <1>9 DEF Waiting
    <2>2. NoneFrom(sub + 1)
      BY <1>1 DEF PixelInv, MipInv
    <2>3. \/ shown' = shown
          \/ \E picture \in Pictures : shown' = [shown EXCEPT ![sub + 1] = picture]
      BY <1>6
    <2> QED BY <1>1, <1>2, <1>5, <2>1, <2>2, <2>3, MosaicWaits
  <1>14. LoadedInv'
    <2>1. /\ images'[3].width = 0 /\ images'[3].height = 0
          /\ Data(memory', images'[3].processed) = data
      BY <1>7, <1>9
    <2>2. sub + 1 \in 1 .. 4 /\ sub + 1 \in sub + 1 .. 4
      BY <1>5
    <2>3. shown \in [1 .. 4 -> Pictures \union {Nothing}] /\ shown[sub + 1] = Nothing
      BY <1>1, <1>2, <2>2 DEF MosaicInv, PixelInv, MipInv, NoneFrom
    <2>4. \/ shown'[sub + 1] \in Pictures /\ data = Encoded(TileWidth, TileHeight, shown'[sub + 1])
          \/ shown'[sub + 1] = Nothing /\ data \in {Encoded(0, 0, <<>>), <<Garbage>>}
      BY <1>6, <2>2, <2>3
    <2> QED BY <1>1, <2>1, <2>4, Zenon DEF LoadedInv
  <1>15. MipInv'
    BY <1>1, <1>12, <1>13, <1>14 DEF MipInv, MipRight, Merging
  <1>16. CountInv'
    <2>1. sub' < 4
      BY <1>1, <1>5
    <2> QED BY <1>1, <2>1, CountsStay DEF PixelInv, CountInv
  <1> QED BY <1>11, <1>15, <1>16

\* What was loaded is converted back to the pixels it was made of.
LEMMA ConvertSubTilePixels ==
  ASSUME IInv, PixelInv, ConvertSubTile
  PROVE  AllSized' /\ CountInv' /\ MipInv'
PROOF
  <1>1. /\ pc = "loaded" /\ pc' = "copy" /\ sub' = sub /\ out' = out /\ tiles' = tiles
        /\ shown' = shown
    BY DEF ConvertSubTile, GoTo
  <1>2. /\ AllSized /\ Balanced /\ 1 \in DOMAIN images /\ 2 \in DOMAIN images /\ 3 \in DOMAIN images
        /\ HasNoPixels(1) /\ out = Nothing /\ MosaicInv /\ sub \in 0 .. 3
    BY <1>1, MergingState DEF Merging
  <1>3. Len(images) = 3 /\ images[3].raw = NULL
    BY <1>1 DEF IInv, Shape
  <1> DEFINE t == State(images[3])
             s == ConvertContentTypeToRawImage(t)
             data == Data(memory, images[3].processed)
  <1>4. Change(3, s)
    BY <1>3 DEF ConvertSubTile, Top, TopImage
  <1>5. Owned(t, Rest(3)) /\ t.img = images[3] /\ t.memory = memory
    BY <1>2, StateOwned DEF State
  <1> HIDE DEF t
  <1>6. /\ Owned(s, Rest(3)) /\ Kept(Rest(3), memory, s.memory)
        /\ ~Decodes(t) => /\ s.img.raw = NULL
                          /\ s.img.width = images[3].width /\ s.img.height = images[3].height
        /\ Decodes(t) =>
             /\ s.img.width = data[2] /\ s.img.height = data[3]
             /\ IF data[2] * data[3] = 0 THEN s.img.raw = NULL
                ELSE s.img.raw # NULL /\ Data(s.memory, s.img.raw) = SubSeq(data, 4, Len(data))
    BY <1>3, <1>5, DecodedOwned
  <1> HIDE DEF s
  <1>7. /\ images'[3] = s.img /\ Raw(3)' = Data(s.memory, s.img.raw)
        /\ \A m \in DOMAIN images \ {3} : Unmoved(m)
    BY <1>2, <1>4, <1>6, ChangePixels
  <1>8. DOMAIN images' = DOMAIN images
    BY <1>2, <1>4, <1>6, ChangeBalanced
  <1>9. Decodes(t) <=> data # Nothing /\ data[1] = FourCC
    BY <1>5 DEF Decodes
  <1>10. LoadedInv
    BY <1>1 DEF PixelInv, MipInv
  <1> HIDE DEF data
  <1>11. Sized(3)' /\ CopyInv'
    <2>1. CASE shown[sub + 1] \in Pictures /\ data = Encoded(TileWidth, TileHeight, shown[sub + 1])
      <3> DEFINE p == shown[sub + 1]
      <3>1. p \in [1 .. TilePixels -> Int]
        BY <2>1, PictureIsPixels
      <3>2. /\ data # Nothing /\ data[1] = FourCC /\ data[2] = TileWidth /\ data[3] = TileHeight
            /\ SubSeq(data, 4, Len(data)) = p
        BY <2>1, TileParts, Zenon
      <3> HIDE DEF p
      <3>3. /\ s.img.width = TileWidth /\ s.img.height = TileHeight
            /\ s.img.raw # NULL /\ Data(s.memory, s.img.raw) = p
        BY <1>6, <1>9, <3>2, TileHasPixels, Zenon
      <3>4. /\ images'[3].width = TileWidth /\ images'[3].height = TileHeight
            /\ images'[3].raw # NULL /\ Raw(3)' = p
        BY <1>7, <3>3
      <3>5. Sized(3)' /\ IsTile(3)'
        BY <3>1, <3>4, TileSize DEF Sized, IsTile
      <3>6. shown'[sub' + 1] = p
        BY <1>1 DEF p
      <3> QED BY <2>1, <3>4, <3>5, <3>6 DEF CopyInv, p
    <2>2. CASE shown[sub + 1] = Nothing /\ data = Encoded(0, 0, <<>>)
      <3>1. data # Nothing /\ data[1] = FourCC /\ data[2] = 0 /\ data[3] = 0
        <4>1. IsSeq(<<>>)
          BY DEF IsSeq
        <4> QED BY <2>2, <4>1, EncodedParts
      <3>2. s.img.width = 0 /\ s.img.height = 0 /\ s.img.raw = NULL
        <4>1. 0 * 0 = 0
          OBVIOUS
        <4> QED BY <1>6, <1>9, <3>1, <4>1, Zenon
      <3>3. Sized(3)'
        BY <1>7, <3>2 DEF Sized
      <3> QED BY <1>1, <1>7, <2>2, <3>2, <3>3 DEF CopyInv
    <2>3. CASE shown[sub + 1] = Nothing /\ data = <<Garbage>> /\ images[3].width = 0 /\ images[3].height = 0
      <3>1. data[1] # FourCC
        BY <2>3, ImageAssumption
      <3>2. s.img.width = 0 /\ s.img.height = 0 /\ s.img.raw = NULL
        BY <1>6, <1>9, <2>3, <3>1, Zenon
      <3>3. Sized(3)'
        BY <1>7, <3>2 DEF Sized
      <3> QED BY <1>1, <1>7, <2>3, <3>2, <3>3 DEF CopyInv
    <2> QED BY <1>10, <2>1, <2>2, <2>3, Zenon DEF LoadedInv, data
  <1>12. AllSized'
    BY <1>2, <1>7, <1>8, <1>11, SizedBut
  <1>13. HasNoPixels(1)' /\ out' = Nothing
    <2>1. 1 \in DOMAIN images \ {3}
      BY <1>2
    <2> QED BY <1>1, <1>2, <1>7, <2>1, Stays
  <1>14. MosaicInv'
    <2>1. Waiting' = Waiting
      BY <1>1 DEF Waiting
    <2>2. Unmoved(2)
      BY <1>2, <1>7
    <2> QED BY <1>1, <1>2, <2>1, <2>2, MosaicKept
  <1>15. NoneFrom(sub + 2)'
    BY <1>1 DEF PixelInv, MipInv, NoneFrom
  <1>16. MipInv'
    BY <1>1, <1>11, <1>13, <1>14, <1>15 DEF MipInv, MipRight, Merging
  <1>17. CountInv'
    <2>1. sub' < 4
      BY <1>1, <1>2
    <2> QED BY <1>1, <2>1, CountsStay DEF PixelInv, CountInv
  <1> QED BY <1>12, <1>16, <1>17

\* A sub-tile is copied to its place and to no other.
LEMMA CopySubTilePixels ==
  ASSUME IInv, PixelInv, CopySubTile
  PROVE  AllSized' /\ CountInv' /\ MipInv'
PROOF
  <1>1. /\ pc = "copy" /\ pc' = "leave sub-tile" /\ sub' = sub /\ out' = out /\ tiles' = tiles
        /\ shown' = shown
    BY DEF CopySubTile, GoTo
  <1>2. /\ AllSized /\ Balanced /\ 1 \in DOMAIN images /\ 2 \in DOMAIN images /\ 3 \in DOMAIN images
        /\ HasNoPixels(1) /\ out = Nothing /\ MosaicInv /\ sub \in 0 .. 3 /\ images[2].raw # NULL
        /\ Raw(2) \in [1 .. (2 * TileWidth) * (2 * TileHeight) -> Int]
    BY <1>1, MergingState DEF Merging
  <1>3. Top = 3 /\ TopImage = images[3]
    BY <1>1, Levels DEF Top, TopImage
  <1>4. CopyInv
    BY <1>1 DEF PixelInv, MipInv
  <1>5. Waiting = sub /\ Waiting' = NoSubTile
    BY <1>1 DEF Waiting
  <1>6. images[2].width = 2 * TileWidth /\ images[2].height = 2 * TileHeight
    BY <1>2 DEF MosaicInv
  <1>7. MosaicInv' /\ AllSized' /\ Unmoved(1)
    <2>1. CASE shown[sub + 1] = Nothing /\ images[3].width = 0
      <3>1. UNCHANGED <<memory, images>>
        BY <1>3, <2>1 DEF CopySubTile
      <3>2. \A m : Unmoved(m)
        BY <3>1, SameIsUnmoved
      <3>3. AllSized'
        BY <1>2, <3>1, <3>2, SizedStays
      <3>4. MosaicInv'
        BY <1>1, <1>2, <1>5, <2>1, <3>2, MosaicSkips
      <3> QED BY <3>2, <3>3, <3>4
    <2>2. CASE shown[sub + 1] \in Pictures /\ IsTile(3) /\ Raw(3) = shown[sub + 1]
      <3> DEFINE new == CopyFromSubImage(Raw(2), 2 * TileWidth, 2 * TileHeight,
                          shown[sub + 1], TileWidth, TileHeight,
                          TileWidth * (sub % 2), TileHeight * (sub \div 2))
      <3>0. images[3].width = TileWidth /\ images[3].height = TileHeight /\ TileWidth # 0
        BY <2>2, TileSize DEF IsTile
      <3>1. Fill(2, new)
        <4>1. Fill(2, CopyFromSubImage(Raw(2), images[2].width, images[2].height,
                    Raw(3), images[3].width, images[3].height,
                    TileWidth * (sub % 2), TileHeight * (sub \div 2)))
          BY <1>3, <3>0, Zenon DEF CopySubTile
        <4> QED BY <1>6, <2>2, <3>0, <4>1, Zenon
      <3> HIDE DEF new
      <3>2. /\ Raw(2)' = new /\ images' = images
            /\ \A m \in DOMAIN images \ {2} : Unmoved(m)
        BY <1>2, <3>1, FillPixels, FillBalanced
      <3>3. MosaicInv' /\ Raw(2)' \in [1 .. (2 * TileWidth) * (2 * TileHeight) -> Int]
        BY <1>1, <1>2, <1>5, <2>2, <3>2, MosaicGrows, Zenon DEF new
      <3>4. 2 * TileWidth \in Nat /\ 2 * TileHeight \in Nat
        BY TileSize
      <3>5. Sized(2)'
        BY <1>6, <3>2, <3>3, <3>4 DEF Sized
      <3>6. AllSized'
        BY <1>2, <3>2, <3>5, SizedBut
      <3>7. 1 \in DOMAIN images \ {2}
        BY <1>2
      <3> QED BY <3>2, <3>3, <3>6, <3>7
    <2> QED BY <1>4, <2>1, <2>2 DEF CopyInv
  <1>8. HasNoPixels(1)' /\ out' = Nothing
    BY <1>1, <1>2, <1>7, Stays
  <1>9. NoneFrom(sub + 2)'
    BY <1>1 DEF PixelInv, MipInv, NoneFrom
  <1>10. MipInv'
    BY <1>1, <1>7, <1>8, <1>9 DEF MipInv, MipRight, Merging
  <1>11. CountInv'
    <2>0. \A k \in 0 .. 3 : k < 4
      OBVIOUS
    <2>1. sub' < 4
      BY <1>1, <1>2, <2>0, Zenon
    <2> QED BY <1>1, <2>1, CountsStay DEF PixelInv, CountInv
  <1> QED BY <1>7, <1>10, <1>11

\* The image of a sub-tile goes, and the next one is to be read.
LEMMA LeaveSubTilePixels ==
  ASSUME IInv, PixelInv, LeaveSubTile
  PROVE  AllSized' /\ CountInv' /\ MipInv'
PROOF
  <1>1. /\ pc = "leave sub-tile" /\ pc' = "sub-tile" /\ sub' \in {sub + 1, RowEnd(sub)}
        /\ out' = out /\ tiles' = tiles /\ shown' = shown
    BY DEF LeaveSubTile, GoTo
  <1>2. /\ AllSized /\ Balanced /\ 1 \in DOMAIN images /\ 2 \in DOMAIN images
        /\ HasNoPixels(1) /\ out = Nothing /\ MosaicInv /\ sub \in 0 .. 3
        /\ tiles \in 0 .. MaxTiles
    BY <1>1, MergingState DEF Merging
  <1>3. Len(images) = 3
    BY <1>1, Levels
  <1>4. Pop(Destroyed(State(TopImage)))
    BY DEF LeaveSubTile
  <1>5. Len(images) >= 1
    BY <1>3
  <1>6. /\ \A m \in DOMAIN images' : Unmoved(m)
        /\ DOMAIN images' = DOMAIN images \ {3}
    BY <1>2, <1>3, <1>4, <1>5, PopPixels, PopBalanced
  <1>7. AllSized' /\ Unmoved(1) /\ Unmoved(2)
    <2>1. 1 \in DOMAIN images \ {3} /\ 2 \in DOMAIN images \ {3}
      BY <1>2
    <2> QED BY <1>2, <1>6, <2>1, SizedStays
  <1>8. sub' \in 0 .. 4 /\ sub' >= sub + 1
    <2>1. sub \in 0 .. 3
      BY <1>2
    <2>2. sub + 1 >= sub + 1
      BY <2>1
    <2> QED BY <1>1, <2>1, <2>2, RowEnds, Zenon
  <1>9. HasNoPixels(1)' /\ out' = Nothing
    BY <1>1, <1>2, <1>7, Stays
  <1>10. MosaicInv'
    <2>1. Waiting' = Waiting
      BY <1>1 DEF Waiting
    <2> QED BY <1>1, <1>2, <1>7, <2>1, MosaicKept
  <1>11. NoneFrom(sub + 1)'
    <2>1. NoneFrom(sub + 2)
      BY <1>1 DEF PixelInv, MipInv
    <2>2. \A a \in 0 .. 3, b \in 0 .. 4 : b >= a + 1 => a + 2 \in Int /\ b + 1 \in Int /\ b + 1 >= a + 2
      OBVIOUS
    <2>3. sub + 2 \in Int /\ sub' + 1 \in Int /\ sub' + 1 >= sub + 2
      BY <1>2, <1>8, <2>2, Zenon
    <2>4. \A k \in sub' + 1 .. 4 : shown'[k] = Nothing
      BY <1>1, <2>1, <2>3, NoneLeft
    <2> QED BY <2>4 DEF NoneFrom
  <1>12. MipInv'
    BY <1>1, <1>9, <1>10, <1>11 DEF MipInv, MipRight, Merging
  <1>13. CountInv'
    BY <1>1, <1>2, <1>8 DEF CountInv
  <1> QED BY <1>7, <1>12, <1>13

\* The mosaic is sampled, two by two pixels to one.
LEMMA SamplePixels ==
  ASSUME IInv, PixelInv, Sample
  PROVE  AllSized' /\ CountInv' /\ MipInv'
PROOF
  <1>1. /\ pc = "sub-tile" /\ pc' = "store mip" /\ sub' = sub
        /\ out' = out /\ tiles' = tiles /\ shown' = shown
    BY DEF Sample, GoTo
  <1>2. /\ AllSized /\ Balanced /\ 1 \in DOMAIN images /\ 2 \in DOMAIN images
        /\ HasNoPixels(1) /\ out = Nothing /\ MosaicInv
        /\ Raw(2) \in [1 .. (2 * TileWidth) * (2 * TileHeight) -> Int]
    BY <1>1, MergingState DEF Merging
  <1>3. Len(images) = 2
    BY <1>1, Levels
  <1>4. 3 = Len(images) + 1
    BY <1>3
  <1> DEFINE src == Raw(2)
             pixels == SampleWithBoxFilter(src, 2 * TileWidth, 2 * TileHeight, TileWidth, TileHeight)
  <1>5. images[2].width = 2 * TileWidth /\ images[2].height = 2 * TileHeight
    BY <1>2 DEF MosaicInv
  <1>6. Push(Written(Image(TileWidth, TileHeight, "S16"), pixels))
    <2>1. Push(Written(Image(TileWidth, TileHeight, "S16"),
            SampleWithBoxFilter(Raw(2), images[2].width, images[2].height, TileWidth, TileHeight)))
      BY Zenon DEF Sample, Written
    <2> QED BY <1>5, <2>1
  <1>7. Waiting = NoSubTile
    BY <1>1 DEF Waiting
  <1>8. /\ pixels \in [1 .. TilePixels -> Int]
        /\ \A column \in 0 .. TileWidth - 1, row \in 0 .. TileHeight - 1 :
             IsMean(pixels[At(row, column, TileWidth)], column, row)
    <2>1. src \in [1 .. (2 * TileWidth) * (2 * TileHeight) -> Int]
      BY <1>2
    <2>2. ASSUME NEW column \in 0 .. 2 * TileWidth - 1, NEW row \in 0 .. 2 * TileHeight - 1
          PROVE  src[At(row, column, 2 * TileWidth)] = Mosaic(column, row)
      <3>1. Quarter(column, row) # NoSubTile
        <4>1. Quarter(column, row) \in 0 .. 3
          BY QuarterOf
        <4> QED BY <4>1 DEF NoSubTile
      <3> QED BY <1>2, <1>7, <3>1, Zenon DEF MosaicInv, Merged
    <2> HIDE DEF src
    <2> QED BY <2>1, <2>2, Sampled, Zenon
  <1> HIDE DEF pixels
  <1>9. /\ AllSized' /\ Raw(3)' = pixels /\ images'[3].raw # NULL
        /\ images'[3].width = TileWidth /\ images'[3].height = TileHeight
        /\ \A m \in DOMAIN images : Unmoved(m)
    <2>1. TileWidth \in Nat /\ TileHeight \in Nat /\ pixels \in [1 .. TileWidth * TileHeight -> Int]
      BY <1>8, TileSize
    <2>2. Balanced /\ AllSized
      BY <1>2
    <2> QED BY <1>4, <1>6, <2>1, <2>2, TileHasPixels, NewFilled, SMTT(30)
  <1>10. HasNoPixels(1)' /\ out' = Nothing
    BY <1>1, <1>2, <1>9, Stays
  <1>11. IsTile(3)'
    BY <1>9 DEF IsTile
  <1>12. SampledInv'
    <2>1. ASSUME NEW column \in 0 .. TileWidth - 1, NEW row \in 0 .. TileHeight - 1
          PROVE  IsMean(Raw(3)[At(row, column, TileWidth)], column, row)'
      <3>1. IsMean(pixels[At(row, column, TileWidth)], column, row)
        BY <1>8, Zenon
      <3>2. \A c, r : Mosaic(c, r)' = Mosaic(c, r)
        BY <1>1, Zenon DEF Mosaic
      <3> QED BY <1>9, <3>1, <3>2, ZenonT(60) DEF IsMean
    <2> QED BY <2>1, Zenon DEF SampledInv
  <1>13. MipInv'
    BY <1>1, <1>10, <1>11, <1>12 DEF MipInv, MipRight, Merging
  <1>14. CountInv'
    BY <1>1, CountsStay DEF PixelInv
  <1> QED BY <1>9, <1>13, <1>14

\* The mip tile is stored as it was sampled.
LEMMA StoreMipPixels ==
  ASSUME IInv, PixelInv, StoreMip \/ StoreMipFails
  PROVE  AllSized' /\ CountInv' /\ MipInv'
PROOF
  <1>1. /\ pc = "store mip" /\ pc' = "leave mip" /\ sub' = sub /\ tiles' = tiles /\ shown' = shown
    BY DEF StoreMip, StoreMipFails, GoTo
  <1>2. /\ AllSized /\ Balanced /\ Elevated /\ DOMAIN images = 1 .. Len(images)
        /\ HasNoPixels(1) /\ out = Nothing /\ IsTile(3) /\ SampledInv
    BY <1>1, Levels DEF PixelInv, MipInv, Mipping, Merging
  <1>3. Len(images) = 3 /\ Top = 3
    BY <1>1, Levels DEF Top
  <1>4. 3 \in DOMAIN images /\ Len(images) \in 2 .. 3
    <2>1. Len(images) = 3
      BY <1>3
    <2> QED BY <1>2, <2>1
  <1>5. UNCHANGED <<memory, images>> \/ Change(ToStore, Stored(ToStore))
    BY DEF StoreMip, StoreMipFails
  <1>6. AllSized'
    <2>1. CASE UNCHANGED <<memory, images>>
      BY <1>2, <2>1, SameIsUnmoved, SizedStays
    <2>2. CASE Change(ToStore, Stored(ToStore))
      <3>1. \A m \in DOMAIN images : Unmoved(m) /\ DOMAIN images' = DOMAIN images
        BY <1>2, <1>3, <1>4, <2>2, TileStored
      <3>2. DOMAIN images' = DOMAIN images
        BY <1>4, <3>1
      <3> QED BY <1>2, <3>1, <3>2, SizedStays
    <2> QED BY <1>5, <2>1, <2>2
  <1>7. CountInv'
    BY <1>1, CountsStay DEF PixelInv
  <1>8. ASSUME NEW column \in 0 .. TileWidth - 1, NEW row \in 0 .. TileHeight - 1
        PROVE  /\ At(row, column, TileWidth) \in 1 .. TilePixels
               /\ IsMean(Raw(3)[At(row, column, TileWidth)], column, row)
               /\ \A v : IsMean(v, column, row)' = IsMean(v, column, row)
    <2>1. At(row, column, TileWidth) \in 1 .. TilePixels
      <3>1. At(row, column, TileWidth) \in 1 .. TileWidth * TileHeight
        BY TileSize, PixelAt, Zenon
      <3> QED BY <3>1, TileSize, Zenon
    <2>2. \A c, r : Mosaic(c, r)' = Mosaic(c, r)
      BY <1>1, Zenon DEF Mosaic
    <2>3. \A v : IsMean(v, column, row)' = IsMean(v, column, row)
      BY <2>2, ZenonT(60) DEF IsMean
    <2>4. IsMean(Raw(3)[At(row, column, TileWidth)], column, row)
      BY <1>2, Zenon DEF SampledInv
    <2> QED BY <2>1, <2>3, <2>4
  <1>9. Raw(3) \in [1 .. TilePixels -> Int]
    BY <1>2, <1>4, TileIsSized
  <1>10. MipRight'
    <2>1. CASE StoreMipFails
      <3>1. out' = Nothing
        BY <1>2, <2>1 DEF StoreMipFails
      <3> QED BY <3>1 DEF MipRight
    <2>2. CASE StoreMip
      <3>1. /\ Change(ToStore, Stored(ToStore))
            /\ out' = Data(Stored(ToStore).memory, Stored(ToStore).img.processed)
        BY <2>2 DEF StoreMip
      <3>2. out' = IF IsImageCompletelyInvalid(Raw(3)) THEN Encoded(0, 0, <<>>)
                   ELSE Encoded(TileWidth, TileHeight, Raw(3))
        <4>1. Data(Stored(ToStore).memory, Stored(ToStore).img.processed) =
                IF IsImageCompletelyInvalid(Raw(Top)) THEN Encoded(0, 0, <<>>)
                ELSE Encoded(TileWidth, TileHeight, Raw(Top))
          BY <1>2, <1>3, <1>4, <3>1, TileStored
        <4> QED BY <1>3, <3>1, <4>1, Zenon
      <3>3. CASE IsImageCompletelyInvalid(Raw(3))
        <4>1. out' = Encoded(0, 0, <<>>)
          BY <3>2, <3>3
        <4>2. ASSUME NEW column \in 0 .. TileWidth - 1, NEW row \in 0 .. TileHeight - 1
              PROVE  IsMean(Invalid, column, row)'
          <5>1. \A i \in 1 .. TilePixels : Raw(3)[i] = Invalid
            BY <1>9, <3>3 DEF IsImageCompletelyInvalid
          <5>2. Raw(3)[At(row, column, TileWidth)] = Invalid
            BY <1>8, <5>1, Zenon
          <5> QED BY <1>8, <5>2, Zenon
        <4> QED BY <4>1, <4>2, Zenon DEF MipRight
      <3>4. CASE ~IsImageCompletelyInvalid(Raw(3))
        <4> DEFINE p == Raw(3)
        <4>1. out' = Encoded(TileWidth, TileHeight, p)
          BY <3>2, <3>4
        <4>2. IsSeq(p) /\ Len(p) = TilePixels
          BY <1>9, TileSize, CountedIsSeq
        <4> HIDE DEF p
        <4>3. /\ SubSeq(out', 1, 3) = <<FourCC, TileWidth, TileHeight>>
              /\ \A i \in 1 .. Len(p) : out'[3 + i] = p[i]
          <5>1. LET code == Encoded(TileWidth, TileHeight, p)
                IN  /\ \A i \in 1 .. Len(p) : code[3 + i] = p[i]
                    /\ SubSeq(code, 1, 3) = <<FourCC, TileWidth, TileHeight>>
            BY <4>2, EncodedParts
          <5> QED BY <4>1, <5>1, Zenon
        <4>4. Encoded(TileWidth, TileHeight, <<>>) = <<FourCC, TileWidth, TileHeight>>
          BY DEF Encoded
        <4>5. ASSUME NEW column \in 0 .. TileWidth - 1, NEW row \in 0 .. TileHeight - 1
              PROVE  IsMean(out[3 + At(row, column, TileWidth)], column, row)'
          <5>1. out'[3 + At(row, column, TileWidth)] = p[At(row, column, TileWidth)]
            BY <1>8, <4>2, <4>3, Zenon
          <5>2. IsMean(p[At(row, column, TileWidth)], column, row)
            BY <1>8, Zenon DEF p
          <5>3. IsMean(p[At(row, column, TileWidth)], column, row) =
                  IsMean(out[3 + At(row, column, TileWidth)], column, row)'
            <6>1. \A c, r : Mosaic(c, r)' = Mosaic(c, r)
              BY <1>1, Zenon DEF Mosaic
            <6> QED BY <5>1, <6>1, ZenonT(60) DEF IsMean
          <5> QED BY <5>2, <5>3, Zenon
        <4>6. SubSeq(out', 1, 3) = Encoded(TileWidth, TileHeight, <<>>)
          BY <4>3, <4>4, Zenon
        <4> QED BY <4>5, <4>6, Zenon DEF MipRight
      <3> QED BY <3>3, <3>4
    <2> QED BY <2>1, <2>2
  <1>11. MipInv'
    BY <1>1, <1>10 DEF MipInv, Merging
  <1> QED BY <1>6, <1>7, <1>11

\* Its images go from the stack.
LEMMA LeaveMipPixels ==
  ASSUME IInv, PixelInv, LeaveMip
  PROVE  AllSized' /\ CountInv' /\ MipInv'
PROOF
  <1>1. AllSized /\ Balanced /\ pc' \in {"idle", "leave mip"} /\ sub' = sub /\ tiles' = tiles
    BY Levels DEF PixelInv, LeaveMip
  <1>2. Pop(Destroyed(State(TopImage)))
    BY DEF LeaveMip
  <1>3. Len(images) \in 1 .. 3
    BY DEF LeaveMip, IInv, Shape
  <1>4. Len(images) >= 1
    BY <1>3
  <1>5. /\ \A m \in DOMAIN images' : Unmoved(m)
        /\ DOMAIN images' = DOMAIN images \ {Len(images)}
        /\ Len(images') = Len(images) - 1
    BY <1>1, <1>2, <1>4, PopPixels, PopBalanced
  <1>6. AllSized'
    BY <1>1, <1>5, SizedStays
  <1>7. CountInv'
    BY <1>1, CountsStay DEF PixelInv
  <1>8. Top' # 3
    <2>1. \A k \in 1 .. 3 : k - 1 # 3
      OBVIOUS
    <2> QED BY <1>3, <1>5, <2>1, Zenon DEF Top
  <1>9. MipInv'
    BY <1>1, <1>8 DEF MipInv, MipRight, Merging
  <1> QED BY <1>6, <1>7, <1>9

\* So the steps of a mip tile keep what is said of the pixels.
LEMMA MipPixels ==
  ASSUME IInv, PixelInv,
         BeginMip \/ BeginHigherLevel \/ SkipSubTile \/ LoadSubTile \/ LoadFails \/ ConvertSubTile
           \/ CopySubTile \/ LeaveSubTile \/ Sample \/ StoreMip \/ StoreMipFails \/ LeaveMip
  PROVE  PixelInv'
PROOF
  <1>1. pc' \in Mipping \union {"idle"}
    BY DEF BeginMip, BeginHigherLevel, SkipSubTile, LoadSubTile, LoadFails, ConvertSubTile,
           CopySubTile, LeaveSubTile, Sample, StoreMip, StoreMipFails, LeaveMip, GoTo, Mipping, Merging
  <1>2. pc' \notin Answering /\ pc' \notin Fetching
    BY <1>1 DEF Mipping, Merging, Answering, Fetching
  <1>3. AnswerInv' /\ FetchInv'
    BY <1>2, Elsewhere
  <1>4. AllSized' /\ CountInv' /\ MipInv'
    BY BeginMipPixels, BeginHigherLevelPixels, PassPixels, LoadSubTilePixels, ConvertSubTilePixels,
       CopySubTilePixels, LeaveSubTilePixels, SamplePixels, StoreMipPixels, LeaveMipPixels, Zenon
  <1> QED BY <1>3, <1>4 DEF PixelInv

-----------------------------------------------------------------------------
(* The theorems                                                            *)

\* It holds of no images,
LEMMA InitPixels == Init => PixelInv
PROOF
  <1> SUFFICES ASSUME Init PROVE PixelInv
    OBVIOUS
  <1>1. images = <<>> /\ pc = "idle" /\ sub = 0 /\ tiles = 0
    BY DEF Init
  <1>2. AllSized
    BY <1>1 DEF AllSized
  <1>3. AnswerInv /\ FetchInv /\ MipInv
    BY <1>1 DEF AnswerInv, FetchInv, StoredAsSent, MipInv, MipRight, Merging
  <1>4. CountInv
    BY <1>1, ImageAssumption DEF CountInv
  <1> QED BY <1>2, <1>3, <1>4 DEF PixelInv

\* while nothing happens,
LEMMA IdlePixels == PixelInv /\ UNCHANGED vars => PixelInv'
PROOF
  <1> SUFFICES ASSUME PixelInv, UNCHANGED vars PROVE PixelInv'
    OBVIOUS
  <1>1. /\ memory' = memory /\ images' = images /\ pc' = pc /\ format' = format
        /\ shown' = shown /\ sub' = sub /\ out' = out /\ tiles' = tiles
    BY DEF vars
  <1>2. \A m : Unmoved(m)
    BY <1>1, SameIsUnmoved
  <1>3. AllSized'
    BY <1>1, <1>2, SizedStays DEF PixelInv
  <1>4. AnswerInv'
    BY <1>1, Zenon DEF PixelInv, AnswerInv, IsTile, Raw, Answer
  <1>5. FetchInv'
    BY <1>1, Zenon DEF PixelInv, FetchInv, StoredAsSent, HasNoPixels, IsTile, Raw
  <1>6. CountInv'
    BY <1>1, Zenon DEF PixelInv, CountInv
  <1>7. MipInv'
    <2>1. Waiting' = Waiting
      BY <1>1, Zenon DEF Waiting
    <2>2. pc' \in Merging => MosaicInv'
      BY <1>1, <1>2, <2>1, MosaicKept DEF PixelInv, MipInv
    <2>9. ASSUME NEW v, NEW column, NEW row
          PROVE  IsMean(v, column, row)' = IsMean(v, column, row)
      <3>1. \A c, r : Mosaic(c, r)' = Mosaic(c, r)
        BY <1>1, Zenon DEF Mosaic
      <3> QED BY <3>1, ZenonT(60) DEF IsMean
    <2>3. ASSUME pc' = "store mip"
          PROVE  SampledInv'
      <3>1. SampledInv
        BY <1>1, <2>3 DEF PixelInv, MipInv
      <3>2. ASSUME NEW column \in 0 .. TileWidth - 1, NEW row \in 0 .. TileHeight - 1
            PROVE  IsMean(Raw(3)[At(row, column, TileWidth)], column, row)'
        <4>1. Raw(3)' = Raw(3)
          BY <1>2, Stays
        <4>2. IsMean(Raw(3)[At(row, column, TileWidth)], column, row)
          BY <3>1, Zenon DEF SampledInv
        <4>3. \A c, r : Mosaic(c, r)' = Mosaic(c, r)
          BY <1>1, Zenon DEF Mosaic
        <4> QED BY <4>1, <4>2, <4>3, ZenonT(60) DEF IsMean
      <3> QED BY <3>2, Zenon DEF SampledInv
    <2>4. MipRight'
      <3>1. SUFFICES ASSUME pc = "leave mip", Top = 3, out # Nothing PROVE MipRight'
        BY <1>1, Zenon DEF MipRight, Top
      <3>2. CASE /\ out = Encoded(0, 0, <<>>)
                 /\ \A column \in 0 .. TileWidth - 1, row \in 0 .. TileHeight - 1 :
                      IsMean(Invalid, column, row)
        <4>1. \A column \in 0 .. TileWidth - 1, row \in 0 .. TileHeight - 1 :
                IsMean(Invalid, column, row)'
          BY <2>9, <3>2, Zenon
        <4> QED BY <1>1, <3>2, <4>1, Zenon DEF MipRight
      <3>3. CASE /\ SubSeq(out, 1, 3) = Encoded(TileWidth, TileHeight, <<>>)
                 /\ \A column \in 0 .. TileWidth - 1, row \in 0 .. TileHeight - 1 :
                      IsMean(out[3 + At(row, column, TileWidth)], column, row)
        <4>1. ASSUME NEW column \in 0 .. TileWidth - 1, NEW row \in 0 .. TileHeight - 1
              PROVE  IsMean(out[3 + At(row, column, TileWidth)], column, row)'
          <5>1. IsMean(out[3 + At(row, column, TileWidth)], column, row)
            BY <3>3, Zenon
          <5>2. IsMean(out[3 + At(row, column, TileWidth)], column, row) =
                  IsMean(out[3 + At(row, column, TileWidth)], column, row)'
            <6>1. \A c, r : Mosaic(c, r)' = Mosaic(c, r)
              BY <1>1, Zenon DEF Mosaic
            <6> QED BY <1>1, <6>1, ZenonT(60) DEF IsMean
          <5> QED BY <5>1, <5>2, Zenon
        <4> QED BY <1>1, <3>3, <4>1, Zenon DEF MipRight
      <3> QED BY <3>1, <3>2, <3>3, Zenon DEF PixelInv, MipInv, MipRight
    <2>5. pc' = "loaded" => LoadedInv'
      BY <1>1, Zenon DEF PixelInv, MipInv, LoadedInv
    <2>6. pc' = "copy" => CopyInv'
      BY <1>1, Zenon DEF PixelInv, MipInv, CopyInv, IsTile, Raw
    <2>7. pc' \in Merging \union {"higher level", "store mip"} => HasNoPixels(1)' /\ out' = Nothing
      BY <1>1, Zenon DEF PixelInv, MipInv, HasNoPixels
    <2>8. /\ pc' = "sub-tile" => NoneFrom(sub + 1)'
          /\ pc' \in {"loaded", "copy", "leave sub-tile"} => NoneFrom(sub + 2)'
          /\ pc' = "store mip" => IsTile(3)'
      BY <1>1, Zenon DEF PixelInv, MipInv, NoneFrom, IsTile
    <2> QED BY <2>2, <2>3, <2>4, <2>5, <2>6, <2>7, <2>8, Zenon DEF MipInv
  <1> QED BY <1>3, <1>4, <1>5, <1>6, <1>7 DEF PixelInv

\* and after each step.
LEMMA StepPixels == IInv /\ IInv' /\ PixelInv /\ [Next]_vars => PixelInv'
PROOF
  <1> SUFFICES ASSUME IInv, IInv', PixelInv, [Next]_vars PROVE PixelInv'
    OBVIOUS
  <1>1. CASE UNCHANGED vars
    BY <1>1, IdlePixels
  <1>2. CASE BeginAnswer \/ Render \/ LayerFails \/ Convert \/ Reply \/ Leave
    BY <1>2, AnswerPixels
  <1>3. CASE \/ BeginFetching \/ BeginTile \/ ReadShort \/ ReadTile \/ StoreFetched
             \/ StoreFetchedFails \/ LeaveTile \/ EndFetching
    BY <1>3, FetchPixels
  <1>4. CASE \/ BeginMip \/ BeginHigherLevel \/ SkipSubTile \/ LoadSubTile \/ LoadFails
             \/ ConvertSubTile \/ CopySubTile \/ LeaveSubTile \/ Sample \/ StoreMip
             \/ StoreMipFails \/ LeaveMip
    BY <1>4, MipPixels
  <1> QED BY <1>1, <1>2, <1>3, <1>4 DEF Next

\* What is said of the pixels implies that the images are well typed
LEMMA PixelsAreImages == IInv /\ PixelInv => ImageTypeOK
PROOF
  <1> SUFFICES ASSUME IInv, PixelInv PROVE ImageTypeOK
    OBVIOUS
  <1>1. Balanced /\ AllSized
    BY DEF IInv, PixelInv
  <1>2. ASSUME NEW b \in DOMAIN memory PROVE memory[b].by \in {"new", "stb"}
    <2>1. PICK n \in DOMAIN images : b \in BufferSet(images[n])
      BY <1>1 DEF Balanced
    <2>2. ImgOK(images[n], memory)
      BY <1>1 DEF Balanced
    <2>3. CASE b = images[n].raw
      BY <2>1, <2>2, <2>3 DEF ImgOK, BufferSet
    <2>4. CASE b = images[n].processed
      BY <2>1, <2>2, <2>4 DEF ImgOK, BufferSet
    <2> QED BY <2>1, <2>3, <2>4 DEF BufferSet
  <1>3. ASSUME NEW n \in DOMAIN images
        PROVE  /\ images[n].raw \in Pointers /\ images[n].processed \in Pointers
               /\ images[n].raw # NULL => Len(Raw(n)) = images[n].width * images[n].height
    <2>1. images[n].raw \in Pointers /\ images[n].processed \in Pointers
      BY <1>1, RawIsThere DEF Pointers
    <2>2. ASSUME images[n].raw # NULL PROVE Len(Raw(n)) = images[n].width * images[n].height
      <3> DEFINE w == images[n].width
                 h == images[n].height
      <3>1. w \in Nat /\ h \in Nat /\ Raw(n) \in [1 .. w * h -> Int]
        BY <1>1, <2>2 DEF AllSized, Sized
      <3> HIDE DEF w, h
      <3>2. w * h \in Nat
        BY <3>1
      <3> QED BY <3>1, <3>2, CountedIsSeq DEF w, h
    <2> QED BY <2>1, <2>2
  <1>4. Len(images) \in 0 .. 3
    <2>1. 0 \in 0 .. 3 /\ \A k \in 1 .. 3 : k \in 0 .. 3
      OBVIOUS
    <2>2. 1 \in 0 .. 3 /\ 2 \in 0 .. 3 /\ 3 \in 0 .. 3
      OBVIOUS
    <2> QED BY <2>1, <2>2, Zenon DEF IInv, Shape
  <1>5. sub \in 0 .. 4 /\ tiles \in 0 .. MaxTiles
    BY DEF PixelInv, CountInv
  <1> QED BY <1>2, <1>3, <1>4, <1>5 DEF ImageTypeOK

\* and that the pictures are kept.
LEMMA PixelsAreKept == IInv /\ PixelInv => PicturesKept
PROOF
  <1> SUFFICES ASSUME IInv, PixelInv PROVE PicturesKept
    OBVIOUS
  <1>1. StoredAsSent
    BY DEF PixelInv, FetchInv
  <1>2. ASSUME pc = "leave", TopImage.processed # NULL
        PROVE  out = Answer
    <2>1. TopImage = images[1]
      <3>1. Len(images) = 1
        BY <1>2 DEF IInv, Shape
      <3> QED BY <3>1 DEF TopImage, Top
    <2> QED BY <1>2, <2>1 DEF PixelInv, AnswerInv
  <1>3. SentAsRendered
    BY <1>2 DEF SentAsRendered, Answer
  <1> QED BY <1>1, <1>3 DEF PicturesKept

\* The invariant of the memory and that of the pixels hold always.
LEMMA PixelsAlways == Spec => [](IInv /\ PixelInv)
PROOF
  <1>1. Init => IInv /\ PixelInv
    BY InitBalanced, InitPixels
  <1>2. IInv /\ PixelInv /\ [Next]_vars => IInv' /\ PixelInv'
    BY StepBalanced, StepPixels
  <1> QED BY <1>1, <1>2, PTL DEF Spec

(***************************************************************************)
(* The buffers and the images are what they are said to be: an image has   *)
(* no buffer that is gone, and as many pixels as its width and its height  *)
(* say, after any conversion, also one of a file that was cut off.         *)
(***************************************************************************)
THEOREM ImageTypes == Spec => []ImageTypeOK
PROOF BY PixelsAlways, PixelsAreImages, PTL

(***************************************************************************)
(* Whatever leaves the process is the picture that it is said to be: the   *)
(* tile that is stored holds what the last complete answer of the server   *)
(* said, and the answer that is sent what the layer rendered.              *)
(***************************************************************************)
THEOREM PicturesAlwaysKept == Spec => []PicturesKept
PROOF BY PixelsAlways, PixelsAreKept, PTL

(***************************************************************************)
(* A pixel of a mip tile is the mean of the pixels with data among the     *)
(* four below it, for tiles of any size: the sub-tiles are copied to their *)
(* places, in whichever order some of them fail, and SampleWithBoxFilter   *)
(* steps over the right four.                                              *)
(***************************************************************************)
THEOREM MipsAlwaysRight == Spec => []MipRight
PROOF
  <1>1. PixelInv => MipRight
    BY DEF PixelInv, MipInv
  <1> QED BY <1>1, PixelsAlways, PTL
=============================================================================
