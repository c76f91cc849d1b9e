---------------------------- MODULE MCImageBuffers ----------------------------
(* Tiles of two pixels beside one another, so that rows and columns cannot  *)
(* be mistaken for one another; pictures without any data, with one pixel    *)
(* of data, and with two whose mean has a fraction.                          *)
EXTENDS ImageBuffers

NoData == -9999
SomePictures == {<<NoData, NoData>>, <<-3, NoData>>, <<2, -5>>}

AllFormats == {[content |-> "PNG", type |-> "U8"], [content |-> "Raw_U8", type |-> "U8"],
               [content |-> "Raw_S16", type |-> "S16"], [content |-> "Elevation", type |-> "S16"]}
=============================================================================
