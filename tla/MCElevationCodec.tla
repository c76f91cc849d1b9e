-------------------------- MODULE MCElevationCodec --------------------------
(* Instances of ElevationCodec for TLC.                                    *)
EXTENDS ElevationCodec

NoData == -9999
\* three heights, two of them just too far apart for a byte, and no data
Heights == {NoData, 0, 1, 255}
\* two heights near each other, and no data
NearAndInvalid == {NoData, 0, 1}

\* codes of up to six numbers: the two flags, others that are lengths up to the
\* width of a row
Codes == UNION {[1 .. n -> {0, 3, 4, Width, ElevationFlag_RLE, ElevationFlag_RelativeBulk}] :
                  n \in 0 .. 6}

\* Images that are coded and decoded, and files that hold any code at all.  The
\* loops run without waiting for anything.
FileSpec == (Init \/ DamagedInit(Codes)) /\ [][Next]_vars /\ WF_vars(Next)
=============================================================================
