--------------------------- MODULE MCStreamStore ---------------------------
(* Small instances of StreamStore.                                         *)
EXTENDS StreamStore

CONSTANTS s1, s2

OneStream   == <<s1>>
BothStreams == <<s1, s2>>
=============================================================================
