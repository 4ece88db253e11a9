---------------------------- MODULE MCRecording ----------------------------
(* A small instance of Recording.                                          *)
EXTENDS Recording

CONSTANTS a, b

TwoCars == {a, b}
Data    == {<<>>, <<a>>, <<b, a>>}
=============================================================================
