----------------------------- MODULE MCSocketIO -----------------------------
(* Small instances of SocketIO: every client and publisher in one room,    *)
(* and a few frames, all of one publisher or some of each.                 *)
EXTENDS SocketIO

CONSTANTS s1, p1, p2

SameRoom == [c \in Clients |-> s1]
OneRoom  == [p \in Publishers |-> s1]

FewFrames ==
  [Publishers -> 0 .. 1] \cup {f \in [Publishers -> 0 .. 3] : \E q \in Publishers : f[q] = 0}
=============================================================================
