------------------------------ MODULE FrameFeed ------------------------------
(***************************************************************************)
(* What the frames socket promises its viewers.  A feed is one extraction  *)
(* of frames from a stream, which publishes frames 1, 2, 3, ...  A viewer  *)
(* is shown published frames of the feeds of the stream it named, each     *)
(* later than the one of that feed before.  Frames may be skipped, never   *)
(* repeated, reordered within their feed or invented; two feeds of one     *)
(* stream are shown in any interleaving.                                   *)
(***************************************************************************)
EXTENDS Naturals

CONSTANTS Viewers, Feeds, Stream, StreamOf

VARIABLES
  published,  \* the latest frame of a feed
  shown,      \* the latest frame of each feed a viewer was shown
  count       \* how many frames it was shown

feedVars == <<published, shown, count>>

FeedInit ==
  /\ published = [f \in Feeds |-> 0]
  /\ shown = [v \in Viewers |-> [f \in Feeds |-> 0]]
  /\ count = [v \in Viewers |-> 0]

Publish(f) ==
  /\ published' = [published EXCEPT ![f] = @ + 1]
  /\ UNCHANGED <<shown, count>>

Show(v, f) ==
  /\ StreamOf[f] = Stream[v]
  /\ \E n \in (shown[v][f] + 1) .. published[f] :
       shown' = [shown EXCEPT ![v][f] = n]
  /\ count' = [count EXCEPT ![v] = @ + 1]
  /\ UNCHANGED published

FeedNext ==
  \/ \E f \in Feeds : Publish(f)
  \/ \E v \in Viewers, f \in Feeds : Show(v, f)

FeedSpec == FeedInit /\ [][FeedNext]_feedVars
=============================================================================
