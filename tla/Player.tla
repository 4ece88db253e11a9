------------------------------- MODULE Player -------------------------------
(***************************************************************************)
(* One player (client/src/worker/stream): the packets the worker passes on *)
(* go through a queue into the SourceBuffer of the video, which is cleared *)
(* of old data by a timer.                                                 *)
(*                                                                         *)
(* All of this runs on the page's event loop, one handler at a time.  What *)
(* makes it hard is the SourceBuffer: an append or a removal that is done  *)
(* makes it idle again before the updateend event is delivered, and any    *)
(* handler may run in between.                                             *)
(*                                                                         *)
(* Packet n holds the video from time n - 1 to n.  Those in Key begin with *)
(* a key frame, a random access point; the others cannot be decoded        *)
(* without the packets before them.                                        *)
(***************************************************************************)
EXTENDS Integers, Sequences, FiniteSets, SequencesExt, FiniteSetsExt

CONSTANTS
  MAX_QUEUE_LENGTH,     \* 50
  BUFFER_MAX_DURATION,  \* 15 seconds, here packets
  Key,                  \* the packets that begin with a key frame
  MaxPacket,            \* bound: packets the server sends
  MaxClears             \* bound: removals that wait for their turn

ASSUME PlayerAssumption ==
  /\ MAX_QUEUE_LENGTH \in Nat \ {0}
  /\ BUFFER_MAX_DURATION \in Nat \ {0}
  /\ Key \subseteq Nat
  /\ MaxPacket \in Nat
  /\ MaxClears \in Nat

VARIABLES
  source_buffer,  \* "none" before sdp, then what it does
  ends,           \* updateend events that are not delivered yet
  broken,         \* the video could not be decoded: appends throw
  ready,          \* the queue is to be filled, not passed by
  queue,
  arrived,        \* how many packets were handed to readPacket
  appended,       \* the packets given to appendBuffer, in order
  buffered,       \* the packets in the source buffer
  removing,       \* those the removal under way was asked to take out
  clears,         \* removals that wait for an updateend
  threw,          \* history: the last call of appendBuffer threw
  disturbed       \* history: one ever threw, or a removal was made

bufferVars == <<source_buffer, ends, broken, buffered, removing>>
vars == <<bufferVars, ready, queue, arrived, appended, clears, threw, disturbed>>

Packet == 1 .. MaxPacket

TypeOK ==
  /\ source_buffer \in {"none", "idle", "append", "remove"}
  /\ ends \in Nat
  /\ broken \in BOOLEAN
  /\ ready \in BOOLEAN
  /\ queue \in Seq(Packet) /\ Len(queue) <= MAX_QUEUE_LENGTH + 1
  /\ arrived \in 0 .. MaxPacket
  /\ appended \in Seq(Packet)
  /\ buffered \in SUBSET Packet
  /\ removing \in SUBSET Packet
  /\ clears \in Seq(SUBSET Packet)
  /\ threw \in BOOLEAN
  /\ disturbed \in BOOLEAN

Init ==
  /\ source_buffer = "none"
  /\ ends = 0
  /\ broken = FALSE
  /\ ready = FALSE
  /\ queue = <<>>
  /\ arrived = 0
  /\ appended = <<>>
  /\ buffered = {}
  /\ removing = {}
  /\ clears = <<>>
  /\ threw = FALSE
  /\ disturbed = FALSE

(* The message "sdp", before any packet.  If addSourceBuffer does not know *)
(* the codec it throws, and there is no source buffer.                     *)
Sdp ==
  /\ source_buffer = "none" /\ arrived = 0
  /\ source_buffer' = "idle"
  /\ UNCHANGED <<ends, broken, buffered, removing, ready, queue, arrived, appended,
                 clears, threw>>

-----------------------------------------------------------------------------
(* add_source_buffer: refused without a source buffer or while it updates; *)
(* otherwise appendBuffer may throw, for want of space, and does when the  *)
(* video is broken.                                                        *)

Appends(x) ==
  /\ source_buffer = "idle" /\ ~broken
  /\ source_buffer' = "append"
  /\ appended' = Append(appended, x)
  /\ threw' = FALSE

Refuses ==
  /\ UNCHANGED appended
  /\ threw' = (threw \/ source_buffer = "idle")

(* Mutant: the newest go.                                                  *)
Oldest(q, n) == SubSeq(q, 1, IF Len(q) > n THEN n ELSE Len(q))

(* The queue: what is longer than the maximum is cut from its front before *)
(* the next packet is added.                                               *)
Newest(q, n) == SubSeq(q, IF Len(q) > n THEN Len(q) - n + 1 ELSE 1, Len(q))

Pushed(q, x) == Append(Newest(q, MAX_QUEUE_LENGTH), x)

Unshifted(q, x) == IF Len(q) > MAX_QUEUE_LENGTH THEN q ELSE <<x>> \o q

(* pushPacket on a queue q that is not empty.                              *)
PacketPushed(q) ==
  /\ Appends(Head(q))
  /\ queue' = Tail(q)

PacketKept(q) ==
  /\ Refuses
  /\ queue' = Unshifted(Tail(q), Head(q))

(* Mutant: a packet is appended whenever the buffer is idle.               *)
FirstPacketEager(x) ==
  /\ Appends(x)
  /\ ready' = TRUE
  /\ UNCHANGED queue

(* readPacket: with nothing in the queue, or so the flag says, the packet  *)
(* is appended.  If that is refused it is queued and the first of the      *)
(* queue is tried.                                                         *)
FirstPacket(x) ==
  /\ ~ready
  /\ Appends(x)
  /\ ready' = TRUE
  /\ UNCHANGED queue

RefusedPacket(x) ==
  /\ ~ready
  /\ \/ PacketPushed(Pushed(queue, x))
     \/ PacketKept(Pushed(queue, x)) /\ UNCHANGED source_buffer
  /\ UNCHANGED ready

QueuedPacket(x) ==
  /\ ready
  /\ queue' = Pushed(queue, x)
  /\ UNCHANGED <<ready, source_buffer, appended, threw>>

ReadPacket ==
  /\ arrived < MaxPacket
  /\ arrived' = arrived + 1
  /\ \/ FirstPacket(arrived + 1)
     \/ RefusedPacket(arrived + 1)
     \/ QueuedPacket(arrived + 1)
  /\ UNCHANGED <<ends, broken, buffered, removing, clears>>

-----------------------------------------------------------------------------
(* The source buffer.                                                      *)

AppendDone ==
  /\ source_buffer = "append"
  /\ source_buffer' = "idle"
  /\ ends' = ends + 1
  /\ \/ buffered' = buffered \cup {Last(appended)} /\ UNCHANGED broken
     \/ broken' = TRUE /\ UNCHANGED buffered
  /\ UNCHANGED <<ready, queue, arrived, appended, removing, clears, threw>>

(* A removal goes on to the next random access point in the buffer, and to *)
(* the end if there is none: what it leaves can be decoded.                *)
Removed ==
  {x \in buffered :
     /\ \E r \in removing : r <= x
     /\ \A k \in Key \cap buffered : (\A r \in removing : r < k) => x < k}

RemoveDone ==
  /\ source_buffer = "remove"
  /\ source_buffer' = "idle"
  /\ ends' = ends + 1
  /\ buffered' = buffered \ Removed
  /\ removing' = {}
  /\ UNCHANGED <<broken, ready, queue, arrived, appended, clears, threw>>

(* updateend: the removals that waited for it, after pushPacket.  If the   *)
(* buffer is idle the first is made, and the others wait for the next      *)
(* updateend.  The media source of a broken video has ended: they are      *)
(* dropped.                                                                *)
NextRemoval ==
  IF broken \/ clears = <<>>
  THEN clears' = <<>> /\ UNCHANGED <<source_buffer, removing>>
  ELSE IF source_buffer = "idle"
       THEN /\ source_buffer' = "remove"
            /\ removing' = Head(clears)
            /\ clears' = Tail(clears)
       ELSE UNCHANGED <<source_buffer, removing, clears>>

(* Mutant: the flag stays.                                                 *)
NothingQueuedStill ==
  /\ queue = <<>>
  /\ UNCHANGED <<ready, queue, appended, threw>>
  /\ NextRemoval

NothingQueued ==
  /\ queue = <<>>
  /\ ready' = FALSE
  /\ UNCHANGED <<queue, appended, threw>>
  /\ NextRemoval

UpdateEnd ==
  /\ ends > 0
  /\ ends' = ends - 1
  /\ \/ NothingQueued
     \/ /\ queue # <<>>
        /\ PacketPushed(queue)
        /\ UNCHANGED <<ready, removing, clears>>
     \/ /\ queue # <<>>
        /\ PacketKept(queue)
        /\ UNCHANGED ready
        /\ NextRemoval
  /\ UNCHANGED <<broken, arrived, buffered>>

-----------------------------------------------------------------------------
(* clearBuffer, every BUFFER_MAX_DURATION / 2.                             *)

RangeEnd(i) == Max({j \in buffered : i .. j \subseteq buffered})

(* What is taken from the range that begins with packet i: all of it if it *)
(* lies that long behind the playback; if it is too long, its beginning.   *)
(* Mutant: all of it in both cases.                                        *)
OldWhole(i, currentTime) ==
  LET end == RangeEnd(i)
  IN  IF \/ end < currentTime - BUFFER_MAX_DURATION
         \/ end - (i - 1) > 2 * BUFFER_MAX_DURATION THEN i .. end
      ELSE {}

Old(i, currentTime) ==
  LET end == RangeEnd(i)
  IN  IF end < currentTime - BUFFER_MAX_DURATION THEN i .. end
      ELSE IF end - (i - 1) > 2 * BUFFER_MAX_DURATION THEN i .. end - BUFFER_MAX_DURATION
      ELSE {}

(* The ranges of which something is taken, each named by its first packet, *)
(* from the first to the last.                                             *)
Beginnings(currentTime) ==
  LET cut == {i \in buffered : i - 1 \notin buffered /\ Old(i, currentTime) # {}}
  IN  {q \in [1 .. Cardinality(cut) -> cut] :
         \A k, l \in 1 .. Cardinality(cut) : k < l => q[k] < q[l]}

Removals(currentTime) ==
  {[k \in 1 .. Len(q) |-> Old(q[k], currentTime)] : q \in Beginnings(currentTime)}

(* The packets whose append is over.                                       *)
Over == 1 .. Len(appended) - (IF source_buffer = "append" \/ broken THEN 1 ELSE 0)

Done == {appended[i] : i \in Over}

(* The playback is anywhere up to the last packet that was ever appended,  *)
(* whether or not that is still in the buffer.                             *)
ClearBuffer ==
  /\ source_buffer # "none" /\ ~broken /\ buffered # {}
  /\ \E currentTime \in 0 .. Max(Done) : \E removals \in Removals(currentTime) :
       /\ removals # <<>> /\ Len(clears) + Len(removals) <= MaxClears
       /\ IF source_buffer = "idle"
          THEN /\ source_buffer' = "remove"
               /\ removing' = Head(removals)
               /\ clears' = clears \o Tail(removals)
          ELSE /\ clears' = clears \o removals
               /\ UNCHANGED <<source_buffer, removing>>
  /\ UNCHANGED <<ends, broken, ready, queue, arrived, appended, buffered, threw>>

-----------------------------------------------------------------------------

Step == Sdp \/ ReadPacket \/ AppendDone \/ RemoveDone \/ UpdateEnd \/ ClearBuffer

(* readPacket's own append was refused by an idle buffer, whatever became  *)
(* of the queue's first.                                                   *)
FirstThrew == arrived' # arrived /\ source_buffer = "idle" /\ ~ready /\ ~ready'

Next ==
  /\ Step
  /\ disturbed' = (disturbed \/ threw' \/ FirstThrew \/ source_buffer' = "remove")

Spec == Init /\ [][Next]_vars

-----------------------------------------------------------------------------
(* Properties.                                                             *)

In(x, q) == \E i \in 1 .. Len(q) : q[i] = x

(* Packets reach the source buffer in order as long as nothing is done to  *)
(* it but appending, and no append throws: the flag then says that the     *)
(* queue is empty.                                                         *)
OrderedUnlessDisturbed ==
  ~disturbed => \A i, j \in 1 .. Len(appended) : i < j => appended[i] < appended[j]

(* Otherwise a packet may be appended ahead of those that wait, between    *)
(* the end of a removal and its event; but they are not passed by twice.   *)
OvertakenOnce ==
  \A i, j, k \in 1 .. Len(appended) :
    (i < k /\ j < k /\ appended[i] > appended[k] /\ appended[j] > appended[k]) => i = j

(* The order in which the packets of a player are decoded.                 *)
AppendedInOrder == OrderedUnlessDisturbed /\ OvertakenOnce

(* No packet gets lost between the two, except the oldest of a full queue. *)
OnlyOldestDropped ==
  [][\A x \in Packet :
       (In(x, queue) /\ ~In(x, queue') /\ ~In(x, appended')) =>
          /\ Len(queue) > MAX_QUEUE_LENGTH
          /\ \A i \in 1 .. Len(queue) : x <= queue[i]]_vars

(* If packets wait although the buffer is idle and no event is to come, an *)
(* append threw: the next packet then only joins the queue, and nothing    *)
(* moves before the timer clears the buffer or the video is refreshed.     *)
StuckOnlyAfterThrow ==
  (queue # <<>> /\ source_buffer = "idle" /\ ends = 0) => threw

(* However often it is put off, whatever the buffer holds by then and      *)
(* however far the browser extends it, a removal leaves a packet of the    *)
(* last BUFFER_MAX_DURATION alone if a key frame of that time was appended *)
(* before it.  What has no key frame before it in that time may go.        *)
LatestKept ==
  \A i, j \in Over :
    /\ i <= j /\ appended[i] \in Key /\ appended[i] <= appended[j]
    /\ \A z \in Done : z < appended[i] + BUFFER_MAX_DURATION
    => appended[j] \in buffered

=============================================================================
