---------------------------- MODULE Go2rtcStream ----------------------------
(***************************************************************************)
(* One stream of the embedded go2rtc (go2rtc/internal/streams and the      *)
(* tracks of go2rtc/pkg/core): viewers come and go by AddConsumer and      *)
(* RemoveConsumer, each in its own goroutine, while the producer's worker  *)
(* replaces a connection that fails.                                       *)
(*                                                                         *)
(* The stream has one producer.  The viewers ask for video and for audio,  *)
(* and a join, a leave and a reconnection deal with one kind after the     *)
(* other.  The connections are those of an ffmpeg source: the passive RTSP *)
(* connection of go2rtc/internal/exec, whose Receivers are there when it   *)
(* is made, one per kind it offers; a Receiver goes by the number of its   *)
(* connection.  The source comes back with the codecs it had, which        *)
(* ffmpeg's arguments fix (go2rtc.yaml), or without the kind.              *)
(***************************************************************************)
EXTENDS Integers, FiniteSets

CONSTANTS
  Viewers,    \* the MSE consumers; each comes once
  NoViewer,
  MaxConn,    \* bound: connections made
  MaxDeaths   \* bound: connections that fail

ASSUME Go2rtcStreamAssumption ==
  /\ IsFiniteSet(Viewers) /\ NoViewer \notin Viewers
  /\ MaxConn \in Nat \ {0} /\ MaxDeaths \in Nat

Conn == 1 .. MaxConn
NoConn == 0

Kind == {"video", "audio"}
NoKind == "none"

(* Video before audio.                                                     *)
FirstOf(K) == IF K = {"audio"} THEN "audio" ELSE "video"
After(k) == IF k = "video" THEN {"audio"} ELSE {}

VARIABLES
  state, conn, workerID,  \* of the Producer
  receiver,   \* of the Producer: per kind, its track's connection
  offers,     \* the kinds that its connection offers the viewers
  workers,    \* its goroutines: their id and connection
  moving,     \* reconnect holds p.mu: the id of its worker, or 0
  to, brings, \* and the connection it has made, and what that one offers
  todo,       \* and the kinds it has still to move
  hand, taken,  \* and the kind it is moving, with the track's children
  opened,     \* connections made so far
  status,     \* per connection: "none", "up", "down" or "closed"
  childs,     \* per connection and kind: the children of its Receiver
  deaths,     \* connections that failed
  pending,    \* of the Stream
  lock,       \* who holds s.mu
  unchecked,  \* and the tracks at whose children it has still to look
  consumers,  \* of the Stream
  pc,         \* per viewer: the next step of its goroutine
  at,         \* per viewer: the kind it is about
  track,      \* per viewer: the connection of the media, or Receiver, it has
  sender,     \* per viewer and kind: its Sender, "none", "open" or "closed"
  parent,     \* per viewer and kind: the parent of its Sender, until it closes
  raced,      \* history: the viewers and kinds of ServedUnlessRaced
  left        \* history: a Sender was closed while its track was being moved

producerVars == <<state, conn, workerID, receiver, offers>>
moveVars == <<moving, to, brings, todo, hand, taken>>
connVars == <<opened, status>>
streamVars == <<pending, lock, unchecked, consumers>>
viewerVars == <<pc, at, track>>
senderVars == <<sender, parent>>
vars == <<producerVars, workers, moveVars, connVars, childs, deaths, streamVars,
          viewerVars, senderVars, raced, left>>

Steps == {"idle", "dial", "medias", "gettrack", "addtrack", "done", "load",
          "check", "senders", "stop", "register", "start", "on", "leave",
          "cascade", "remove", "gone", "failed"}

TypeOK ==
  /\ state \in {"None", "Medias", "Tracks", "Start"}
  /\ conn \in Conn \cup {NoConn} /\ workerID \in Nat
  /\ receiver \in [Kind -> Conn \cup {NoConn}] /\ offers \in SUBSET Kind
  /\ workers \in SUBSET [id : Nat, conn : Conn]
  /\ moving \in Nat /\ to \in Conn \cup {NoConn} /\ brings \in SUBSET Kind
  /\ todo \in SUBSET Kind /\ hand \in Kind \cup {NoKind} /\ taken \in SUBSET Viewers
  /\ opened \in 0 .. MaxConn
  /\ status \in [Conn -> {"none", "up", "down", "closed"}]
  /\ childs \in [Conn -> [Kind -> SUBSET Viewers]]
  /\ deaths \in 0 .. MaxDeaths
  /\ pending \in Int
  /\ lock \in Viewers \cup {NoViewer} /\ unchecked \in SUBSET Kind
  /\ consumers \in SUBSET Viewers
  /\ pc \in [Viewers -> Steps] /\ at \in [Viewers -> Kind]
  /\ track \in [Viewers -> Conn \cup {NoConn}]
  /\ sender \in [Viewers -> [Kind -> {"none", "open", "closed"}]]
  /\ parent \in [Viewers -> [Kind -> Conn \cup {NoConn}]]
  /\ raced \in SUBSET (Viewers \X Kind) /\ left \in BOOLEAN

Init ==
  /\ state = "None" /\ conn = NoConn /\ workerID = 0
  /\ receiver = [k \in Kind |-> NoConn] /\ offers = {}
  /\ workers = {} /\ moving = 0 /\ to = NoConn /\ brings = {}
  /\ todo = {} /\ hand = NoKind /\ taken = {}
  /\ opened = 0 /\ status = [c \in Conn |-> "none"]
  /\ childs = [c \in Conn |-> [k \in Kind |-> {}]]
  /\ deaths = 0
  /\ pending = 0 /\ lock = NoViewer /\ unchecked = {} /\ consumers = {}
  /\ pc = [v \in Viewers |-> "idle"] /\ at = [v \in Viewers |-> "video"]
  /\ track = [v \in Viewers |-> NoConn]
  /\ sender = [v \in Viewers |-> [k \in Kind |-> "none"]]
  /\ parent = [v \in Viewers |-> [k \in Kind |-> NoConn]]
  /\ raced = {} /\ left = FALSE

(* p.mu, which only a reconnection holds for longer than a step.           *)
Unlocked == moving = 0

(* The kinds of which the producer has a track.                            *)
Tracks == {k \in Kind : receiver[k] # NoConn}

Playing(v) == {k \in Kind : sender[v][k] = "open"}

Step(v, next) == pc' = [pc EXCEPT ![v] = next]

(* A loop over the kinds: the first of K has its turn, if there is one.    *)
Turn(v, K, next, end) ==
  /\ Step(v, IF K = {} THEN end ELSE next)
  /\ at' = [at EXCEPT ![v] = FirstOf(K)]
  /\ track' = [track EXCEPT ![v] = NoConn]

Flag(S) == raced' = raced \cup S

(* Close of a Receiver: each child leaves the list that is run through,    *)
(* and the next one takes its place, so that of three or more every second *)
(* one is passed over, but for the last.                                   *)
Skipped(S) ==
  IF S = {} THEN {{}}
            ELSE {rest \in SUBSET S : Cardinality(rest) = (Cardinality(S) - 1) \div 2}

(* Stop of a connection closes its Receivers.                              *)
Stopped(c) ==
  /\ status' = [status EXCEPT ![c] = "closed"]
  /\ \E rest \in [Kind -> SUBSET Viewers] :
       /\ \A k \in Kind : rest[k] \in Skipped(childs[c][k])
       /\ childs' = [childs EXCEPT ![c] = rest]

-----------------------------------------------------------------------------
(* Connections.                                                            *)

(* GetProducer succeeds.                                                   *)
Open(c) ==
  /\ opened < MaxConn /\ c = opened + 1
  /\ opened' = c
  /\ status' = [status EXCEPT ![c] = "up"]

(* The source ends, or nothing comes from it for too long: Handle returns  *)
(* an error.  The connection and its process stay until it is stopped.     *)
SourceDies(c) ==
  /\ status[c] = "up" /\ deaths < MaxDeaths
  /\ status' = [status EXCEPT ![c] = "down"]
  /\ deaths' = deaths + 1
  /\ UNCHANGED <<producerVars, workers, moveVars, opened, childs, streamVars,
                 viewerVars, senderVars, raced, left>>

-----------------------------------------------------------------------------
(* AddConsumer, one step for each time it takes a lock, and for AddTrack,  *)
(* which takes none of the stream's.  Dial to AddTrack are for the video,  *)
(* and then again for the audio, with the join pending until both are done. *)

(* A join is raced by a leave that has seen pending at 0.                  *)
AddConsumer(v) ==
  /\ pc[v] = "idle"
  /\ pending' = pending + 1
  /\ Turn(v, Kind, "dial", "done")
  /\ Flag(IF \E u \in Viewers : pc[u] \in {"check", "senders", "stop"}
          THEN {v} \X Kind ELSE {})
  /\ UNCHANGED <<producerVars, workers, moveVars, connVars, childs, deaths, lock,
                 unchecked, consumers, senderVars, left>>

(* A failure is the end of the loop: prodErrors.                           *)
Dial(v) ==
  /\ pc[v] = "dial" /\ Unlocked
  /\ \/ /\ state = "None"
        /\ \E c \in Conn : Open(c) /\ conn' = c
        /\ offers' \in SUBSET Kind
        /\ state' = "Medias"
        /\ Step(v, "medias") /\ UNCHANGED <<at, track>>
     \/ /\ state = "None"
        /\ Turn(v, {}, "dial", "done")
        /\ UNCHANGED <<connVars, conn, offers, state>>
     \/ /\ state # "None"
        /\ Step(v, "medias") /\ UNCHANGED <<at, track>>
        /\ UNCHANGED <<connVars, conn, offers, state>>
  /\ UNCHANGED <<receiver, workerID, workers, moveVars, childs, deaths,
                 streamVars, senderVars, raced, left>>

GetMedias(v) ==
  /\ pc[v] = "medias" /\ Unlocked
  /\ IF conn # NoConn /\ at[v] \in offers
     THEN /\ track' = [track EXCEPT ![v] = conn]
          /\ Step(v, "gettrack") /\ UNCHANGED at
     ELSE Turn(v, After(at[v]), "dial", "done")
  /\ UNCHANGED <<producerVars, workers, moveVars, connVars, childs, deaths,
                 streamVars, senderVars, raced, left>>

(* A codec is the one of a track only if both are of the same connection:  *)
(* the pointers are compared.  A connection of an ffmpeg source makes no   *)
(* track for a codec that is not its own.  What is found bears the number  *)
(* of the media.  A track that is left over of a connection before has no  *)
(* other beside it: it is there while its kind is not offered.             *)
GetTrack(v) ==
  /\ pc[v] = "gettrack" /\ Unlocked
  /\ \/ /\ state # "None"
        /\ track[v] \in {receiver[at[v]], conn}
        /\ receiver' = [receiver EXCEPT ![at[v]] = track[v]]
        /\ state' = IF track[v] # receiver[at[v]] /\ state = "Medias" THEN "Tracks"
                                                                     ELSE state
        /\ Step(v, "addtrack") /\ UNCHANGED <<at, track>>
     \/ /\ state = "None" \/ track[v] \notin {receiver[at[v]], conn}
        /\ Turn(v, {}, "dial", "done")
        /\ UNCHANGED <<receiver, state>>
  /\ UNCHANGED <<conn, offers, workerID, workers, moveVars, connVars, childs, deaths,
                 streamVars, senderVars, raced, left>>

(* AddTrack of the consumer: NewSender, WithParent, Start.  It is raced by *)
(* the Sender before it that found itself the last child of this Receiver. *)
AddTrack(v) ==
  LET c == track[v]
      k == at[v]
  IN  /\ pc[v] = "addtrack"
      /\ childs' = [childs EXCEPT ![c][k] = @ \cup {v}]
      /\ parent' = [parent EXCEPT ![v][k] = c]
      /\ sender' = [sender EXCEPT ![v][k] = "open"]
      /\ Turn(v, After(k), "dial", "done")
      /\ Flag(IF \E u \in Viewers : pc[u] = "cascade" /\ track[u] = c /\ at[u] = k
              THEN {<<v, k>>} ELSE {})
      /\ UNCHANGED <<producerVars, workers, moveVars, connVars, deaths, streamVars,
                     left>>

(* What follows a call of stopProducers: a leave has closed its Senders,   *)
(* and a join that has got none is refused.                                *)
Returned(v) ==
  CASE \E k \in Kind : sender[v][k] = "closed" -> "gone"
    [] Playing(v) # {} /\ \A k \in Kind : sender[v][k] # "closed" -> "register"
    [] OTHER -> "failed"

(* Mutant: a join that failed leaves the producer as it is.                *)
MatchedNotStopping(v) ==
  /\ pc[v] = "done"
  /\ pending' = pending - 1
  /\ Step(v, Returned(v))
  /\ UNCHANGED <<producerVars, workers, moveVars, connVars, childs, deaths, lock,
                 unchecked, consumers, at, track, senderVars, raced, left>>

(* pending.Add(-1): the last one goes on to stopProducers.                 *)
Matched(v) ==
  /\ pc[v] = "done"
  /\ pending' = pending - 1
  /\ Step(v, IF pending = 1 THEN "load" ELSE Returned(v))
  /\ UNCHANGED <<producerVars, workers, moveVars, connVars, childs, deaths, lock,
                 unchecked, consumers, at, track, senderVars, raced, left>>

Register(v) ==
  /\ pc[v] = "register" /\ lock = NoViewer
  /\ consumers' = consumers \cup {v}
  /\ Turn(v, Playing(v), "start", "on")
  /\ UNCHANGED <<producerVars, workers, moveVars, connVars, childs, deaths,
                 pending, lock, unchecked, senderVars, raced, left>>

(* Once for each track that was added.                                     *)
Start(v) ==
  /\ pc[v] = "start" /\ Unlocked
  /\ Turn(v, Playing(v) \cap After(at[v]), "start", "on")
  /\ IF state = "Tracks"
     THEN /\ state' = "Start"
          /\ workerID' = workerID + 1
          /\ workers' = workers \cup {[id |-> workerID + 1, conn |-> conn]}
     ELSE UNCHANGED <<state, workerID, workers>>
  /\ UNCHANGED <<conn, offers, receiver, moveVars, connVars, childs, deaths, streamVars,
                 senderVars, raced, left>>

-----------------------------------------------------------------------------
(* RemoveConsumer.                                                         *)

(* A Sender closes its buffer and leaves its parent, and the last child    *)
(* closes the parent.  A track that is being moved has no children: there  *)
(* is nothing to leave.                                                    *)
CloseSender(v, k) ==
  LET c == parent[v][k]
  IN  /\ sender' = [sender EXCEPT ![v][k] = "closed"]
      /\ childs' = [childs EXCEPT ![c][k] = @ \ {v}]
      /\ parent' = [parent EXCEPT ![v][k] = NoConn]
      /\ left' = (left \/ (hand = k /\ v \in taken))
      /\ IF childs[c][k] \subseteq {v}
         THEN /\ track' = [track EXCEPT ![v] = c]
              /\ at' = [at EXCEPT ![v] = k]
              /\ Step(v, "cascade")
         ELSE Turn(v, Playing(v) \ {k}, "leave", "remove")
      /\ UNCHANGED <<producerVars, workers, moveVars, connVars, deaths, streamVars,
                     raced>>

(* Stop of the consumer closes its Senders one after the other.            *)
RemoveConsumer(v) == pc[v] = "on" /\ CloseSender(v, FirstOf(Playing(v)))

CloseNext(v) == pc[v] = "leave" /\ CloseSender(v, at[v])

(* Close of the parent: whoever is its child by now loses it.              *)
Cascade(v) ==
  /\ pc[v] = "cascade"
  /\ \E rest \in Skipped(childs[track[v]][at[v]]) :
       childs' = [childs EXCEPT ![track[v]][at[v]] = rest]
  /\ Turn(v, Playing(v), "leave", "remove")
  /\ UNCHANGED <<producerVars, workers, moveVars, connVars, deaths, streamVars,
                 senderVars, raced, left>>

Remove(v) ==
  /\ pc[v] = "remove" /\ lock = NoViewer
  /\ consumers' = consumers \ {v}
  /\ Step(v, "load")
  /\ UNCHANGED <<producerVars, workers, moveVars, connVars, childs, deaths,
                 pending, lock, unchecked, at, track, senderVars, raced, left>>

-----------------------------------------------------------------------------
(* stopProducers, of the last join and of every leave.                     *)

(* Mutant: pending joins are not looked at.                                *)
LoadPendingIgnored(v) ==
  /\ pc[v] = "load"
  /\ Step(v, "check")
  /\ UNCHANGED <<producerVars, workers, moveVars, connVars, childs, deaths,
                 streamVars, at, track, senderVars, raced, left>>

LoadPending(v) ==
  /\ pc[v] = "load"
  /\ Step(v, IF pending > 0 THEN Returned(v) ELSE "check")
  /\ UNCHANGED <<producerVars, workers, moveVars, connVars, childs, deaths,
                 streamVars, at, track, senderVars, raced, left>>

(* The list of the tracks is read without the producer's lock, in the      *)
(* middle of a reconnection as well.                                       *)
CheckSenders(v) ==
  /\ pc[v] = "check" /\ lock = NoViewer
  /\ lock' = v
  /\ unchecked' = Tracks
  /\ Step(v, IF Tracks = {} THEN "stop" ELSE "senders")
  /\ UNCHANGED <<producerVars, workers, moveVars, connVars, childs, deaths, pending,
                 consumers, at, track, senderVars, raced, left>>

(* Mutant: it waits until it finds the track without children.             *)
CheckTrackWaiting(v) ==
  /\ pc[v] = "senders"
  /\ \E k \in unchecked :
       IF childs[receiver[k]][k] # {}
       THEN UNCHANGED <<lock, unchecked, pc, raced>>
       ELSE /\ unchecked' = unchecked \ {k}
            /\ Step(v, IF unchecked = {k} THEN "stop" ELSE "senders")
            /\ Flag(IF hand = k THEN taken \X {k} ELSE {})
            /\ UNCHANGED lock
  /\ UNCHANGED <<producerVars, workers, moveVars, connVars, childs, deaths, pending,
                 consumers, at, track, senderVars, left>>

(* One track after the other, each as it is at that moment: a track that   *)
(* is just being moved looks unused, which races the viewers on it.        *)
CheckTrack(v) ==
  /\ pc[v] = "senders"
  /\ \E k \in unchecked :
       IF childs[receiver[k]][k] # {}
       THEN /\ lock' = NoViewer /\ unchecked' = {}
            /\ Step(v, Returned(v))
            /\ UNCHANGED raced
       ELSE /\ unchecked' = unchecked \ {k}
            /\ Step(v, IF unchecked = {k} THEN "stop" ELSE "senders")
            /\ Flag(IF hand = k THEN taken \X {k} ELSE {})
            /\ UNCHANGED lock
  /\ UNCHANGED <<producerVars, workers, moveVars, connVars, childs, deaths, pending,
                 consumers, at, track, senderVars, left>>

(* Mutant: stop leaves the worker's number as it is.                       *)
StopProducerSameID(v) ==
  /\ pc[v] = "stop" /\ Unlocked
  /\ lock' = NoViewer
  /\ Step(v, Returned(v))
  /\ IF state = "None"
     THEN UNCHANGED <<producerVars, status, childs>>
     ELSE /\ Stopped(conn)
          /\ conn' = NoConn /\ offers' = {}
          /\ state' = "None"
          /\ receiver' = [k \in Kind |-> NoConn]
          /\ UNCHANGED workerID
  /\ UNCHANGED <<workers, moveVars, opened, deaths, pending, unchecked,
                 consumers, at, track, senderVars, raced, left>>

(* stop of the producer, then s.mu is released.                            *)
StopProducer(v) ==
  /\ pc[v] = "stop" /\ Unlocked
  /\ lock' = NoViewer
  /\ Step(v, Returned(v))
  /\ IF state = "None"
     THEN UNCHANGED <<producerVars, status, childs>>
     ELSE /\ workerID' = IF state = "Start" THEN workerID + 1 ELSE workerID
          /\ Stopped(conn)
          /\ conn' = NoConn /\ offers' = {}
          /\ state' = "None"
          /\ receiver' = [k \in Kind |-> NoConn]
  /\ UNCHANGED <<workers, moveVars, opened, deaths, pending, unchecked,
                 consumers, at, track, senderVars, raced, left>>

-----------------------------------------------------------------------------
(* The producer's worker, once its connection has ended, and reconnect.    *)

(* Mutant: a worker returns without asking whether it was stopped.         *)
WorkerGivesUp(w) ==
  /\ w \in workers /\ status[w.conn] # "up" /\ Unlocked
  /\ workers' = workers \ {w}
  /\ UNCHANGED <<producerVars, moveVars, connVars, childs, deaths, streamVars,
                 viewerVars, senderVars, raced, left>>

(* The worker of a producer that was stopped returns.                      *)
WorkerReturns(w) ==
  /\ w \in workers /\ status[w.conn] # "up" /\ Unlocked
  /\ w.id # workerID
  /\ workers' = workers \ {w}
  /\ UNCHANGED <<producerVars, moveVars, connVars, childs, deaths, streamVars,
                 viewerVars, senderVars, raced, left>>

(* GetProducer succeeds (if it fails, a timer calls reconnect again), with *)
(* p.mu held until the connections are swapped.  This races a viewer that  *)
(* is between GetMedias and AddTrack, in the kind it is about, and every   *)
(* one for whose track there is no other.                                  *)
Reconnect(w) ==
  /\ w \in workers /\ status[w.conn] # "up" /\ Unlocked
  /\ w.id = workerID
  /\ \E c \in Conn :
       /\ Open(c)
       /\ to' = c
  /\ brings' \in SUBSET Kind
  /\ todo' = Tracks \cap brings'
  /\ moving' = w.id
  /\ Flag({<<v, at[v]>> : v \in {u \in Viewers : pc[u] \in {"gettrack", "addtrack"}}}
            \cup UNION {childs[receiver[k]][k] \X {k} : k \in Tracks \ todo'})
  /\ UNCHANGED <<producerVars, workers, hand, taken, childs, deaths, streamVars,
                 viewerVars, senderVars, left>>

(* MoveNode, one kind after the other: the children are taken from a       *)
(* track...                                                                *)
Take ==
  LET k == FirstOf(todo)
  IN  /\ todo # {} /\ hand = NoKind
      /\ hand' = k /\ todo' = todo \ {k}
      /\ taken' = childs[receiver[k]][k]
      /\ childs' = [childs EXCEPT ![receiver[k]][k] = {}]
      /\ UNCHANGED <<producerVars, workers, moving, to, brings, connVars, deaths,
                     streamVars, viewerVars, senderVars, raced, left>>

(* ...and given to the new connection's, which takes its place.            *)
Give ==
  /\ hand # NoKind
  /\ childs' = [childs EXCEPT ![to][hand] = taken]
  /\ parent' = [v \in Viewers |->
                  IF v \in taken /\ hand \in Playing(v)
                  THEN [parent[v] EXCEPT ![hand] = to] ELSE parent[v]]
  /\ receiver' = [receiver EXCEPT ![hand] = to]
  /\ hand' = NoKind /\ taken' = {}
  /\ UNCHANGED <<state, conn, offers, workerID, workers, moving, to, brings, todo,
                 connVars, deaths, streamVars, viewerVars, sender, raced, left>>

(* Mutant: the connection before is not stopped.                           *)
SwapGhost ==
  /\ ~Unlocked /\ todo = {} /\ hand = NoKind
  /\ conn' = to /\ offers' = brings
  /\ workers' = {w \in workers : w.id # moving} \cup {[id |-> moving, conn |-> to]}
  /\ moving' = 0 /\ to' = NoConn /\ brings' = {}
  /\ UNCHANGED <<state, workerID, receiver, todo, hand, taken, opened, status,
                 childs, deaths, streamVars, viewerVars, senderVars, raced, left>>

(* The connection before is stopped, with what is left on its Receivers,   *)
(* and the worker goes on with the new one.                                *)
Swap ==
  /\ ~Unlocked /\ todo = {} /\ hand = NoKind
  /\ Stopped(conn)
  /\ conn' = to /\ offers' = brings
  /\ workers' = {w \in workers : w.id # moving} \cup {[id |-> moving, conn |-> to]}
  /\ moving' = 0 /\ to' = NoConn /\ brings' = {}
  /\ UNCHANGED <<state, workerID, receiver, todo, hand, taken, opened, deaths,
                 streamVars, viewerVars, senderVars, raced, left>>

-----------------------------------------------------------------------------
Joins(v) ==
  \/ Dial(v)
  \/ GetMedias(v)
  \/ GetTrack(v)
  \/ AddTrack(v)
  \/ Matched(v)
  \/ Register(v)
  \/ Start(v)

Leaves(v) ==
  \/ CloseNext(v)
  \/ Cascade(v)
  \/ Remove(v)
  \/ LoadPending(v)
  \/ CheckSenders(v)
  \/ CheckTrack(v)
  \/ StopProducer(v)

Works(w) ==
  \/ WorkerReturns(w)
  \/ Reconnect(w)

Moves ==
  \/ Take
  \/ Give
  \/ Swap

Finished ==
  /\ \A v \in Viewers : pc[v] \in {"gone", "failed"}
  /\ UNCHANGED vars

Next ==
  \/ \E v \in Viewers : AddConsumer(v) \/ Joins(v) \/ RemoveConsumer(v) \/ Leaves(v)
  \/ \E c \in Conn : SourceDies(c)
  \/ \E w \in workers : Works(w)
  \/ Moves
  \/ Finished

Spec == Init /\ [][Next]_vars

(* Goroutines that are not blocked go on, and so do the timers of the      *)
(* reconnections.  That a source can be reached again is the assumption of *)
(* Reconnects: tried for ever, GetProducer succeeds at last.  Viewers need *)
(* not come or leave.                                                      *)
Worked == \E w \in workers : Works(w)

FairSpec ==
  /\ Spec
  /\ \A v \in Viewers : WF_vars(Joins(v)) /\ WF_vars(Leaves(v))
  /\ WF_vars(Worked)
  /\ WF_vars(Moves)

-----------------------------------------------------------------------------
(* What the stream owes its viewers.                                       *)

(* The viewer's Sender of this kind hangs on the producer's track, which   *)
(* is of its connection or of the one that is about to take its place, or  *)
(* is on its way from the one to the other, and the producer runs.         *)
Served(v, k) ==
  /\ state = "Start"
  /\ receiver[k] \in {conn, to} \ {NoConn}
  /\ v \in childs[receiver[k]][k] \/ (hand = k /\ v \in taken)

(* A viewer that AddConsumer has accepted is served, video and audio each   *)
(* for itself, with what was added until it leaves, unless its join         *)
(* overlapped a leave that had seen no pending join, the closing of the     *)
(* last child of its track or a reconnection; or a leave looked at a track  *)
(* in the middle of its move; or the source came back without the kind.  In *)
(* these cases it waits for ever: nothing tells it.  The counter pending is *)
(* there to hold stopProducers off.                                         *)
ServedUnlessRaced ==
  \A v \in Viewers : pc[v] = "on" =>
    \A k \in Playing(v) : Served(v, k) \/ <<v, k>> \in raced

(* A connection that is not closed is the producer's, or the one that is    *)
(* about to be: no connection, and no ffmpeg behind it, is left running     *)
(* ("fix ghost exec/ffmpeg", producer.go:236).                              *)
NoGhost ==
  \A c \in Conn : status[c] \in {"up", "down"} => c \in {conn, to}

(* A producer that was started has exactly one worker that will reconnect   *)
(* it, on its connection, whatever has been stopped and started since, and  *)
(* one that was not has none.                                               *)
OneWorker ==
  LET mine == {w \in workers : w.id = workerID}
  IN  IF state = "Start"
      THEN mine = {[id |-> workerID, conn |-> conn]}
      ELSE mine = {}

(* When nobody is there and nobody is coming or leaving, the producer is    *)
(* stopped and its source released, unless a viewer left while its track    *)
(* was being moved: its Sender stays on the new track for ever.             *)
IdleReleased ==
  (\A v \in Viewers : pc[v] \in {"idle", "gone", "failed"})
    => state = "None" \/ left

(* A connection that failed is replaced, or the producer is stopped.        *)
Reconnects ==
  (state = "Start" /\ status[conn] = "down")
    ~> (state = "None" \/ (conn # NoConn /\ status[conn] = "up"))

(* Every AddConsumer and every RemoveConsumer returns, whoever holds which  *)
(* lock.                                                                    *)
CallsReturn ==
  \A v \in Viewers :
    /\ pc[v] = "dial" ~> pc[v] \in {"on", "failed"}
    /\ pc[v] \in {"leave", "cascade", "remove"} ~> pc[v] = "gone"

=============================================================================
