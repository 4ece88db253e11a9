------------------------- MODULE Go2rtcStream_proofs -------------------------
(***************************************************************************)
(* The producer of Go2rtcStream and its viewers, for any viewers and any   *)
(* number of failures.  The inductive invariant counts the pending joins,  *)
(* says to whom the workers and the connections belong, and keeps a viewer *)
(* that is not raced on the producer's track of its kind through every     *)
(* step of the others: a leave that is about to stop the producer has      *)
(* raced everybody.                                                        *)
(***************************************************************************)
EXTENDS Go2rtcStream, FiniteSetTheorems, TLAPS

JoinSteps == {"dial", "medias", "gettrack", "addtrack", "done"}

Joining == {v \in Viewers : pc[v] \in JoinSteps}

Counted == pending = Cardinality(Joining)

(* OneWorker, worker by worker.                                            *)
OwnWorkers ==
  /\ state = "Start" => [id |-> workerID, conn |-> conn] \in workers
  /\ \A w \in workers : w.id \in 1 .. workerID
  /\ \A w \in workers : w.id = workerID => state = "Start" /\ w.conn = conn

(* The one producer and its connections.                                   *)
Owned ==
  /\ state = "None" <=> conn = NoConn
  /\ state \in {"None", "Medias"} <=> Tracks = {}
  /\ moving = 0 => to = NoConn /\ todo = {} /\ hand = NoKind
  /\ moving # 0 => state = "Start" /\ moving = workerID /\ to \in Conn
  /\ hand = NoKind => taken = {}

(* Nothing refers to a connection that was not made, nor to a track of the *)
(* one that a reconnection has made before the track is the producer's.    *)
Known(c, k) == c <= opened /\ (moving # 0 /\ c = to => receiver[k] = to)

Fresh ==
  /\ to <= opened /\ conn <= opened /\ (moving # 0 => conn # to)
  /\ \A k \in Kind : /\ receiver[k] <= opened
                     /\ k \in todo \/ k = hand => receiver[k] \notin {NoConn, to}
  /\ hand \notin todo
  /\ \A v \in Viewers : /\ Known(track[v], at[v])
                        /\ \A k \in Kind : Known(parent[v][k], k)

(* One track of a kind at most: the one that is left over when the source  *)
(* came back without the kind is not joined by another.                    *)
OneTrack ==
  /\ \A k \in Kind :
       IF moving = 0 THEN k \in offers => receiver[k] \in {NoConn, conn}
                     ELSE k \in brings \ (todo \cup {hand}) => receiver[k] \in {NoConn, to}
  /\ moving # 0 => /\ todo \cup {hand} \subseteq brings \cup {NoKind}
                   /\ \A k \in Kind : receiver[k] = to => k \in brings
  /\ \A v \in Viewers : pc[v] = "gettrack" /\ track[v] = conn => at[v] \in offers

(* What the step at which a viewer is says of its own variables.           *)
Local(v) ==
  /\ pc[v] \in {"idle", "failed"} => \A k \in Kind : sender[v][k] = "none"
  /\ pc[v] \in JoinSteps \cup {"register", "start", "on"}
       => \A k \in Kind : sender[v][k] # "closed"
  /\ pc[v] \in JoinSteps \ {"done"}
       => \A k \in {at[v]} \cup After(at[v]) : sender[v][k] = "none"
  /\ pc[v] \in {"register", "start", "on"} => Playing(v) # {}
  /\ pc[v] = "leave" => sender[v][at[v]] = "open"
  /\ pc[v] \in {"leave", "cascade", "remove", "gone"}
       => \E k \in Kind : sender[v][k] = "closed"
  /\ pc[v] \in {"remove", "gone"} => Playing(v) = {}
  /\ pc[v] \in {"load", "check", "senders", "stop"}
       => Playing(v) = {} \/ \A k \in Kind : sender[v][k] # "closed"
  /\ pc[v] \in {"gettrack", "addtrack", "cascade"} => track[v] \in Conn
  /\ pc[v] = "cascade" => sender[v][at[v]] = "closed"
  /\ \A k \in Kind : sender[v][k] = "closed" => Playing(v) \subseteq After(k)
  /\ \A k \in Playing(v) : parent[v][k] \in Conn

Locals == \A v \in Viewers : Local(v)

(* Who holds the stream's lock is looking at the tracks, or about to stop  *)
(* the producer, which has the tracks it has still to look at.             *)
Holding ==
  /\ \A v \in Viewers : lock = v <=> pc[v] \in {"senders", "stop"}
  /\ unchecked # {} <=> \E v \in Viewers : pc[v] = "senders"
  /\ unchecked \subseteq Tracks

(* A viewer that has its track, one that is about to have it, and the      *)
(* leaves that are about to close a track or to stop the producer.         *)
Hangs(v, k) ==
  /\ receiver[k] \in {conn, to} \ {NoConn}
  /\ IF hand = k THEN v \in taken ELSE v \in childs[receiver[k]][k]
  /\ moving # 0 /\ receiver[k] = conn => k \in todo \cup {hand}

Attached ==
  \A v \in Viewers, k \in Kind : sender[v][k] = "open" /\ <<v, k>> \notin raced =>
    Hangs(v, k) /\ (pc[v] = "on" => state = "Start")

Attaching ==
  \A v \in Viewers : pc[v] \in {"gettrack", "addtrack"} /\ <<v, at[v]>> \notin raced =>
    /\ track[v] = conn /\ moving = 0
    /\ pc[v] = "addtrack" => receiver[at[v]] = conn

Stopping ==
  \A u, v \in Viewers, k \in Kind :
    /\ pc[u] \in {"check", "senders", "stop"} /\ v \in Joining => <<v, k>> \in raced
    /\ pc[u] \in {"senders", "stop"} /\ sender[v][k] = "open"
         => <<v, k>> \in raced \/ k \in unchecked

Closing ==
  \A u, v \in Viewers :
    pc[u] = "cascade" /\ v \in childs[track[u]][at[u]] => <<v, at[u]>> \in raced

OwnedInv == TypeOK /\ Owned /\ OwnWorkers /\ NoGhost

IInv ==
  /\ OwnedInv
  /\ Fresh /\ OneTrack /\ Locals /\ Counted /\ Holding
  /\ Attached /\ Attaching /\ Stopping /\ Closing

-----------------------------------------------------------------------------
(* The tuples of variables, and what the constants are, in every leaf.     *)
USE Go2rtcStreamAssumption
USE DEF producerVars, moveVars, connVars, streamVars, viewerVars, senderVars

(* The kinds and their order.                                              *)
LEMMA Firsts ==
  /\ \A K \in SUBSET Kind : FirstOf(K) \in Kind /\ (K # {} => FirstOf(K) \in K)
  /\ \A k \in Kind : After(k) \in SUBSET Kind /\ k \notin After(k)
  /\ \A k \in Kind : \A j \in After(k) : After(j) = {}
BY DEF Kind, FirstOf, After

(* A connection is a number, and not none.                                 *)
LEMMA Connections == Conn \subseteq Nat /\ NoConn \in Nat /\ NoConn \notin Conn
BY DEF Conn, NoConn

(* The connections that are referred to are numbers.                       *)
LEMMA Numbers ==
  ASSUME TypeOK
  PROVE  /\ opened \in Nat /\ conn \in Nat /\ to \in Nat
         /\ \A k \in Kind : receiver[k] \in Nat
         /\ \A v \in Viewers : track[v] \in Nat /\ \A k \in Kind : parent[v][k] \in Nat
<1>1. opened \in Nat /\ conn \in Nat /\ to \in Nat
  BY Connections DEF TypeOK
<1>2. \A k \in Kind : receiver[k] \in Nat
  BY Connections DEF TypeOK
<1>3. \A v \in Viewers : track[v] \in Nat
  BY Connections DEF TypeOK
<1>4. \A v \in Viewers : \A k \in Kind : parent[v][k] \in Nat
  <2>1. \A v \in Viewers : parent[v] \in [Kind -> Conn \cup {NoConn}]
    BY DEF TypeOK
  <2> QED
    BY <2>1, Connections
<1> QED
  BY <1>1, <1>2, <1>3, <1>4

(* A new connection is the next one.                                       *)
LEMMA Opened ==
  ASSUME TypeOK, NEW c \in Conn, Open(c)
  PROVE  /\ opened' \in 0 .. MaxConn /\ opened' = c /\ c = opened + 1
         /\ status' \in [Conn -> {"none", "up", "down", "closed"}]
         /\ \A d \in Conn : d # c => status'[d] = status[d]
BY DEF TypeOK, Open, Conn

(* A connection that is stopped keeps some of its children at most.        *)
LEMMA StoppedOnly ==
  ASSUME TypeOK, NEW c \in Conn, Stopped(c)
  PROVE  /\ status' \in [Conn -> {"none", "up", "down", "closed"}]
         /\ status'[c] = "closed"
         /\ \A d \in Conn : d # c => status'[d] = status[d]
         /\ childs' \in [Conn -> [Kind -> SUBSET Viewers]]
         /\ \A d \in Conn : d # c => childs'[d] = childs[d]
         /\ \A d \in Conn, k \in Kind : childs'[d][k] \subseteq childs[d][k]
<1>1. status' = [status EXCEPT ![c] = "closed"] /\ status \in [Conn -> {"none", "up", "down", "closed"}]
  BY DEF Stopped, TypeOK
<1>2. childs \in [Conn -> [Kind -> SUBSET Viewers]]
  BY DEF TypeOK
<1>3. PICK rest \in [Kind -> SUBSET Viewers] :
         /\ \A k \in Kind : rest[k] \in Skipped(childs[c][k])
         /\ childs' = [childs EXCEPT ![c] = rest]
  BY DEF Stopped
<1>4. \A k \in Kind : rest[k] \subseteq childs[c][k]
  BY <1>3 DEF Skipped
<1> QED
  BY <1>1, <1>2, <1>3, <1>4

(* All join one after the other.                                           *)
LEMMA JoiningFinite == IsFiniteSet(Joining)
BY FS_Subset DEF Joining

(* A step of one viewer leaves the others where they are.                  *)
Alone(v) ==
  \A u \in Viewers \ {v} :
    /\ pc'[u] = pc[u] /\ at'[u] = at[u] /\ track'[u] = track[u]
    /\ sender'[u] = sender[u] /\ parent'[u] = parent[u]

(* A viewer goes on to its next step.                                      *)
LEMMA StepAlone ==
  ASSUME TypeOK, NEW v \in Viewers, NEW s, Step(v, s), UNCHANGED <<at, track, sender, parent>>
  PROVE  /\ Alone(v) /\ pc'[v] = s
         /\ s \in Steps => pc' \in [Viewers -> Steps]
BY DEF TypeOK, Step, Alone

(* A viewer goes on to the next kind, or to the end of the loop.           *)
LEMMA TurnAlone ==
  ASSUME TypeOK, NEW v \in Viewers, NEW K \in SUBSET Kind, NEW next, NEW end,
         Turn(v, K, next, end)
  PROVE  /\ pc'[v] = IF K = {} THEN end ELSE next
         /\ at'[v] = FirstOf(K) /\ track'[v] = NoConn
         /\ \A u \in Viewers \ {v} : pc'[u] = pc[u] /\ at'[u] = at[u] /\ track'[u] = track[u]
         /\ UNCHANGED <<sender, parent>> => Alone(v)
         /\ next \in Steps /\ end \in Steps => pc' \in [Viewers -> Steps]
         /\ at' \in [Viewers -> Kind] /\ track' \in [Viewers -> Conn \cup {NoConn}]
<1>1. FirstOf(K) \in Kind
  BY Firsts
<1> QED
  BY <1>1 DEF TypeOK, Turn, Step, Alone

(* Where nothing of the producer and its connections changes.              *)
LEMMA ProducerKept ==
  ASSUME Owned, OwnWorkers, NoGhost,
         UNCHANGED <<producerVars, workers, moving, to, todo, hand, taken, connVars>>
  PROVE  Owned' /\ OwnWorkers' /\ NoGhost'
BY DEF Owned, OwnWorkers, NoGhost, Tracks

(* A viewer refers to what it referred to, or to the producer's connection. *)
LEMMA FreshKept ==
  ASSUME Fresh, UNCHANGED <<receiver, conn, opened, moving, to, todo, hand>>,
         \A x \in Viewers :
           \/ track'[x] = track[x] /\ at'[x] = at[x]
           \/ track'[x] = NoConn
           \/ track'[x] = conn /\ moving = 0
           \/ track'[x] = parent[x][at'[x]] /\ at'[x] \in Kind,
         \A x \in Viewers, k \in Kind :
           \/ parent'[x][k] \in {parent[x][k], NoConn}
           \/ parent'[x][k] = track[x] /\ k = at[x],
         TypeOK, Owned
  PROVE  Fresh'
<1>1. \A k \in Kind : Known(NoConn, k)
  BY Numbers, Connections DEF Known, Owned, NoConn
<1>2. \A c, k : Known(c, k)' <=> Known(c, k)
  BY DEF Known
<1>3. moving = 0 => \A k \in Kind : Known(conn, k)
  BY DEF Known, Fresh
<1>4. \A x \in Viewers : at[x] \in Kind
  BY DEF TypeOK
<1>5. ASSUME NEW x \in Viewers
      PROVE  Known(track[x], at[x]) /\ \A k \in Kind : Known(parent[x][k], k)
  BY DEF Fresh
<1>6. ASSUME NEW x \in Viewers
      PROVE  Known(track'[x], at'[x])
  BY <1>1, <1>3, <1>4, <1>5, Numbers DEF Known, Owned, Fresh, NoConn, Conn
<1>7. ASSUME NEW x \in Viewers, NEW k \in Kind
      PROVE  Known(parent'[x][k], k)
  BY <1>1, <1>5
<1> QED
  BY <1>2, <1>6, <1>7 DEF Fresh, Known

(* Nobody gets as far as GetTrack.                                         *)
LEMMA OneTrackKept ==
  ASSUME OneTrack, UNCHANGED <<receiver, conn, offers, brings, moving, to, todo, hand>>,
         \A x \in Viewers : pc'[x] = "gettrack" =>
           pc[x] = "gettrack" /\ track'[x] = track[x] /\ at'[x] = at[x]
  PROVE  OneTrack'
BY DEF OneTrack

(* The others' own variables stay as they are.                             *)
LEMMA LocalsKept ==
  ASSUME Locals, NEW v \in Viewers, Alone(v), Local(v)'
  PROVE  Locals'
BY DEF Locals, Local, Alone, Playing

(* Nobody begins or ends to be pending.                                    *)
LEMMA CountedKept ==
  ASSUME Counted, Joining' = Joining, UNCHANGED pending
  PROVE  Counted'
BY DEF Counted

(* The viewer stays pending, or not.                                       *)
LEMMA JoiningKept ==
  ASSUME NEW v \in Viewers, Alone(v), pc[v] \in JoinSteps <=> pc'[v] \in JoinSteps
  PROVE  Joining' = Joining
BY DEF Joining, Alone, JoinSteps

(* The stream's lock stays with whom it is.                                *)
LEMMA HoldingKept ==
  ASSUME Holding, NEW v \in Viewers, Alone(v), UNCHANGED <<lock, unchecked, receiver>>,
         pc[v] \notin {"senders", "stop"}, pc'[v] \notin {"senders", "stop"}
  PROVE  Holding'
BY DEF Holding, Alone, Tracks

(* A Sender that hangs on its track goes on to, where only more is raced.  *)
LEMMA AttachedKept ==
  ASSUME Attached, UNCHANGED <<receiver, conn, moving, to, todo, hand, taken>>,
         \A c \in Conn, k \in Kind, x \in Viewers :
           x \in childs[c][k] => x \in childs'[c][k] \/ <<x, k>> \in raced' \/ sender'[x][k] # "open",
         \A x \in Viewers, k \in Kind : sender'[x][k] = "open" => sender[x][k] = "open",
         raced \subseteq raced',
         state = "Start" => state' = "Start",
         \A x \in Viewers : pc'[x] = "on" => pc[x] = "on",
         TypeOK
  PROVE  Attached'
<1>1. \A k \in Kind : receiver[k] # NoConn => receiver[k] \in Conn
  BY DEF TypeOK
<1> SUFFICES ASSUME NEW x \in Viewers, NEW k \in Kind, sender'[x][k] = "open", <<x, k>> \notin raced'
             PROVE  Hangs(x, k)' /\ (pc'[x] = "on" => state' = "Start")
  BY DEF Attached
<1>2. Hangs(x, k) /\ (pc[x] = "on" => state = "Start")
  BY DEF Attached
<1> QED
  BY <1>1, <1>2 DEF Hangs

(* Nobody comes nearer to a track.                                         *)
LEMMA AttachingKept ==
  ASSUME Attaching, UNCHANGED <<conn, moving, receiver>>, raced \subseteq raced',
         \A x \in Viewers : pc'[x] \in {"gettrack", "addtrack"} =>
           pc'[x] = pc[x] /\ track'[x] = track[x] /\ at'[x] = at[x]
  PROVE  Attaching'
BY DEF Attaching

(* Nobody comes nearer to stopping the producer.                           *)
LEMMA StoppingKept ==
  ASSUME Stopping, raced \subseteq raced', unchecked' = unchecked, Joining' \subseteq Joining,
         \A x \in Viewers : pc'[x] \in {"check", "senders", "stop"} => pc'[x] = pc[x],
         \A x \in Viewers, k \in Kind : sender'[x][k] = "open" => sender[x][k] = "open"
  PROVE  Stopping'
BY DEF Stopping, Joining

(* Nobody is about to close a track who was not.                           *)
LEMMA ClosingKept ==
  ASSUME Closing, raced \subseteq raced',
         \A x \in Viewers : pc'[x] = "cascade" =>
           pc[x] = "cascade" /\ track'[x] = track[x] /\ at'[x] = at[x] /\ track[x] \in Conn /\ at[x] \in Kind,
         \A c \in Conn, k \in Kind : childs'[c][k] \subseteq childs[c][k]
  PROVE  Closing'
BY DEF Closing

(* What stopProducers goes back to.                                        *)
LEMMA ReturnedWhere ==
  ASSUME TypeOK, NEW v \in Viewers
  PROVE  /\ Returned(v) \in {"gone", "register", "failed"}
         /\ Returned(v) = "gone" => \E k \in Kind : sender[v][k] = "closed"
         /\ Returned(v) # "gone" => \A k \in Kind : sender[v][k] # "closed"
         /\ Returned(v) = "register" => Playing(v) # {}
         /\ Returned(v) = "failed" => \A k \in Kind : sender[v][k] = "none"
<1>1. sender[v] \in [Kind -> {"none", "open", "closed"}]
  BY DEF TypeOK
<1> QED
  BY <1>1 DEF Returned, Playing

(* The viewer after stopProducers.                                         *)
LEMMA ReturnedLocal ==
  ASSUME TypeOK, Locals, NEW v \in Viewers, Step(v, Returned(v)), UNCHANGED <<at, track, sender, parent>>,
         pc[v] \in {"done", "load", "check", "senders", "stop"}
  PROVE  Alone(v) /\ pc'[v] = Returned(v) /\ pc' \in [Viewers -> Steps] /\ Local(v)'
<1>1. Alone(v) /\ pc'[v] = Returned(v) /\ pc' \in [Viewers -> Steps]
  BY StepAlone, ReturnedWhere DEF Steps
<1>2. Local(v)
  BY DEF Locals
<1>3. Playing(v)' = Playing(v)
  BY DEF Playing
<1> QED
  BY <1>1, <1>2, <1>3, ReturnedWhere DEF Local, JoinSteps

(* A step of a viewer that does nothing to the producer.                   *)
LEMMA ProducerQuiet ==
  ASSUME IInv, TypeOK', NEW v \in Viewers, Alone(v), Local(v)',
         UNCHANGED <<producerVars, workers, moveVars, connVars>>,
         \/ track'[v] = track[v] /\ at'[v] = at[v]
         \/ track'[v] = NoConn
         \/ track'[v] = parent[v][at'[v]],
         \A k \in Kind : \/ parent'[v][k] \in {parent[v][k], NoConn}
                         \/ parent'[v][k] = track[v] /\ k = at[v],
         pc'[v] # "gettrack"
  PROVE  OwnedInv' /\ Fresh' /\ OneTrack' /\ Locals'
<1>1. OwnedInv /\ TypeOK /\ Owned /\ OwnWorkers /\ NoGhost /\ Fresh /\ OneTrack /\ Locals
  BY DEF IInv, OwnedInv
<1>2. OwnedInv'
  BY <1>1, ProducerKept DEF OwnedInv
<1>3. at'[v] \in Kind
  BY DEF TypeOK
<1>4. Fresh'
  BY <1>1, <1>3, FreshKept DEF Alone
<1>5. OneTrack'
  BY <1>1, OneTrackKept DEF Alone
<1> QED
  BY <1>1, <1>2, <1>4, <1>5, LocalsKept

(* A step after which the viewer neither has nor takes anybody's track.    *)
LEMMA TracksQuiet ==
  ASSUME IInv, NEW v \in Viewers, Alone(v), raced \subseteq raced',
         UNCHANGED <<state, conn, receiver, moving, to, todo, hand, taken, childs, unchecked>>,
         \A k \in Kind : sender'[v][k] = "open" => sender[v][k] = "open",
         pc'[v] \notin {"gettrack", "addtrack", "cascade", "check", "senders", "stop", "on"},
         Joining' \subseteq Joining
  PROVE  Attached' /\ Attaching' /\ Stopping' /\ Closing'
<1>1. TypeOK /\ Attached /\ Attaching /\ Stopping /\ Closing /\ Locals
  BY DEF IInv, OwnedInv
<1>2. Attached'
  BY <1>1, AttachedKept DEF Alone
<1>3. Attaching'
  BY <1>1, AttachingKept DEF Alone
<1>4. Stopping'
  BY <1>1, StoppingKept DEF Alone
<1>5. \A x \in Viewers : at[x] \in Kind /\ (pc[x] = "cascade" => track[x] \in Conn)
  BY <1>1 DEF TypeOK, Locals, Local
<1>6. Closing'
  BY <1>1, <1>5, ClosingKept DEF Alone
<1> QED
  BY <1>2, <1>3, <1>4, <1>6

(* One more is pending, and raced if a leave is past LoadPending.          *)
LEMMA AddConsumerStep ==
  ASSUME IInv, NEW v \in Viewers, AddConsumer(v)
  PROVE  IInv'
<1>1. TypeOK /\ Locals /\ Counted /\ Holding /\ Attached /\ Attaching /\ Stopping /\ Closing
  BY DEF IInv, OwnedInv
<1>2. /\ pc[v] = "idle" /\ pending' = pending + 1 /\ Turn(v, Kind, "dial", "done")
      /\ UNCHANGED <<producerVars, workers, moveVars, connVars, childs, deaths, lock,
                     unchecked, consumers, sender, parent, left>>
  BY DEF AddConsumer
<1>3. Kind \in SUBSET Kind /\ Kind # {} /\ "dial" \in Steps /\ "done" \in Steps
  BY DEF Kind, Steps
<1>4. /\ Alone(v) /\ pc'[v] = "dial" /\ track'[v] = NoConn
      /\ pc' \in [Viewers -> Steps] /\ at' \in [Viewers -> Kind]
      /\ track' \in [Viewers -> Conn \cup {NoConn}]
  BY <1>1, <1>2, <1>3, TurnAlone
<1>5. /\ raced \subseteq raced' /\ raced' \in SUBSET (Viewers \X Kind)
      /\ \A u \in Viewers, k \in Kind : pc[u] \in {"check", "senders", "stop"} => <<v, k>> \in raced'
  BY <1>1 DEF AddConsumer, Flag, TypeOK
<1>6. TypeOK'
  BY <1>1, <1>2, <1>4, <1>5 DEF TypeOK
<1>7. Local(v)'
  <2>1. at'[v] \in Kind /\ After(at'[v]) \in SUBSET Kind
    BY <1>4, Firsts
  <2>2. Local(v) /\ \A k \in Kind : sender'[v][k] = "none"
    BY <1>1, <1>2 DEF Locals, Local
  <2> QED
    BY <1>4, <2>1, <2>2 DEF Local, Playing, JoinSteps
<1>8. OwnedInv' /\ Fresh' /\ OneTrack' /\ Locals'
  BY <1>2, <1>4, <1>6, <1>7, ProducerQuiet
<1>9. Counted'
  <2>1. Joining' = Joining \cup {v} /\ v \notin Joining
    BY <1>2, <1>4 DEF Joining, JoinSteps, Alone
  <2> QED
    BY <1>1, <1>2, <2>1, JoiningFinite, FS_AddElement DEF Counted
<1>10. Holding'
  BY <1>1, <1>2, <1>4, HoldingKept
<1>11. Attached'
  BY <1>1, <1>2, <1>4, <1>5, AttachedKept DEF Alone
<1>12. Attaching'
  BY <1>1, <1>2, <1>4, <1>5, AttachingKept DEF Alone
<1>13. Stopping'
  BY <1>1, <1>2, <1>4, <1>5 DEF Stopping, Joining, Alone
<1>14. Closing'
  BY <1>1, <1>2, <1>4, <1>5 DEF Closing, Alone
<1> QED
  BY <1>8, <1>9, <1>10, <1>11, <1>12, <1>13, <1>14 DEF IInv

(* A join that has nothing more to do for this kind, or fails in it.       *)
LEMMA Skips ==
  ASSUME IInv, NEW v \in Viewers, NEW K \in SUBSET After(at[v]), Turn(v, K, "dial", "done"),
         pc[v] \in {"dial", "medias", "gettrack"},
         UNCHANGED <<producerVars, workers, moveVars, connVars, childs, deaths,
                     streamVars, senderVars, raced, left>>
  PROVE  IInv'
<1>1. TypeOK /\ Locals /\ Counted /\ Holding
  BY DEF IInv, OwnedInv
<1>2. K \in SUBSET Kind /\ "dial" \in Steps /\ "done" \in Steps /\ at[v] \in Kind
  BY <1>1, Firsts DEF Steps, TypeOK
<1>3. /\ Alone(v) /\ pc'[v] = (IF K = {} THEN "done" ELSE "dial") /\ track'[v] = NoConn
      /\ at'[v] = FirstOf(K)
      /\ pc' \in [Viewers -> Steps] /\ at' \in [Viewers -> Kind]
      /\ track' \in [Viewers -> Conn \cup {NoConn}]
  BY <1>1, <1>2, TurnAlone
<1>4. TypeOK'
  BY <1>1, <1>3 DEF TypeOK
<1>5. Local(v)'
  <2>1. Local(v) /\ Playing(v)' = Playing(v)
    BY <1>1 DEF Locals, Playing
  <2>2. K # {} => at'[v] \in After(at[v]) /\ After(at'[v]) = {}
    BY <1>2, <1>3, Firsts
  <2>3. K # {} => \A k \in {at'[v]} \cup After(at'[v]) : sender'[v][k] = "none"
    BY <2>1, <2>2 DEF Local, JoinSteps
  <2> QED
    BY <2>1, <2>3, <1>3 DEF Local, JoinSteps
<1>6. OwnedInv' /\ Fresh' /\ OneTrack' /\ Locals'
  BY <1>3, <1>4, <1>5, ProducerQuiet
<1>7. Joining' = Joining
  BY <1>3, JoiningKept DEF JoinSteps
<1>8. Counted' /\ Holding'
  BY <1>1, <1>3, <1>7, CountedKept, HoldingKept
<1>9. Attached' /\ Attaching' /\ Stopping' /\ Closing'
  BY <1>3, <1>7, TracksQuiet
<1> QED
  BY <1>6, <1>8, <1>9 DEF IInv

(* The first viewer makes the first connection, to which nobody refers.    *)
LEMMA DialStep ==
  ASSUME IInv, NEW v \in Viewers, Dial(v)
  PROVE  IInv'
<1>1. /\ TypeOK /\ Owned /\ OwnWorkers /\ NoGhost /\ Fresh /\ OneTrack /\ Locals /\ Counted
      /\ Holding /\ Attached /\ Attaching /\ Stopping /\ Closing
  BY DEF IInv, OwnedInv
<1>2. /\ pc[v] = "dial" /\ moving = 0
      /\ UNCHANGED <<receiver, workerID, workers, moveVars, childs, deaths,
                     streamVars, senderVars, raced, left>>
  BY DEF Dial, Unlocked
<1>3. CASE Turn(v, {}, "dial", "done") /\ UNCHANGED <<connVars, conn, offers, state>>
  BY <1>2, <1>3, Skips
<1>4. CASE Step(v, "medias") /\ UNCHANGED <<at, track>>
  <2>1. Alone(v) /\ pc'[v] = "medias" /\ pc' \in [Viewers -> Steps]
    BY <1>1, <1>2, <1>4, StepAlone DEF Steps
  <2>2. /\ opened' \in 0 .. MaxConn /\ opened' \in Nat /\ opened <= opened'
        /\ status' \in [Conn -> {"none", "up", "down", "closed"}]
        /\ state' \in {"None", "Medias", "Tracks", "Start"} /\ state' # "None"
        /\ conn' \in Conn /\ offers' \in SUBSET Kind /\ conn' <= opened'
        /\ \/ UNCHANGED <<state, conn, offers, opened, status>>
           \/ /\ state = "None" /\ state' = "Medias" /\ opened < opened'
              /\ conn' = opened' /\ \A d \in Conn : d # conn' => status'[d] = status[d]
    <3>1. CASE UNCHANGED <<connVars, conn, offers, state>> /\ state # "None"
      BY <1>1, <3>1, Numbers DEF TypeOK, Owned, Fresh
    <3>2. CASE ~(UNCHANGED <<connVars, conn, offers, state>> /\ state # "None")
      <4>1. PICK c \in Conn : Open(c) /\ conn' = c /\ state = "None" /\ state' = "Medias" /\ offers' \in SUBSET Kind
        BY <1>4, <3>2, <1>2, <2>1 DEF Dial, Turn, Step
      <4> QED
        BY <4>1, <1>1, Opened, Numbers
    <3> QED
      BY <3>1, <3>2
  <2>3. TypeOK'
    BY <1>1, <1>2, <1>4, <2>1, <2>2 DEF TypeOK
  <2>4. Tracks' = Tracks
    BY <1>2 DEF Tracks
  <2>5. Owned'
    BY <1>1, <1>2, <2>2, <2>4, Connections DEF Owned
  <2>6. OwnWorkers'
    BY <1>1, <1>2, <2>2 DEF OwnWorkers
  <2>7. NoGhost'
    BY <1>1, <1>2, <2>2, Connections DEF NoGhost, Owned
  <2>8. Fresh'
    BY <1>1, <1>2, <1>4, <2>2, Numbers DEF Fresh, Known, Owned
  <2>9. OneTrack'
    BY <1>1, <1>2, <1>4, <2>1, <2>2, Numbers DEF OneTrack, Fresh, Known, Owned, Alone, Tracks
  <2>10. Local(v)'
    BY <1>1, <1>2, <1>4, <2>1 DEF Locals, Local, Playing, JoinSteps
  <2>11. Locals' /\ Joining' = Joining
    BY <1>1, <1>2, <2>1, <2>10, LocalsKept, JoiningKept DEF JoinSteps
  <2>12. Counted' /\ Holding'
    BY <1>1, <1>2, <2>1, <2>11, CountedKept, HoldingKept
  <2>13. Attached'
    <3>1. state = "None" => \A x \in Viewers, k \in Kind : sender[x][k] = "open" => <<x, k>> \in raced
      BY <1>1, <1>2 DEF Attached, Hangs, Owned
    <3>2. CASE state = "None"
      BY <3>1, <3>2, <1>2 DEF Attached
    <3>3. CASE state # "None"
      BY <3>3, <1>1, <1>2, <2>1, <2>2, AttachedKept DEF Alone
    <3> QED
      BY <3>2, <3>3
  <2>14. Attaching'
    <3>1. CASE state = "None"
      <4>1. \A x \in Viewers : pc[x] \in {"gettrack", "addtrack"} => track[x] \in Conn
        BY <1>1 DEF Locals, Local
      <4> QED
        BY <3>1, <4>1, <1>1, <1>2, <1>4, <2>1, Connections DEF Attaching, Alone, Owned
    <3>2. CASE state # "None"
      BY <3>2, <1>1, <1>2, <1>4, <2>1, <2>2, AttachingKept DEF Alone
    <3> QED
      BY <3>1, <3>2
  <2>15. Stopping'
    BY <1>1, <1>2, <2>1, <2>11, StoppingKept DEF Alone
  <2>16. Closing'
    BY <1>1, <1>2, <1>4, <2>1 DEF Closing, Alone
  <2> QED
    BY <2>3, <2>5, <2>6, <2>7, <2>8, <2>9, <2>11, <2>12, <2>13, <2>14, <2>15, <2>16 DEF IInv, OwnedInv
<1> QED
  BY <1>3, <1>4 DEF Dial

(* A connection that fails stays the producer's.                           *)
LEMMA SourceDiesStep ==
  ASSUME IInv, NEW c \in Conn, SourceDies(c)
  PROVE  IInv'
<1>1. /\ TypeOK /\ Owned /\ OwnWorkers /\ NoGhost /\ Fresh /\ OneTrack /\ Locals /\ Counted
      /\ Holding /\ Attached /\ Attaching /\ Stopping /\ Closing
  BY DEF IInv, OwnedInv
<1>2. /\ status[c] = "up" /\ deaths < MaxDeaths /\ status' = [status EXCEPT ![c] = "down"]
      /\ deaths' = deaths + 1
      /\ UNCHANGED <<producerVars, workers, moveVars, opened, childs, streamVars,
                     viewerVars, senderVars, raced, left>>
  BY DEF SourceDies
<1>3. TypeOK'
  BY <1>1, <1>2 DEF TypeOK
<1>4. Owned' /\ OwnWorkers' /\ NoGhost'
  BY <1>1, <1>2 DEF TypeOK, Owned, Tracks, OwnWorkers, NoGhost
<1>5. Fresh' /\ OneTrack' /\ Locals'
  BY <1>1, <1>2 DEF Fresh, Known, OneTrack, Locals, Local, Playing
<1>6. Counted' /\ Holding'
  BY <1>1, <1>2 DEF Counted, Joining, Holding, Tracks
<1>7. Attached' /\ Attaching' /\ Stopping' /\ Closing'
  BY <1>1, <1>2 DEF Attached, Hangs, Attaching, Stopping, Joining, Closing
<1> QED
  BY <1>3, <1>4, <1>5, <1>6, <1>7 DEF IInv, OwnedInv

(* The media that a viewer finds is of the producer's connection.          *)
LEMMA GetMediasStep ==
  ASSUME IInv, NEW v \in Viewers, GetMedias(v)
  PROVE  IInv'
<1>1. /\ TypeOK /\ Owned /\ OwnWorkers /\ NoGhost /\ Fresh /\ OneTrack /\ Locals /\ Counted
      /\ Holding /\ Attached /\ Attaching /\ Stopping /\ Closing
  BY DEF IInv, OwnedInv
<1>2. /\ pc[v] = "medias" /\ moving = 0
      /\ UNCHANGED <<producerVars, workers, moveVars, connVars, childs, deaths,
                     streamVars, senderVars, raced, left>>
  BY DEF GetMedias, Unlocked
<1>3. CASE Turn(v, After(at[v]), "dial", "done")
  BY <1>2, <1>3, Skips
<1>4. CASE /\ conn # NoConn /\ at[v] \in offers /\ track' = [track EXCEPT ![v] = conn]
           /\ Step(v, "gettrack") /\ UNCHANGED at
  <2>1. /\ Alone(v) /\ pc'[v] = "gettrack" /\ pc' \in [Viewers -> Steps]
        /\ track'[v] = conn /\ at'[v] = at[v] /\ conn \in Conn
        /\ track' \in [Viewers -> Conn \cup {NoConn}]
    BY <1>1, <1>2, <1>4 DEF Step, Steps, Alone, TypeOK
  <2>2. TypeOK'
    BY <1>1, <1>2, <1>4, <2>1 DEF TypeOK
  <2>3. Owned' /\ OwnWorkers' /\ NoGhost'
    BY <1>1, <1>2, ProducerKept
  <2>4. Fresh'
    BY <1>1, <1>2, <2>1, FreshKept DEF Alone
  <2>5. OneTrack'
    BY <1>1, <1>2, <1>4, <2>1 DEF OneTrack, Alone
  <2>6. Local(v)'
    BY <1>1, <1>2, <2>1 DEF Locals, Local, Playing, JoinSteps
  <2>7. Locals' /\ Joining' = Joining
    BY <1>1, <1>2, <2>1, <2>6, LocalsKept, JoiningKept DEF JoinSteps
  <2>8. Counted' /\ Holding'
    BY <1>1, <1>2, <2>1, <2>7, CountedKept, HoldingKept
  <2>9. Attached'
    BY <1>1, <1>2, <2>1, AttachedKept DEF Alone
  <2>10. Attaching'
    BY <1>1, <1>2, <2>1 DEF Attaching, Alone
  <2>11. Stopping'
    BY <1>1, <1>2, <2>1, <2>7, StoppingKept DEF Alone
  <2>12. Closing'
    BY <1>1, <1>2, <2>1 DEF Closing, Alone
  <2> QED
    BY <2>2, <2>3, <2>4, <2>5, <2>7, <2>8, <2>9, <2>10, <2>11, <2>12 DEF IInv, OwnedInv
<1> QED
  BY <1>3, <1>4 DEF GetMedias

(* A new track of the producer's is a track of its connection: what was    *)
(* there before is found again, and another cannot be made beside it.      *)
LEMMA GetTrackStep ==
  ASSUME IInv, NEW v \in Viewers, GetTrack(v)
  PROVE  IInv'
<1>1. /\ TypeOK /\ Owned /\ OwnWorkers /\ NoGhost /\ Fresh /\ OneTrack /\ Locals /\ Counted
      /\ Holding /\ Attached /\ Attaching /\ Stopping /\ Closing
  BY DEF IInv, OwnedInv
<1>2. /\ pc[v] = "gettrack" /\ moving = 0 /\ at[v] \in Kind /\ track[v] \in Conn
      /\ UNCHANGED <<conn, offers, workerID, workers, moveVars, connVars, childs, deaths,
                     streamVars, senderVars, raced, left>>
  BY <1>1 DEF GetTrack, Unlocked, TypeOK, Locals, Local
<1>3. CASE Turn(v, {}, "dial", "done") /\ UNCHANGED <<receiver, state>>
  BY <1>2, <1>3, Skips
<1>4. CASE /\ state # "None" /\ track[v] \in {receiver[at[v]], conn}
           /\ receiver' = [receiver EXCEPT ![at[v]] = track[v]]
           /\ state' = (IF track[v] # receiver[at[v]] /\ state = "Medias" THEN "Tracks" ELSE state)
           /\ Step(v, "addtrack") /\ UNCHANGED <<at, track>>
  <2>1. Alone(v) /\ pc'[v] = "addtrack" /\ pc' \in [Viewers -> Steps]
    BY <1>1, <1>2, <1>4, StepAlone DEF Steps
  <2>2. /\ receiver' \in [Kind -> Conn \cup {NoConn}] /\ receiver'[at[v]] = track[v]
        /\ \A k \in Kind : k # at[v] => receiver'[k] = receiver[k]
    BY <1>1, <1>2, <1>4 DEF TypeOK
  <2>3. receiver[at[v]] \in {NoConn, track[v]}
    BY <1>1, <1>2, <1>4 DEF OneTrack
  <2>4. TypeOK'
    BY <1>1, <1>2, <1>4, <2>1, <2>2 DEF TypeOK
  <2>5. Tracks' = Tracks \cup {at[v]}
    BY <1>2, <2>2, <2>3, Connections DEF Tracks
  <2>6. Owned'
    <3>1. state' \notin {"None", "Medias"}
      BY <1>1, <1>2, <1>4, <2>3, Connections DEF TypeOK, Owned, Tracks
    <3> QED
      BY <1>1, <1>2, <1>4, <2>5, <3>1 DEF Owned
  <2>7. OwnWorkers' /\ NoGhost'
    BY <1>1, <1>2, <1>4 DEF OwnWorkers, NoGhost
  <2>8. Fresh'
    BY <1>1, <1>2, <1>4, <2>2, Numbers DEF Fresh, Known, Owned
  <2>9. OneTrack'
    BY <1>1, <1>2, <1>4, <2>1, <2>2, <2>3 DEF OneTrack, Alone
  <2>10. Local(v)'
    BY <1>1, <1>2, <1>4, <2>1 DEF Locals, Local, Playing, JoinSteps
  <2>11. Locals' /\ Joining' = Joining
    BY <1>1, <1>2, <2>1, <2>10, LocalsKept, JoiningKept DEF JoinSteps
  <2>12. Counted' /\ Holding'
    BY <1>1, <1>2, <2>1, <2>5, <2>11, CountedKept DEF Holding, Alone
  <2>13. Attached'
    <3> SUFFICES ASSUME NEW x \in Viewers, NEW k \in Kind, sender'[x][k] = "open", <<x, k>> \notin raced'
                 PROVE  Hangs(x, k)' /\ (pc'[x] = "on" => state' = "Start")
      BY DEF Attached
    <3>1. Hangs(x, k) /\ (pc[x] = "on" => state = "Start")
      BY <1>1, <1>2 DEF Attached
    <3>2. receiver'[k] = receiver[k]
      BY <2>2, <2>3, <3>1, Connections DEF Hangs
    <3> QED
      BY <1>2, <1>4, <2>1, <3>1, <3>2 DEF Hangs, Alone
  <2>14. Attaching'
    <3>1. \A x \in Viewers : pc[x] \in {"gettrack", "addtrack"} => track[x] \in Conn
      BY <1>1 DEF Locals, Local
    <3> QED
      BY <1>1, <1>2, <1>4, <2>1, <2>2, <2>3, <3>1, Connections DEF Attaching, Alone
  <2>15. Stopping'
    BY <1>1, <1>2, <2>1, <2>11, StoppingKept DEF Alone
  <2>16. Closing'
    BY <1>1, <1>2, <1>4, <2>1 DEF Closing, Alone
  <2> QED
    BY <2>4, <2>6, <2>7, <2>8, <2>9, <2>11, <2>12, <2>13, <2>14, <2>15, <2>16 DEF IInv, OwnedInv
<1> QED
  BY <1>3, <1>4 DEF GetTrack

(* A viewer that is not raced hangs on the producer's track from now on.   *)
LEMMA AddTrackStep ==
  ASSUME IInv, NEW v \in Viewers, AddTrack(v)
  PROVE  IInv'
<1> DEFINE c == track[v]
           k == at[v]
<1>1. /\ TypeOK /\ Owned /\ OwnWorkers /\ NoGhost /\ Fresh /\ OneTrack /\ Locals /\ Counted
      /\ Holding /\ Attached /\ Attaching /\ Stopping /\ Closing
  BY DEF IInv, OwnedInv
<1>2. /\ pc[v] = "addtrack" /\ c \in Conn /\ k \in Kind
      /\ childs' = [childs EXCEPT ![c][k] = @ \cup {v}]
      /\ parent' = [parent EXCEPT ![v][k] = c]
      /\ sender' = [sender EXCEPT ![v][k] = "open"]
      /\ Turn(v, After(k), "dial", "done")
      /\ UNCHANGED <<producerVars, workers, moveVars, connVars, deaths, streamVars, left>>
  BY <1>1 DEF AddTrack, TypeOK, Locals, Local
<1>3. /\ raced \subseteq raced' /\ raced' \in SUBSET (Viewers \X Kind)
      /\ \A u \in Viewers : pc[u] = "cascade" /\ track[u] = c /\ at[u] = k => <<v, k>> \in raced'
  BY <1>1, <1>2 DEF AddTrack, Flag, TypeOK
<1>4. /\ pc'[v] = (IF After(k) = {} THEN "done" ELSE "dial") /\ track'[v] = NoConn
      /\ at'[v] = FirstOf(After(k))
      /\ \A u \in Viewers \ {v} : pc'[u] = pc[u] /\ at'[u] = at[u] /\ track'[u] = track[u]
      /\ pc' \in [Viewers -> Steps] /\ at' \in [Viewers -> Kind]
      /\ track' \in [Viewers -> Conn \cup {NoConn}]
  <2>1. After(k) \in SUBSET Kind /\ "dial" \in Steps /\ "done" \in Steps
    BY <1>2, Firsts DEF Steps
  <2> HIDE DEF k
  <2> QED
    BY <1>1, <1>2, <2>1, TurnAlone, SMTT(30)
<1>5. /\ sender' \in [Viewers -> [Kind -> {"none", "open", "closed"}]]
      /\ parent' \in [Viewers -> [Kind -> Conn \cup {NoConn}]]
      /\ sender'[v][k] = "open" /\ parent'[v][k] = c
      /\ \A j \in Kind : j # k => sender'[v][j] = sender[v][j] /\ parent'[v][j] = parent[v][j]
      /\ \A u \in Viewers \ {v} : sender'[u] = sender[u] /\ parent'[u] = parent[u]
  BY <1>1, <1>2 DEF TypeOK
<1>6. /\ childs' \in [Conn -> [Kind -> SUBSET Viewers]]
      /\ childs'[c][k] = childs[c][k] \cup {v}
      /\ \A d \in Conn, j \in Kind : <<d, j>> # <<c, k>> => childs'[d][j] = childs[d][j]
  BY <1>1, <1>2 DEF TypeOK
<1>7. Alone(v)
  BY <1>4, <1>5 DEF Alone
<1>8. TypeOK'
  BY <1>1, <1>2, <1>3, <1>4, <1>5, <1>6 DEF TypeOK
<1>9. Local(v)'
  <2>1. Local(v)
    BY <1>1 DEF Locals
  <2>2. /\ \A j \in Kind : sender'[v][j] # "closed"
        /\ \A j \in Kind : sender'[v][j] = "open" => parent'[v][j] \in Conn
    BY <1>2, <1>5, <2>1 DEF Local, JoinSteps, Playing
  <2>3. After(k) # {} => at'[v] \in After(k) /\ After(at'[v]) = {} /\ k \notin After(k)
    BY <1>2, <1>4, Firsts
  <2>4. After(k) # {} => \A j \in {at'[v]} \cup After(at'[v]) : sender'[v][j] = "none"
    BY <1>2, <1>5, <2>1, <2>3, Firsts DEF Local, JoinSteps
  <2> QED
    BY <1>4, <2>2, <2>4 DEF Local, Playing, JoinSteps
<1>10. OwnedInv' /\ Fresh' /\ OneTrack' /\ Locals'
  BY <1>2, <1>4, <1>5, <1>7, <1>8, <1>9, ProducerQuiet
<1>11. Joining' = Joining
  BY <1>2, <1>4, <1>7, JoiningKept DEF JoinSteps
<1>12. Counted' /\ Holding'
  BY <1>1, <1>2, <1>4, <1>7, <1>11, CountedKept, HoldingKept
<1>13. Attached'
  <2> SUFFICES ASSUME NEW x \in Viewers, NEW j \in Kind, sender'[x][j] = "open", <<x, j>> \notin raced'
               PROVE  Hangs(x, j)' /\ (pc'[x] = "on" => state' = "Start")
    BY DEF Attached
  <2>1. CASE sender[x][j] = "open"
    <3>1. Hangs(x, j) /\ (pc[x] = "on" => state = "Start")
      BY <1>1, <1>3, <2>1 DEF Attached
    <3>2. receiver[j] \in Conn
      BY <1>1, <3>1 DEF Hangs, TypeOK
    <3>3. childs[receiver[j]][j] \subseteq childs'[receiver[j]][j]
      BY <1>6, <3>2
    <3> QED
      BY <1>2, <1>4, <3>1, <3>3 DEF Hangs
  <2>2. CASE sender[x][j] # "open"
    <3>1. x = v /\ j = k
      BY <1>5, <2>2
    <3>2. track[v] = conn /\ moving = 0 /\ receiver[k] = conn
      BY <1>1, <1>2, <1>3, <3>1 DEF Attaching
    <3>3. hand # k
      BY <1>1, <1>2, <3>2 DEF Owned, Kind, NoKind
    <3> QED
      BY <1>1, <1>2, <1>4, <1>6, <3>1, <3>2, <3>3, Connections DEF Hangs
  <2> QED
    BY <2>1, <2>2
<1>14. Attaching'
  BY <1>1, <1>2, <1>3, <1>4, <1>7, AttachingKept DEF Alone
<1>15. Stopping'
  <2> SUFFICES ASSUME NEW u \in Viewers, NEW x \in Viewers, NEW j \in Kind,
                      pc'[u] \in {"check", "senders", "stop"}
               PROVE  /\ x \in Joining' => <<x, j>> \in raced'
                      /\ pc'[u] \in {"senders", "stop"} /\ sender'[x][j] = "open"
                           => <<x, j>> \in raced' \/ j \in unchecked'
    BY DEF Stopping
  <2>1. v \in Joining
    BY <1>2 DEF Joining, JoinSteps
  <2>2. pc[u] = pc'[u]
    BY <1>4
  <2>3. x \in Joining => <<x, j>> \in raced'
    BY <1>1, <1>3, <2>2 DEF Stopping
  <2>4. x # v => sender'[x] = sender[x]
    BY <1>5
  <2> QED
    BY <1>1, <1>2, <1>3, <1>11, <2>1, <2>2, <2>3, <2>4 DEF Stopping
<1>16. Closing'
  <2>1. \A u \in Viewers : pc'[u] = "cascade" =>
          pc[u] = "cascade" /\ track'[u] = track[u] /\ at'[u] = at[u] /\ track[u] \in Conn /\ at[u] \in Kind
    BY <1>1, <1>4, <1>7 DEF Alone, Locals, Local, TypeOK
  <2>2. \A u, x \in Viewers : pc'[u] = "cascade" /\ x \in childs'[track'[u]][at'[u]]
          => <<x, at'[u]>> \in raced'
    BY <1>1, <1>3, <1>6, <2>1 DEF Closing
  <2> QED
    BY <2>2 DEF Closing
<1> QED
  BY <1>10, <1>12, <1>13, <1>14, <1>15, <1>16 DEF IInv

(* One fewer is pending, and the last one goes on to LoadPending.          *)
LEMMA MatchedStep ==
  ASSUME IInv, NEW v \in Viewers, Matched(v)
  PROVE  IInv'
<1>1. TypeOK /\ Locals /\ Counted /\ Holding
  BY DEF IInv, OwnedInv
<1>2. /\ pc[v] = "done" /\ pending' = pending - 1
      /\ Step(v, IF pending = 1 THEN "load" ELSE Returned(v))
      /\ UNCHANGED <<producerVars, workers, moveVars, connVars, childs, deaths, lock,
                     unchecked, consumers, at, track, senderVars, raced, left>>
  BY DEF Matched
<1>3. /\ Alone(v) /\ pc' \in [Viewers -> Steps]
      /\ pc'[v] \in {"load", "gone", "register", "failed"} /\ Local(v)'
  <2>1. CASE pending = 1
    <3>1. Step(v, "load")
      BY <1>2, <2>1
    <3>2. Alone(v) /\ pc' \in [Viewers -> Steps] /\ pc'[v] = "load"
      BY <1>1, <1>2, <3>1, StepAlone DEF Steps
    <3> QED
      BY <1>1, <1>2, <3>2 DEF Locals, Local, Playing, JoinSteps
  <2>2. CASE pending # 1
    <3>1. Step(v, Returned(v))
      BY <1>2, <2>2
    <3> QED
      BY <1>1, <1>2, <3>1, ReturnedWhere, ReturnedLocal
  <2> QED
    BY <2>1, <2>2
<1>4. TypeOK'
  BY <1>1, <1>2, <1>3 DEF TypeOK
<1>5. OwnedInv' /\ Fresh' /\ OneTrack' /\ Locals'
  BY <1>2, <1>3, <1>4, ProducerQuiet
<1>6. Joining' = Joining \ {v} /\ v \in Joining
  BY <1>2, <1>3 DEF Joining, JoinSteps, Alone
<1>7. Counted'
  BY <1>1, <1>2, <1>6, JoiningFinite, FS_RemoveElement DEF Counted
<1>8. Holding'
  BY <1>1, <1>2, <1>3, HoldingKept
<1>9. Attached' /\ Attaching' /\ Stopping' /\ Closing'
  BY <1>2, <1>3, <1>6, TracksQuiet
<1> QED
  BY <1>5, <1>7, <1>8, <1>9 DEF IInv

(* A viewer that has got a track is accepted.                              *)
LEMMA RegisterStep ==
  ASSUME IInv, NEW v \in Viewers, Register(v)
  PROVE  IInv'
<1>1. TypeOK /\ Locals /\ Counted /\ Holding
  BY DEF IInv, OwnedInv
<1>2. /\ pc[v] = "register" /\ consumers' = consumers \cup {v}
      /\ Turn(v, Playing(v), "start", "on")
      /\ UNCHANGED <<producerVars, workers, moveVars, connVars, childs, deaths,
                     pending, lock, unchecked, senderVars, raced, left>>
  BY DEF Register
<1>3. Playing(v) \in SUBSET Kind /\ Playing(v) # {} /\ "start" \in Steps /\ "on" \in Steps
  BY <1>1, <1>2 DEF Locals, Local, Playing, Steps
<1>4. /\ Alone(v) /\ pc'[v] = "start" /\ track'[v] = NoConn
      /\ pc' \in [Viewers -> Steps] /\ at' \in [Viewers -> Kind]
      /\ track' \in [Viewers -> Conn \cup {NoConn}]
  BY <1>1, <1>2, <1>3, TurnAlone, SMTT(30)
<1>5. TypeOK'
  BY <1>1, <1>2, <1>4 DEF TypeOK
<1>6. Local(v)'
  BY <1>1, <1>2, <1>4 DEF Locals, Local, Playing, JoinSteps
<1>7. OwnedInv' /\ Fresh' /\ OneTrack' /\ Locals'
  BY <1>2, <1>4, <1>5, <1>6, ProducerQuiet
<1>8. Joining' = Joining
  BY <1>2, <1>4, JoiningKept DEF JoinSteps
<1>9. Counted' /\ Holding'
  BY <1>1, <1>2, <1>4, <1>8, CountedKept, HoldingKept
<1>10. Attached' /\ Attaching' /\ Stopping' /\ Closing'
  BY <1>2, <1>4, <1>8, TracksQuiet
<1> QED
  BY <1>7, <1>9, <1>10 DEF IInv

(* The first to start the producer gives it its worker; whose Senders hang *)
(* on its tracks finds it with tracks, and leaves it started.              *)
LEMMA StartStep ==
  ASSUME IInv, NEW v \in Viewers, Start(v)
  PROVE  IInv'
<1>1. /\ TypeOK /\ Owned /\ OwnWorkers /\ NoGhost /\ Fresh /\ OneTrack /\ Locals /\ Counted
      /\ Holding /\ Attached /\ Attaching /\ Stopping /\ Closing
  BY DEF IInv, OwnedInv
<1>2. /\ pc[v] = "start" /\ moving = 0
      /\ Turn(v, Playing(v) \cap After(at[v]), "start", "on")
      /\ UNCHANGED <<conn, offers, receiver, moveVars, connVars, childs, deaths, streamVars,
                     senderVars, raced, left>>
  BY DEF Start, Unlocked
<1>3. /\ Playing(v) \cap After(at[v]) \in SUBSET Kind /\ "start" \in Steps /\ "on" \in Steps
  BY DEF Playing, Steps
<1>4. /\ Alone(v) /\ pc'[v] \in {"start", "on"} /\ track'[v] = NoConn
      /\ pc' \in [Viewers -> Steps] /\ at' \in [Viewers -> Kind]
      /\ track' \in [Viewers -> Conn \cup {NoConn}]
  BY <1>1, <1>2, <1>3, TurnAlone
<1>5. \/ state = "Tracks" /\ state' = "Start" /\ workerID' = workerID + 1
           /\ workers' = workers \cup {[id |-> workerID + 1, conn |-> conn]}
      \/ state # "Tracks" /\ UNCHANGED <<state, workerID, workers>>
  BY DEF Start
<1>6. TypeOK'
  <2>1. [id |-> workerID + 1, conn |-> conn] \in [id : Nat, conn : Conn] \/ state # "Tracks"
    BY <1>1, Connections DEF TypeOK, Owned
  <2>2. workers' \in SUBSET [id : Nat, conn : Conn] /\ workerID' \in Nat
    BY <1>1, <1>5, <2>1 DEF TypeOK
  <2> QED
    BY <1>1, <1>2, <1>4, <1>5, <2>2 DEF TypeOK
<1>7. Owned' /\ NoGhost'
  BY <1>1, <1>2, <1>5 DEF Owned, NoGhost, Tracks
<1>8. OwnWorkers'
  <2>1. workerID \in Nat /\ \A w \in workers : w.id \in Nat
    BY <1>1 DEF TypeOK
  <2> QED
    BY <1>1, <1>2, <1>5, <2>1 DEF OwnWorkers
<1>9. Fresh'
  BY <1>1, <1>2, <1>4, FreshKept DEF Alone
<1>10. OneTrack'
  BY <1>1, <1>2, <1>4, OneTrackKept DEF Alone
<1>11. Local(v)'
  BY <1>1, <1>2, <1>4 DEF Locals, Local, Playing, JoinSteps
<1>12. Locals' /\ Joining' = Joining
  BY <1>1, <1>2, <1>4, <1>11, LocalsKept, JoiningKept DEF JoinSteps
<1>13. Counted' /\ Holding'
  BY <1>1, <1>2, <1>4, <1>12, CountedKept, HoldingKept
<1>14. Attached'
  <2> SUFFICES ASSUME NEW x \in Viewers, NEW k \in Kind, sender'[x][k] = "open", <<x, k>> \notin raced'
               PROVE  Hangs(x, k)' /\ (pc'[x] = "on" => state' = "Start")
    BY DEF Attached
  <2>1. Hangs(x, k)
    BY <1>1, <1>2 DEF Attached
  <2>2. state \in {"Tracks", "Start"}
    BY <1>1, <2>1, Connections DEF Hangs, TypeOK, Owned, Tracks
  <2> QED
    BY <1>2, <1>5, <2>1, <2>2 DEF Hangs
<1>15. Attaching' /\ Stopping'
  BY <1>1, <1>2, <1>4, <1>12, AttachingKept, StoppingKept DEF Alone
<1>16. Closing'
  BY <1>1, <1>2, <1>4 DEF Closing, Alone
<1> QED
  BY <1>6, <1>7, <1>8, <1>9, <1>10, <1>12, <1>13, <1>14, <1>15, <1>16 DEF IInv, OwnedInv

(* A Sender that is closed leaves its track to the others; the last one    *)
(* goes on to close a track without children.                              *)
LEMMA CloseSenderStep ==
  ASSUME IInv, NEW v \in Viewers, NEW k \in Kind, pc[v] \in {"on", "leave"},
         sender[v][k] = "open", Playing(v) \ {k} \subseteq After(k), CloseSender(v, k)
  PROVE  IInv'
<1> DEFINE c == parent[v][k]
<1>1. /\ TypeOK /\ Owned /\ OwnWorkers /\ NoGhost /\ Fresh /\ OneTrack /\ Locals /\ Counted
      /\ Holding /\ Attached /\ Attaching /\ Stopping /\ Closing
  BY DEF IInv, OwnedInv
<1>2. /\ c \in Conn
      /\ sender' = [sender EXCEPT ![v][k] = "closed"]
      /\ childs' = [childs EXCEPT ![c][k] = @ \ {v}]
      /\ parent' = [parent EXCEPT ![v][k] = NoConn]
      /\ left' \in BOOLEAN
      /\ UNCHANGED <<producerVars, workers, moveVars, connVars, deaths, streamVars, raced>>
  BY <1>1 DEF CloseSender, Locals, Local, Playing, TypeOK
<1>3. \/ /\ childs[c][k] \subseteq {v} /\ track' = [track EXCEPT ![v] = c]
         /\ at' = [at EXCEPT ![v] = k] /\ Step(v, "cascade")
      \/ Turn(v, Playing(v) \ {k}, "leave", "remove")
  BY DEF CloseSender
<1>4. /\ sender' \in [Viewers -> [Kind -> {"none", "open", "closed"}]]
      /\ parent' \in [Viewers -> [Kind -> Conn \cup {NoConn}]]
      /\ sender'[v][k] = "closed" /\ parent'[v][k] = NoConn
      /\ \A j \in Kind : j # k => sender'[v][j] = sender[v][j] /\ parent'[v][j] = parent[v][j]
      /\ \A u \in Viewers \ {v} : sender'[u] = sender[u] /\ parent'[u] = parent[u]
      /\ childs' \in [Conn -> [Kind -> SUBSET Viewers]]
      /\ childs'[c][k] = childs[c][k] \ {v}
      /\ \A d \in Conn, j \in Kind : childs[d][j] \ {v} \subseteq childs'[d][j]
      /\ \A d \in Conn, j \in Kind : <<d, j>> # <<c, k>> => childs'[d][j] = childs[d][j]
      /\ \A d \in Conn, j \in Kind : childs'[d][j] \subseteq childs[d][j]
  BY <1>1, <1>2 DEF TypeOK
<1>5. Playing(v)' = Playing(v) \ {k} /\ Playing(v)' \in SUBSET Kind
  BY <1>4 DEF Playing
<1>6. /\ Alone(v) /\ pc' \in [Viewers -> Steps] /\ at' \in [Viewers -> Kind]
      /\ track' \in [Viewers -> Conn \cup {NoConn}]
      /\ \/ /\ pc'[v] = "cascade" /\ childs[c][k] \subseteq {v}
            /\ track'[v] = c /\ at'[v] = k
         \/ pc'[v] = "leave" /\ track'[v] = NoConn /\ at'[v] \in Playing(v)'
         \/ pc'[v] = "remove" /\ track'[v] = NoConn /\ Playing(v)' = {}
  <2> HIDE DEF c
  <2>1. CASE /\ childs[c][k] \subseteq {v} /\ track' = [track EXCEPT ![v] = c]
             /\ at' = [at EXCEPT ![v] = k] /\ Step(v, "cascade")
    BY <1>1, <1>2, <1>4, <2>1 DEF TypeOK, Step, Steps, Alone
  <2>2. CASE Turn(v, Playing(v) \ {k}, "leave", "remove")
    <3>1. Playing(v) \ {k} \in SUBSET Kind /\ "leave" \in Steps /\ "remove" \in Steps
      BY DEF Playing, Steps
    <3>2. /\ pc'[v] = (IF Playing(v) \ {k} = {} THEN "remove" ELSE "leave")
          /\ at'[v] = FirstOf(Playing(v) \ {k}) /\ track'[v] = NoConn
          /\ \A u \in Viewers \ {v} : pc'[u] = pc[u] /\ at'[u] = at[u] /\ track'[u] = track[u]
          /\ pc' \in [Viewers -> Steps] /\ at' \in [Viewers -> Kind]
          /\ track' \in [Viewers -> Conn \cup {NoConn}]
      BY <1>1, <2>2, <3>1, TurnAlone, SMTT(30)
    <3>3. Alone(v)
      BY <1>4, <3>2 DEF Alone
    <3>4. Playing(v) \ {k} # {} => at'[v] \in Playing(v) \ {k}
      BY <3>1, <3>2, Firsts
    <3> QED
      BY <1>5, <3>2, <3>3, <3>4
  <2> QED
    BY <1>3, <2>1, <2>2
<1>7. TypeOK'
  BY <1>1, <1>2, <1>4, <1>6 DEF TypeOK
<1>8. Local(v)'
  <2>1. Local(v)
    BY <1>1 DEF Locals
  <2>2. \A j \in Playing(v)' : parent'[v][j] \in Conn
    BY <1>4, <1>5, <2>1 DEF Local, Playing
  <2>3. \E j \in Kind : sender'[v][j] = "closed"
    BY <1>4
  <2>4. /\ pc'[v] = "leave" => sender'[v][at'[v]] = "open"
        /\ pc'[v] = "cascade" => sender'[v][at'[v]] = "closed"
    BY <1>4, <1>6 DEF Playing
  <2>5. \A j \in Kind : sender'[v][j] = "closed" => Playing(v)' \subseteq After(j)
    BY <1>4, <1>5, <2>1 DEF Local
  <2> QED
    BY <1>2, <1>6, <2>2, <2>3, <2>4, <2>5 DEF Local, JoinSteps
<1>9. OwnedInv' /\ Fresh' /\ OneTrack' /\ Locals'
  <2>1. \/ track'[v] = NoConn
        \/ track'[v] = parent[v][at'[v]]
    BY <1>6
  <2>2. \A j \in Kind : parent'[v][j] \in {parent[v][j], NoConn}
    BY <1>4
  <2>3. pc'[v] # "gettrack"
    BY <1>6
  <2> QED
    BY <1>2, <1>6, <1>7, <1>8, <2>1, <2>2, <2>3, ProducerQuiet
<1>10. Joining' = Joining
  BY <1>6, JoiningKept DEF JoinSteps
<1>11. Counted' /\ Holding'
  <2>1. pc'[v] \in {"cascade", "leave", "remove"}
    BY <1>6
  <2> QED
    BY <1>1, <1>2, <1>6, <1>10, <2>1, CountedKept, HoldingKept
<1>12. \A x \in Viewers, j \in Kind : sender'[x][j] = "open" => sender[x][j] = "open"
  BY <1>4
<1>13. Attached'
  <2>1. \A d \in Conn, j \in Kind, x \in Viewers :
          x \in childs[d][j] => x \in childs'[d][j] \/ sender'[x][j] # "open"
    BY <1>4
  <2>2. \A x \in Viewers : pc'[x] = "on" => pc[x] = "on"
    BY <1>6 DEF Alone
  <2> QED
    BY <1>1, <1>2, <1>12, <2>1, <2>2, AttachedKept
<1>14. Attaching' /\ Stopping'
  BY <1>1, <1>2, <1>6, <1>10, <1>12, AttachingKept, StoppingKept DEF Alone
<1>15. Closing'
  <2> SUFFICES ASSUME NEW u \in Viewers, NEW x \in Viewers, pc'[u] = "cascade",
                      x \in childs'[track'[u]][at'[u]]
               PROVE  <<x, at'[u]>> \in raced'
    BY DEF Closing
  <2>1. u # v
    BY <1>4, <1>6
  <2>2. pc[u] = "cascade" /\ track'[u] = track[u] /\ at'[u] = at[u]
    BY <1>6, <2>1 DEF Alone
  <2>3. track[u] \in Conn /\ at[u] \in Kind
    BY <1>1, <2>2 DEF Locals, Local, TypeOK
  <2>4. x \in childs[track[u]][at[u]]
    BY <1>4, <2>2, <2>3
  <2> QED
    BY <1>1, <1>2, <2>2, <2>4 DEF Closing
<1> QED
  BY <1>9, <1>11, <1>13, <1>14, <1>15 DEF IInv

(* A viewer leaves one track after the other.                              *)
LEMMA RemoveConsumerStep ==
  ASSUME IInv, NEW v \in Viewers, RemoveConsumer(v) \/ CloseNext(v)
  PROVE  IInv'
<1>1. Local(v) /\ at[v] \in Kind /\ Playing(v) \in SUBSET Kind
  BY DEF IInv, OwnedInv, TypeOK, Locals, Playing
<1>2. CASE RemoveConsumer(v)
  <2>1. Playing(v) # {}
    BY <1>1, <1>2 DEF RemoveConsumer, Local
  <2>2. FirstOf(Playing(v)) \in Kind /\ sender[v][FirstOf(Playing(v))] = "open"
    BY <1>1, <2>1, Firsts DEF Playing
  <2>3. Playing(v) \ {FirstOf(Playing(v))} \subseteq After(FirstOf(Playing(v)))
    BY <1>1 DEF Kind, FirstOf, After
  <2> QED
    BY <1>2, <2>2, <2>3, CloseSenderStep DEF RemoveConsumer
<1>3. CASE CloseNext(v)
  <2>1. pc[v] = "leave" /\ sender[v][at[v]] = "open" /\ at[v] \in Playing(v)
    BY <1>1, <1>3 DEF CloseNext, Local, Playing
  <2>2. PICK k \in Kind : Playing(v) \subseteq After(k)
    BY <1>1, <2>1 DEF Local
  <2>3. Playing(v) \ {at[v]} \subseteq After(at[v])
    BY <2>1, <2>2 DEF Kind, After
  <2> QED
    BY <1>1, <1>3, <2>1, <2>3, CloseSenderStep DEF CloseNext
<1> QED
  BY <1>2, <1>3

(* Who loses its track here is raced.                                      *)
LEMMA CascadeStep ==
  ASSUME IInv, NEW v \in Viewers, Cascade(v)
  PROVE  IInv'
<1> DEFINE c == track[v]
           k == at[v]
<1>1. /\ TypeOK /\ Locals /\ Counted /\ Holding /\ Attached /\ Attaching /\ Stopping /\ Closing
  BY DEF IInv, OwnedInv
<1>2. /\ pc[v] = "cascade" /\ c \in Conn /\ k \in Kind
      /\ Turn(v, Playing(v), "leave", "remove")
      /\ UNCHANGED <<producerVars, workers, moveVars, connVars, deaths, streamVars,
                     senderVars, raced, left>>
  BY <1>1 DEF Cascade, Locals, Local, TypeOK
<1>3. PICK rest \in SUBSET childs[c][k] : childs' = [childs EXCEPT ![c][k] = rest]
  BY <1>2 DEF Cascade, Skipped
<1>4. /\ childs' \in [Conn -> [Kind -> SUBSET Viewers]]
      /\ \A d \in Conn, j \in Kind : <<d, j>> # <<c, k>> => childs'[d][j] = childs[d][j]
      /\ \A d \in Conn, j \in Kind : childs'[d][j] \subseteq childs[d][j]
  BY <1>1, <1>2, <1>3 DEF TypeOK
<1>5. Playing(v) \in SUBSET Kind /\ "leave" \in Steps /\ "remove" \in Steps /\ Playing(v)' = Playing(v)
  BY <1>2 DEF Playing, Steps
<1>6. /\ Alone(v) /\ pc'[v] = (IF Playing(v) = {} THEN "remove" ELSE "leave")
      /\ track'[v] = NoConn /\ at'[v] = FirstOf(Playing(v))
      /\ pc' \in [Viewers -> Steps] /\ at' \in [Viewers -> Kind]
      /\ track' \in [Viewers -> Conn \cup {NoConn}]
  BY <1>1, <1>2, <1>5, TurnAlone
<1>7. TypeOK'
  BY <1>1, <1>2, <1>4, <1>6 DEF TypeOK
<1>8. Local(v)'
  <2>1. Local(v)
    BY <1>1 DEF Locals
  <2>2. Playing(v) # {} => sender'[v][at'[v]] = "open"
    BY <1>2, <1>5, <1>6, Firsts DEF Playing
  <2> QED
    BY <1>2, <1>5, <1>6, <2>1, <2>2 DEF Local, JoinSteps
<1>9. OwnedInv' /\ Fresh' /\ OneTrack' /\ Locals'
  BY <1>2, <1>6, <1>7, <1>8, ProducerQuiet
<1>10. Joining' = Joining
  BY <1>2, <1>6, JoiningKept DEF JoinSteps
<1>11. Counted' /\ Holding'
  BY <1>1, <1>2, <1>6, <1>10, CountedKept, HoldingKept
<1>12. Attached'
  <2>1. \A d \in Conn, j \in Kind, x \in Viewers :
          x \in childs[d][j] => x \in childs'[d][j] \/ <<x, j>> \in raced'
    BY <1>1, <1>2, <1>4 DEF Closing
  <2>2. \A x \in Viewers : pc'[x] = "on" => pc[x] = "on"
    BY <1>6 DEF Alone
  <2> QED
    BY <1>1, <1>2, <2>1, <2>2, AttachedKept
<1>13. Attaching' /\ Stopping'
  BY <1>1, <1>2, <1>6, <1>10, AttachingKept, StoppingKept DEF Alone
<1>14. Closing'
  <2>1. \A u \in Viewers : pc'[u] = "cascade" =>
          pc[u] = "cascade" /\ track'[u] = track[u] /\ at'[u] = at[u] /\ track[u] \in Conn /\ at[u] \in Kind
    BY <1>1, <1>6 DEF Alone, Locals, Local, TypeOK
  <2> QED
    BY <1>1, <1>2, <1>4, <2>1, ClosingKept
<1> QED
  BY <1>9, <1>11, <1>12, <1>13, <1>14 DEF IInv

(* The consumer is off the list.                                           *)
LEMMA RemoveStep ==
  ASSUME IInv, NEW v \in Viewers, Remove(v)
  PROVE  IInv'
<1>1. TypeOK /\ Locals /\ Counted /\ Holding
  BY DEF IInv, OwnedInv
<1>2. /\ pc[v] = "remove" /\ consumers' = consumers \ {v} /\ Step(v, "load")
      /\ UNCHANGED <<producerVars, workers, moveVars, connVars, childs, deaths,
                     pending, lock, unchecked, at, track, senderVars, raced, left>>
  BY DEF Remove
<1>3. Alone(v) /\ pc' \in [Viewers -> Steps] /\ pc'[v] = "load"
  BY <1>1, <1>2, StepAlone DEF Steps
<1>4. TypeOK'
  BY <1>1, <1>2, <1>3 DEF TypeOK
<1>5. Local(v)'
  BY <1>1, <1>2, <1>3 DEF Locals, Local, Playing, JoinSteps
<1>6. OwnedInv' /\ Fresh' /\ OneTrack' /\ Locals'
  BY <1>2, <1>3, <1>4, <1>5, ProducerQuiet
<1>7. Joining' = Joining
  BY <1>2, <1>3, JoiningKept DEF JoinSteps
<1>8. Counted' /\ Holding'
  BY <1>1, <1>2, <1>3, <1>7, CountedKept, HoldingKept
<1>9. Attached' /\ Attaching' /\ Stopping' /\ Closing'
  BY <1>2, <1>3, <1>7, TracksQuiet
<1> QED
  BY <1>6, <1>8, <1>9 DEF IInv

(* Only with no join pending does a leave go on: there is none to race.    *)
LEMMA LoadPendingStep ==
  ASSUME IInv, NEW v \in Viewers, LoadPending(v)
  PROVE  IInv'
<1>1. TypeOK /\ Locals /\ Counted /\ Holding /\ Attached /\ Attaching /\ Stopping /\ Closing
  BY DEF IInv, OwnedInv
<1>2. /\ pc[v] = "load" /\ Step(v, IF pending > 0 THEN Returned(v) ELSE "check")
      /\ UNCHANGED <<producerVars, workers, moveVars, connVars, childs, deaths,
                     streamVars, at, track, senderVars, raced, left>>
  BY DEF LoadPending
<1>3. CASE pending > 0
  <2>1. Step(v, Returned(v))
    BY <1>2, <1>3
  <2>2. /\ Alone(v) /\ pc' \in [Viewers -> Steps] /\ Local(v)'
        /\ pc'[v] \in {"gone", "register", "failed"}
    BY <1>1, <1>2, <2>1, ReturnedLocal, ReturnedWhere
  <2>3. TypeOK'
    BY <1>1, <1>2, <2>2 DEF TypeOK
  <2>4. OwnedInv' /\ Fresh' /\ OneTrack' /\ Locals'
    BY <1>2, <2>2, <2>3, ProducerQuiet
  <2>5. Joining' = Joining
    BY <1>2, <2>2, JoiningKept DEF JoinSteps
  <2>6. Counted' /\ Holding'
    BY <1>1, <1>2, <2>2, <2>5, CountedKept, HoldingKept
  <2>7. Attached' /\ Attaching' /\ Stopping' /\ Closing'
    BY <1>2, <2>2, <2>5, TracksQuiet
  <2> QED
    BY <2>4, <2>6, <2>7 DEF IInv
<1>4. CASE ~(pending > 0)
  <2>1. Step(v, "check")
    BY <1>2, <1>4
  <2>2. Alone(v) /\ pc' \in [Viewers -> Steps] /\ pc'[v] = "check"
    BY <1>1, <1>2, <2>1, StepAlone DEF Steps
  <2>3. TypeOK'
    BY <1>1, <1>2, <2>2 DEF TypeOK
  <2>4. Local(v)'
    BY <1>1, <1>2, <2>2 DEF Locals, Local, Playing, JoinSteps
  <2>5. OwnedInv' /\ Fresh' /\ OneTrack' /\ Locals'
    BY <1>2, <2>2, <2>3, <2>4, ProducerQuiet
  <2>6. Joining' = Joining
    BY <1>2, <2>2, JoiningKept DEF JoinSteps
  <2>7. Counted' /\ Holding'
    BY <1>1, <1>2, <2>2, <2>6, CountedKept, HoldingKept
  <2>8. Joining = {}
    BY <1>1, <1>4, JoiningFinite, FS_CardinalityType, FS_EmptySet DEF Counted
  <2>9. Attached' /\ Attaching'
    BY <1>1, <1>2, <2>2, AttachedKept, AttachingKept DEF Alone
  <2>10. Stopping'
    BY <1>1, <1>2, <2>2, <2>6, <2>8 DEF Stopping, Alone
  <2>11. Closing'
    BY <1>1, <1>2, <2>2 DEF Closing, Alone
  <2> QED
    BY <2>5, <2>7, <2>9, <2>10, <2>11 DEF IInv
<1> QED
  BY <1>3, <1>4

(* It begins with all the tracks; whoever hangs on none is raced.          *)
LEMMA CheckSendersStep ==
  ASSUME IInv, NEW v \in Viewers, CheckSenders(v)
  PROVE  IInv'
<1>1. TypeOK /\ Locals /\ Counted /\ Holding /\ Attached /\ Attaching /\ Stopping /\ Closing
  BY DEF IInv, OwnedInv
<1>2. /\ pc[v] = "check" /\ lock = NoViewer /\ lock' = v /\ unchecked' = Tracks
      /\ Step(v, IF Tracks = {} THEN "stop" ELSE "senders")
      /\ UNCHANGED <<producerVars, workers, moveVars, connVars, childs, deaths, pending,
                     consumers, at, track, senderVars, raced, left>>
  BY DEF CheckSenders
<1>3. /\ Alone(v) /\ pc' \in [Viewers -> Steps]
      /\ pc'[v] = (IF Tracks = {} THEN "stop" ELSE "senders")
  BY <1>1, <1>2, StepAlone DEF Steps
<1>4. TypeOK'
  BY <1>1, <1>2, <1>3 DEF TypeOK, Tracks
<1>5. Local(v)'
  BY <1>1, <1>2, <1>3 DEF Locals, Local, Playing, JoinSteps
<1>6. OwnedInv' /\ Fresh' /\ OneTrack' /\ Locals'
  BY <1>2, <1>3, <1>4, <1>5, ProducerQuiet
<1>7. Joining' = Joining
  BY <1>2, <1>3, JoiningKept DEF JoinSteps
<1>8. Counted'
  BY <1>1, <1>2, <1>7, CountedKept
<1>9. \A u \in Viewers : pc[u] \notin {"senders", "stop"}
  BY <1>1, <1>2 DEF Holding
<1>10. Holding'
  BY <1>2, <1>3, <1>9 DEF Holding, Alone, Tracks
<1>11. Attached' /\ Attaching'
  BY <1>1, <1>2, <1>3, AttachedKept, AttachingKept DEF Alone
<1>12. Stopping'
  <2>1. \A x \in Viewers, k \in Kind : sender[x][k] = "open" => <<x, k>> \in raced \/ k \in Tracks
    BY <1>1 DEF Attached, Hangs, Tracks
  <2> QED
    BY <1>1, <1>2, <1>3, <1>7, <1>9, <2>1 DEF Stopping, Alone
<1>13. Closing'
  BY <1>1, <1>2, <1>3 DEF Closing, Alone
<1> QED
  BY <1>6, <1>8, <1>10, <1>11, <1>12, <1>13 DEF IInv

(* No child on a track: who hangs on it is on its way to the new one.      *)
LEMMA CheckTrackStep ==
  ASSUME IInv, NEW v \in Viewers, CheckTrack(v)
  PROVE  IInv'
<1>1. TypeOK /\ Locals /\ Counted /\ Holding /\ Attached /\ Attaching /\ Stopping /\ Closing
  BY DEF IInv, OwnedInv
<1>2. /\ pc[v] = "senders" /\ lock = v
      /\ UNCHANGED <<producerVars, workers, moveVars, connVars, childs, deaths, pending,
                     consumers, at, track, senderVars, left>>
  BY <1>1 DEF CheckTrack, Holding
<1>3. PICK k \in unchecked :
         IF childs[receiver[k]][k] # {}
         THEN /\ lock' = NoViewer /\ unchecked' = {}
              /\ Step(v, Returned(v))
              /\ UNCHANGED raced
         ELSE /\ unchecked' = unchecked \ {k}
              /\ Step(v, IF unchecked = {k} THEN "stop" ELSE "senders")
              /\ Flag(IF hand = k THEN taken \X {k} ELSE {})
              /\ UNCHANGED lock
  BY DEF CheckTrack
<1>4. k \in Kind /\ \A u \in Viewers \ {v} : pc[u] \notin {"senders", "stop"}
  BY <1>1, <1>2 DEF TypeOK, Holding
<1>5. CASE childs[receiver[k]][k] # {}
  <2>1. lock' = NoViewer /\ unchecked' = {} /\ Step(v, Returned(v)) /\ UNCHANGED raced
    BY <1>3, <1>5
  <2>2. /\ Alone(v) /\ pc' \in [Viewers -> Steps] /\ Local(v)'
        /\ pc'[v] \in {"gone", "register", "failed"}
    BY <1>1, <1>2, <2>1, ReturnedLocal, ReturnedWhere
  <2>3. TypeOK'
    BY <1>1, <1>2, <2>1, <2>2 DEF TypeOK
  <2>4. OwnedInv' /\ Fresh' /\ OneTrack' /\ Locals'
    BY <1>2, <2>2, <2>3, ProducerQuiet
  <2>5. Joining' = Joining
    BY <1>2, <2>2, JoiningKept DEF JoinSteps
  <2>6. Counted'
    BY <1>1, <1>2, <2>5, CountedKept
  <2>7. Holding'
    BY <1>4, <2>1, <2>2 DEF Holding, Alone
  <2>8. Attached' /\ Attaching'
    BY <1>1, <1>2, <2>1, <2>2, AttachedKept, AttachingKept DEF Alone
  <2>9. Stopping'
    BY <1>1, <1>2, <1>4, <2>1, <2>2, <2>5 DEF Stopping, Alone
  <2>10. Closing'
    BY <1>1, <1>2, <2>1, <2>2 DEF Closing, Alone
  <2> QED
    BY <2>4, <2>6, <2>7, <2>8, <2>9, <2>10 DEF IInv
<1>6. CASE childs[receiver[k]][k] = {}
  <2>1. /\ unchecked' = unchecked \ {k} /\ lock' = lock
        /\ Step(v, IF unchecked = {k} THEN "stop" ELSE "senders")
        /\ Flag(IF hand = k THEN taken \X {k} ELSE {})
    BY <1>3, <1>6
  <2>2. /\ Alone(v) /\ pc' \in [Viewers -> Steps]
        /\ pc'[v] = (IF unchecked = {k} THEN "stop" ELSE "senders")
    BY <1>1, <1>2, <2>1, StepAlone DEF Steps
  <2>3. /\ raced \subseteq raced' /\ raced' \in SUBSET (Viewers \X Kind)
        /\ hand = k => \A x \in taken : <<x, k>> \in raced'
    BY <1>1, <1>4, <2>1 DEF Flag, TypeOK
  <2>4. TypeOK'
    BY <1>1, <1>2, <2>1, <2>2, <2>3 DEF TypeOK
  <2>5. Local(v)'
    BY <1>1, <1>2, <2>2 DEF Locals, Local, Playing, JoinSteps
  <2>6. OwnedInv' /\ Fresh' /\ OneTrack' /\ Locals'
    BY <1>2, <2>2, <2>4, <2>5, ProducerQuiet
  <2>7. Joining' = Joining
    BY <1>2, <2>2, JoiningKept DEF JoinSteps
  <2>8. Counted'
    BY <1>1, <1>2, <2>7, CountedKept
  <2>9. Holding'
    BY <1>1, <1>2, <1>4, <2>1, <2>2 DEF Holding, Alone, Tracks
  <2>10. Attached' /\ Attaching'
    BY <1>1, <1>2, <2>2, <2>3, AttachedKept, AttachingKept DEF Alone
  <2>11. Stopping'
    <3> SUFFICES ASSUME NEW u \in Viewers, NEW x \in Viewers, NEW j \in Kind,
                        pc'[u] \in {"check", "senders", "stop"}
                 PROVE  /\ x \in Joining' => <<x, j>> \in raced'
                        /\ pc'[u] \in {"senders", "stop"} /\ sender'[x][j] = "open"
                             => <<x, j>> \in raced' \/ j \in unchecked'
      BY DEF Stopping
    <3>1. pc[u] \in {"check", "senders", "stop"} /\ (pc'[u] \in {"senders", "stop"} => u = v)
      BY <1>2, <1>4, <2>2 DEF Alone
    <3>2. x \in Joining => <<x, j>> \in raced'
      BY <1>1, <2>3, <3>1 DEF Stopping
    <3>3. sender[x][j] = "open" => <<x, j>> \in raced \/ j \in unchecked
      BY <1>1, <1>2 DEF Stopping
    <3>4. sender[x][k] = "open" => <<x, k>> \in raced'
      BY <1>1, <1>4, <1>6, <2>3 DEF Attached, Hangs
    <3> QED
      BY <1>2, <2>1, <2>3, <2>7, <3>2, <3>3, <3>4
  <2>12. Closing'
    BY <1>1, <1>2, <2>2, <2>3 DEF Closing, Alone
  <2> QED
    BY <2>6, <2>8, <2>9, <2>10, <2>11, <2>12 DEF IInv
<1> QED
  BY <1>5, <1>6

(* Everybody whose Sender is open by now is raced.                         *)
LEMMA StopProducerStep ==
  ASSUME IInv, NEW v \in Viewers, StopProducer(v)
  PROVE  IInv'
<1>1. /\ TypeOK /\ Owned /\ OwnWorkers /\ NoGhost /\ Fresh /\ OneTrack /\ Locals /\ Counted
      /\ Holding /\ Attached /\ Attaching /\ Stopping /\ Closing
  BY DEF IInv, OwnedInv
<1>2. /\ pc[v] = "stop" /\ moving = 0 /\ lock = v /\ lock' = NoViewer
      /\ Step(v, Returned(v))
      /\ UNCHANGED <<workers, moveVars, opened, deaths, pending, unchecked,
                     consumers, at, track, senderVars, raced, left>>
  BY <1>1 DEF StopProducer, Unlocked, Holding
<1>3. \A u \in Viewers \ {v} : pc[u] \notin {"senders", "stop"}
  BY <1>1, <1>2 DEF Holding
<1>4. unchecked = {}
  BY <1>1, <1>2, <1>3 DEF Holding
<1>5. /\ Alone(v) /\ pc' \in [Viewers -> Steps] /\ Local(v)'
      /\ pc'[v] \in {"gone", "register", "failed"}
  BY <1>1, <1>2, ReturnedLocal, ReturnedWhere
<1>6. Locals' /\ Joining' = Joining
  BY <1>1, <1>2, <1>5, LocalsKept, JoiningKept DEF JoinSteps
<1>7. Counted'
  BY <1>1, <1>2, <1>6, CountedKept
<1>8. CASE state = "None"
  <2>1. UNCHANGED <<producerVars, status, childs>>
    BY <1>8 DEF StopProducer
  <2>2. TypeOK'
    BY <1>1, <1>2, <1>5, <2>1 DEF TypeOK
  <2>3. OwnedInv' /\ Fresh' /\ OneTrack'
    BY <1>2, <1>5, <2>1, <2>2, ProducerQuiet
  <2>4. Holding'
    BY <1>2, <1>3, <1>4, <1>5 DEF Holding, Alone
  <2>5. Attached' /\ Attaching'
    BY <1>1, <1>2, <1>5, <2>1, AttachedKept, AttachingKept DEF Alone
  <2>6. Stopping' /\ Closing'
    <3>1. Stopping'
      BY <1>1, <1>2, <1>5, <1>6, StoppingKept DEF Alone
    <3>2. Closing'
      BY <1>1, <1>2, <1>5, <2>1 DEF Closing, Alone
    <3> QED
      BY <3>1, <3>2
  <2> QED
    BY <1>6, <1>7, <2>3, <2>4, <2>5, <2>6 DEF IInv
<1>9. CASE state # "None"
  <2>1. /\ workerID' = (IF state = "Start" THEN workerID + 1 ELSE workerID)
        /\ Stopped(conn) /\ conn' = NoConn /\ offers' = {} /\ state' = "None"
        /\ receiver' = [k \in Kind |-> NoConn] /\ conn \in Conn
    BY <1>1, <1>9 DEF StopProducer, TypeOK, Owned
  <2>2. /\ status' \in [Conn -> {"none", "up", "down", "closed"}]
        /\ status'[conn] = "closed"
        /\ \A d \in Conn : d # conn => status'[d] = status[d]
        /\ childs' \in [Conn -> [Kind -> SUBSET Viewers]]
        /\ \A d \in Conn, k \in Kind : childs'[d][k] \subseteq childs[d][k]
    BY <1>1, <2>1, StoppedOnly
  <2>3. TypeOK'
    BY <1>1, <1>2, <1>5, <2>1, <2>2 DEF TypeOK
  <2>4. Owned' /\ NoGhost'
    BY <1>1, <1>2, <2>1, <2>2, Connections DEF Owned, NoGhost, Tracks
  <2>5. OwnWorkers'
    <3>1. workerID \in Nat /\ \A w \in workers : w.id \in Nat
      BY <1>1 DEF TypeOK
    <3> QED
      BY <1>1, <1>2, <2>1, <3>1 DEF OwnWorkers
  <2>6. Fresh'
    BY <1>1, <1>2, <2>1, Numbers DEF Fresh, Known, Owned, Kind, NoKind, NoConn
  <2>7. OneTrack'
    <3>1. \A x \in Viewers : pc'[x] = "gettrack" => track[x] \in Conn
      BY <1>1, <1>5 DEF Locals, Local, Alone
    <3> QED
      BY <1>2, <2>1, <3>1, Connections DEF OneTrack
  <2>8. Holding'
    BY <1>2, <1>3, <1>4, <1>5 DEF Holding, Alone
  <2>9. Attached'
    BY <1>1, <1>2, <1>4 DEF Attached, Stopping
  <2>10. Attaching'
    <3>1. \A x \in Viewers : pc'[x] \in {"gettrack", "addtrack"} =>
            x \in Joining /\ at[x] \in Kind
      BY <1>1, <1>5 DEF Joining, JoinSteps, Alone, TypeOK
    <3> QED
      BY <1>1, <1>2, <3>1 DEF Attaching, Stopping
  <2>11. Stopping'
    BY <1>1, <1>2, <1>5, <1>6, StoppingKept DEF Alone
  <2>12. Closing'
    <3>1. \A u \in Viewers : pc'[u] = "cascade" =>
            pc[u] = "cascade" /\ track'[u] = track[u] /\ at'[u] = at[u] /\ track[u] \in Conn /\ at[u] \in Kind
      BY <1>1, <1>5 DEF Alone, Locals, Local, TypeOK
    <3> QED
      BY <1>1, <1>2, <2>2, <3>1, ClosingKept
  <2> QED
    BY <1>6, <1>7, <2>3, <2>4, <2>5, <2>6, <2>7, <2>8, <2>9, <2>10, <2>11, <2>12
       DEF IInv, OwnedInv
<1> QED
  BY <1>8, <1>9

(* The worker that returns is not the producer's.                          *)
LEMMA WorkerReturnsStep ==
  ASSUME IInv, NEW w \in workers, WorkerReturns(w)
  PROVE  IInv'
<1>1. /\ TypeOK /\ Owned /\ OwnWorkers /\ NoGhost /\ Fresh /\ OneTrack /\ Locals /\ Counted
      /\ Holding /\ Attached /\ Attaching /\ Stopping /\ Closing
  BY DEF IInv, OwnedInv
<1>2. /\ w.id # workerID /\ workers' = workers \ {w}
      /\ UNCHANGED <<producerVars, moveVars, connVars, childs, deaths, streamVars,
                     viewerVars, senderVars, raced, left>>
  BY DEF WorkerReturns
<1>3. TypeOK'
  BY <1>1, <1>2 DEF TypeOK
<1>4. Owned' /\ NoGhost'
  BY <1>1, <1>2 DEF Owned, Tracks, NoGhost
<1>5. OwnWorkers'
  BY <1>1, <1>2 DEF OwnWorkers
<1>6. Fresh' /\ OneTrack' /\ Locals'
  BY <1>1, <1>2 DEF Fresh, Known, OneTrack, Locals, Local, Playing
<1>7. Counted' /\ Holding'
  BY <1>1, <1>2 DEF Counted, Joining, Holding, Tracks
<1>8. Attached' /\ Attaching' /\ Stopping' /\ Closing'
  BY <1>1, <1>2 DEF Attached, Hangs, Attaching, Stopping, Joining, Closing
<1> QED
  BY <1>3, <1>4, <1>5, <1>6, <1>7, <1>8 DEF IInv, OwnedInv

(* Who is about to get a track of the connection before is raced, and who  *)
(* hangs on one that is not to be moved.                                   *)
LEMMA ReconnectStep ==
  ASSUME IInv, NEW w \in workers, Reconnect(w)
  PROVE  IInv'
<1>1. /\ TypeOK /\ Owned /\ OwnWorkers /\ NoGhost /\ Fresh /\ OneTrack /\ Locals /\ Counted
      /\ Holding /\ Attached /\ Attaching /\ Stopping /\ Closing
  BY DEF IInv, OwnedInv
<1>2. /\ moving = 0 /\ w.id = workerID /\ brings' \in SUBSET Kind
      /\ todo' = Tracks \cap brings' /\ moving' = w.id
      /\ UNCHANGED <<producerVars, workers, hand, taken, childs, deaths, streamVars,
                     viewerVars, senderVars, left>>
  BY DEF Reconnect, Unlocked
<1>3. PICK c \in Conn : Open(c) /\ to' = c
  BY DEF Reconnect
<1>4. /\ opened' \in 0 .. MaxConn /\ opened' = c /\ c = opened + 1
      /\ status' \in [Conn -> {"none", "up", "down", "closed"}]
      /\ \A d \in Conn : d # c => status'[d] = status[d]
  BY <1>1, <1>3, Opened
<1>5. /\ state = "Start" /\ workerID \in Nat /\ workerID # 0 /\ to = NoConn /\ hand = NoKind
      /\ todo = {} /\ taken = {}
  BY <1>1, <1>2 DEF OwnWorkers, Owned, TypeOK
<1>6. /\ raced \subseteq raced' /\ raced' \in SUBSET (Viewers \X Kind)
      /\ \A x \in Viewers : pc[x] \in {"gettrack", "addtrack"} => <<x, at[x]>> \in raced'
      /\ \A k \in Tracks \ todo' : \A x \in childs[receiver[k]][k] : <<x, k>> \in raced'
  <2>1. Flag({<<x, at[x]>> : x \in {u \in Viewers : pc[u] \in {"gettrack", "addtrack"}}}
               \cup UNION {childs[receiver[k]][k] \X {k} : k \in Tracks \ todo'})
    BY DEF Reconnect
  <2>2. \A k \in Tracks : k \in Kind /\ childs[receiver[k]][k] \in SUBSET Viewers
    BY <1>1 DEF TypeOK, Tracks
  <2>3. UNION {childs[receiver[k]][k] \X {k} : k \in Tracks \ todo'} \subseteq Viewers \X Kind
    BY <2>2
  <2>4. {<<x, at[x]>> : x \in {u \in Viewers : pc[u] \in {"gettrack", "addtrack"}}}
          \subseteq Viewers \X Kind
    BY <1>1 DEF TypeOK
  <2>5. raced \in SUBSET (Viewers \X Kind)
    BY <1>1 DEF TypeOK
  <2> QED
    BY <2>1, <2>3, <2>4, <2>5 DEF Flag
<1>7. TypeOK'
  BY <1>1, <1>2, <1>3, <1>4, <1>5, <1>6 DEF TypeOK, Tracks
<1>8. Owned'
  BY <1>1, <1>2, <1>3, <1>5 DEF Owned, Tracks
<1>9. OwnWorkers' /\ NoGhost'
  BY <1>1, <1>2, <1>3, <1>4, <1>5, Connections DEF OwnWorkers, NoGhost
<1>10. Fresh'
  <2>1. opened \in Nat /\ conn \in Nat /\ \A k \in Kind : receiver[k] \in Nat
    BY <1>1, Numbers
  <2>2. \A k \in Kind : k \in todo' \/ k = hand => receiver[k] \notin {NoConn, to'}
    BY <1>1, <1>2, <1>3, <1>4, <1>5, <2>1 DEF Tracks, Fresh, Kind, NoKind
  <2>3. hand' \notin todo'
    BY <1>2, <1>5 DEF Kind, NoKind, Tracks
  <2>4. \A x \in Viewers : /\ track[x] \in Nat /\ Known(track[x], at[x])
                           /\ \A k \in Kind : parent[x][k] \in Nat /\ Known(parent[x][k], k)
    BY <1>1, Numbers DEF Fresh
  <2>5. \A x \in Viewers : /\ track[x] <= opened' /\ track[x] # to'
                           /\ \A k \in Kind : parent[x][k] <= opened' /\ parent[x][k] # to'
    BY <1>3, <1>4, <2>1, <2>4 DEF Known
  <2>6. /\ to' <= opened' /\ conn <= opened' /\ conn # to'
        /\ \A k \in Kind : receiver[k] <= opened'
    BY <1>1, <1>3, <1>4, <2>1 DEF Fresh
  <2> QED
    BY <1>2, <2>2, <2>3, <2>5, <2>6 DEF Fresh, Known
<1>11. OneTrack'
  <2>1. \A k \in Kind : receiver[k] # to'
    BY <1>1, <1>3, <1>4, Numbers DEF Fresh
  <2>2. \A k \in brings' \ (todo' \cup {hand'}) : receiver[k] = NoConn
    BY <1>2 DEF Tracks
  <2> QED
    BY <1>1, <1>2, <1>5, <2>1, <2>2 DEF OneTrack
<1>12. Locals' /\ Counted' /\ Holding'
  BY <1>1, <1>2 DEF Locals, Local, Playing, Counted, Joining, Holding, Tracks
<1>13. Attached'
  <2> SUFFICES ASSUME NEW x \in Viewers, NEW k \in Kind, sender'[x][k] = "open", <<x, k>> \notin raced'
               PROVE  Hangs(x, k)' /\ (pc'[x] = "on" => state' = "Start")
    BY DEF Attached
  <2>1. Hangs(x, k)
    BY <1>1, <1>2, <1>6 DEF Attached
  <2>2. hand # k
    BY <1>5 DEF Kind, NoKind
  <2>3. receiver[k] = conn /\ conn # NoConn /\ k \in Tracks /\ x \in childs[conn][k]
    BY <1>5, <2>1, <2>2 DEF Hangs, Tracks
  <2>4. k \in todo'
    BY <1>6, <2>3
  <2> QED
    BY <1>2, <1>5, <2>2, <2>3, <2>4 DEF Hangs
<1>14. Attaching'
  BY <1>2, <1>6 DEF Attaching
<1>15. Stopping' /\ Closing'
  BY <1>1, <1>2, <1>6 DEF Stopping, Joining, Closing
<1> QED
  BY <1>7, <1>8, <1>9, <1>10, <1>11, <1>12, <1>13, <1>14, <1>15 DEF IInv, OwnedInv

(* In a reconnection nobody who is not raced is about to get a track.      *)
LEMMA AttachingRaced ==
  ASSUME Attaching, moving # 0, UNCHANGED <<pc, at, raced>>
  PROVE  Attaching'
BY DEF Attaching

(* The children of a track go along with it.                               *)
LEMMA TakeStep ==
  ASSUME IInv, Take
  PROVE  IInv'
<1> DEFINE k == FirstOf(todo)
<1>1. /\ TypeOK /\ Owned /\ OwnWorkers /\ NoGhost /\ Fresh /\ OneTrack /\ Locals /\ Counted
      /\ Holding /\ Attached /\ Attaching /\ Stopping /\ Closing
  BY DEF IInv, OwnedInv
<1>2. /\ todo # {} /\ hand = NoKind /\ hand' = k /\ todo' = todo \ {k}
      /\ taken' = childs[receiver[k]][k]
      /\ childs' = [childs EXCEPT ![receiver[k]][k] = {}]
      /\ UNCHANGED <<producerVars, workers, moving, to, brings, connVars, deaths,
                     streamVars, viewerVars, senderVars, raced, left>>
  BY DEF Take
<1>3. k \in todo /\ k \in Kind /\ moving # 0 /\ receiver[k] \in Conn
  <2>1. k \in todo /\ k \in Kind
    BY <1>1, <1>2, Firsts DEF TypeOK
  <2> HIDE DEF k
  <2> QED
    BY <1>1, <1>2, <2>1 DEF TypeOK, Owned, Fresh
<1> HIDE DEF k
<1>4. /\ childs' \in [Conn -> [Kind -> SUBSET Viewers]] /\ taken' \in SUBSET Viewers
      /\ \A c \in Conn, j \in Kind : childs'[c][j] \subseteq childs[c][j]
      /\ \A c \in Conn, j \in Kind : j # k => childs'[c][j] = childs[c][j]
  BY <1>1, <1>2, <1>3 DEF TypeOK
<1>5. TypeOK'
  BY <1>1, <1>2, <1>3, <1>4 DEF TypeOK
<1>6. Owned' /\ OwnWorkers' /\ NoGhost'
  BY <1>1, <1>2, <1>3 DEF Owned, OwnWorkers, NoGhost, Tracks, Kind, NoKind
<1>7. Fresh'
  BY <1>1, <1>2, <1>3 DEF Fresh, Known
<1>8. OneTrack'
  BY <1>1, <1>2, <1>3 DEF OneTrack, TypeOK, Kind, NoKind
<1>9. Locals' /\ Counted' /\ Holding'
  BY <1>1, <1>2 DEF Locals, Local, Playing, Counted, Joining, Holding, Tracks
<1>10. Attached'
  <2> SUFFICES ASSUME NEW x \in Viewers, NEW j \in Kind, sender'[x][j] = "open", <<x, j>> \notin raced'
               PROVE  Hangs(x, j)' /\ (pc'[x] = "on" => state' = "Start")
    BY DEF Attached
  <2>1. Hangs(x, j) /\ (pc[x] = "on" => state = "Start")
    BY <1>1, <1>2 DEF Attached
  <2>2. x \in childs[receiver[j]][j] /\ receiver[j] \in Conn
    BY <1>1, <1>2, <2>1 DEF Hangs, Kind, NoKind, TypeOK
  <2>3. IF hand' = j THEN x \in taken' ELSE x \in childs'[receiver[j]][j]
    BY <1>2, <1>4, <2>2
  <2>4. receiver[j] = conn => j \in todo' \cup {hand'}
    BY <1>2, <1>3, <2>1 DEF Hangs, Kind, NoKind
  <2> QED
    BY <1>2, <2>1, <2>3, <2>4 DEF Hangs
<1>11. Attaching'
  BY <1>1, <1>2, <1>3, AttachingRaced
<1>12. Stopping'
  BY <1>1, <1>2 DEF Stopping, Joining
<1>13. Closing'
  <2>1. \A u \in Viewers : pc[u] = "cascade" => track[u] \in Conn /\ at[u] \in Kind
    BY <1>1 DEF Locals, Local, TypeOK
  <2> QED
    BY <1>1, <1>2, <1>4, <2>1, ClosingKept
<1> QED
  BY <1>5, <1>6, <1>7, <1>8, <1>9, <1>10, <1>11, <1>12, <1>13 DEF IInv, OwnedInv

(* The new connection's track is the producer's, with the same children.   *)
LEMMA GiveStep ==
  ASSUME IInv, Give
  PROVE  IInv'
<1>1. /\ TypeOK /\ Owned /\ OwnWorkers /\ NoGhost /\ Fresh /\ OneTrack /\ Locals /\ Counted
      /\ Holding /\ Attached /\ Attaching /\ Stopping /\ Closing
  BY DEF IInv, OwnedInv
<1>2. /\ hand \in Kind /\ moving # 0 /\ to \in Conn
      /\ childs' = [childs EXCEPT ![to][hand] = taken]
      /\ receiver' = [receiver EXCEPT ![hand] = to]
      /\ hand' = NoKind /\ taken' = {}
      /\ UNCHANGED <<state, conn, offers, workerID, workers, moving, to, brings, todo,
                     connVars, deaths, streamVars, viewerVars, sender, raced, left>>
  BY <1>1 DEF Give, TypeOK, Owned
<1>3. /\ parent' \in [Viewers -> [Kind -> Conn \cup {NoConn}]]
      /\ \A x \in Viewers, j \in Kind :
           \/ parent'[x][j] = parent[x][j]
           \/ parent'[x][j] = to /\ j = hand
  <2>1. parent' = [x \in Viewers |->
                     IF x \in taken /\ hand \in Playing(x)
                     THEN [parent[x] EXCEPT ![hand] = to] ELSE parent[x]]
    BY DEF Give
  <2> QED
    BY <1>1, <1>2, <2>1 DEF TypeOK
<1>4. /\ childs' \in [Conn -> [Kind -> SUBSET Viewers]] /\ childs'[to][hand] = taken
      /\ \A c \in Conn, j \in Kind : <<c, j>> # <<to, hand>> => childs'[c][j] = childs[c][j]
      /\ receiver' \in [Kind -> Conn \cup {NoConn}] /\ receiver'[hand] = to
      /\ \A j \in Kind : j # hand => receiver'[j] = receiver[j]
  BY <1>1, <1>2 DEF TypeOK
<1>5. receiver[hand] \notin {NoConn, to} /\ hand \notin todo /\ hand # NoKind
  BY <1>1, <1>2 DEF Fresh, Kind, NoKind
<1>6. Tracks' = Tracks
  BY <1>2, <1>4, <1>5, Connections DEF Tracks
<1>7. TypeOK'
  BY <1>1, <1>2, <1>3, <1>4 DEF TypeOK
<1>8. Owned' /\ OwnWorkers' /\ NoGhost'
  BY <1>1, <1>2, <1>6 DEF Owned, OwnWorkers, NoGhost
<1>9. Fresh'
  <2>1. ASSUME NEW c, NEW j \in Kind, Known(c, j)
        PROVE  c <= opened /\ (c = to => receiver'[j] = to)
    BY <1>2, <1>4, <2>1 DEF Known
  <2>2. to <= opened /\ conn <= opened /\ conn # to
    BY <1>1, <1>2 DEF Fresh
  <2>3. \A x \in Viewers : track[x] <= opened /\ (track[x] = to => receiver'[at[x]] = to)
    BY <1>1, <2>1 DEF Fresh, TypeOK
  <2>4. \A x \in Viewers, j \in Kind : Known(parent[x][j], j) /\ parent[x][j] \in Nat
    BY <1>1, Numbers DEF Fresh
  <2>5. \A x \in Viewers, j \in Kind : parent'[x][j] <= opened /\ (parent'[x][j] = to => receiver'[j] = to)
    BY <1>3, <1>4, <2>1, <2>2, <2>4
  <2>6. \A j \in Kind : /\ receiver'[j] <= opened
                        /\ j \in todo => receiver'[j] \notin {NoConn, to}
    BY <1>1, <1>4, <1>5 DEF Fresh
  <2>7. \A j \in Kind : j # NoKind
    BY DEF Kind, NoKind
  <2>8. hand' \notin todo'
    BY <1>1, <1>2, <2>7 DEF TypeOK
  <2> QED
    BY <1>2, <2>2, <2>3, <2>5, <2>6, <2>7, <2>8 DEF Fresh, Known
<1>10. OneTrack'
  BY <1>1, <1>2, <1>4, <1>5 DEF OneTrack
<1>11. Locals'
  <2>1. \A x \in Viewers : Local(x)
    BY <1>1 DEF Locals
  <2>2. \A x \in Viewers : \A j \in Playing(x) : parent'[x][j] \in Conn
    BY <1>2, <1>3, <2>1 DEF Local, Playing
  <2> QED
    BY <1>2, <2>1, <2>2 DEF Locals, Local, Playing
<1>12. Counted' /\ Holding'
  BY <1>1, <1>2, <1>6 DEF Counted, Joining, Holding
<1>13. Attached'
  <2> SUFFICES ASSUME NEW x \in Viewers, NEW j \in Kind, sender'[x][j] = "open", <<x, j>> \notin raced'
               PROVE  Hangs(x, j)' /\ (pc'[x] = "on" => state' = "Start")
    BY DEF Attached
  <2>1. Hangs(x, j) /\ (pc[x] = "on" => state = "Start")
    BY <1>1, <1>2 DEF Attached
  <2>2. CASE j = hand
    BY <1>1, <1>2, <1>4, <1>5, <2>1, <2>2, Connections DEF Hangs, Fresh
  <2>3. CASE j # hand
    <3>1. receiver[j] \in Conn /\ x \in childs[receiver[j]][j] /\ j # NoKind
      BY <1>1, <2>1, <2>3 DEF Hangs, TypeOK, Kind, NoKind
    <3> QED
      BY <1>2, <1>4, <2>1, <2>3, <3>1 DEF Hangs
  <2> QED
    BY <2>2, <2>3
<1>14. Attaching'
  BY <1>1, <1>2, AttachingRaced
<1>15. Stopping'
  BY <1>1, <1>2 DEF Stopping, Joining
<1>16. Closing'
  <2> SUFFICES ASSUME NEW u \in Viewers, NEW x \in Viewers, pc[u] = "cascade",
                      x \in childs'[track[u]][at[u]]
               PROVE  <<x, at[u]>> \in raced
    BY <1>2 DEF Closing
  <2>1. track[u] \in Conn /\ at[u] \in Kind /\ Known(track[u], at[u])
    BY <1>1 DEF Locals, Local, TypeOK, Fresh
  <2>2. <<track[u], at[u]>> # <<to, hand>>
    BY <1>2, <1>5, <2>1 DEF Known
  <2> QED
    BY <1>1, <1>4, <2>1, <2>2 DEF Closing
<1> QED
  BY <1>7, <1>8, <1>9, <1>10, <1>11, <1>12, <1>13, <1>14, <1>15, <1>16 DEF IInv, OwnedInv

(* Whoever is left on the connection before, which is stopped, is raced.   *)
LEMMA SwapStep ==
  ASSUME IInv, Swap
  PROVE  IInv'
<1>1. /\ TypeOK /\ Owned /\ OwnWorkers /\ NoGhost /\ Fresh /\ OneTrack /\ Locals /\ Counted
      /\ Holding /\ Attached /\ Attaching /\ Stopping /\ Closing
  BY DEF IInv, OwnedInv
<1>2. /\ moving # 0 /\ todo = {} /\ hand = NoKind /\ Stopped(conn)
      /\ conn' = to /\ offers' = brings
      /\ workers' = {w \in workers : w.id # moving} \cup {[id |-> moving, conn |-> to]}
      /\ moving' = 0 /\ to' = NoConn /\ brings' = {}
      /\ UNCHANGED <<state, workerID, receiver, todo, hand, taken, opened, deaths,
                     streamVars, viewerVars, senderVars, raced, left>>
  BY DEF Swap, Unlocked
<1>3. state = "Start" /\ moving = workerID /\ to \in Conn /\ conn \in Conn /\ conn # to
  BY <1>1, <1>2 DEF Owned, TypeOK, Fresh
<1>4. /\ status' \in [Conn -> {"none", "up", "down", "closed"}]
      /\ status'[conn] = "closed"
      /\ \A d \in Conn : d # conn => status'[d] = status[d]
      /\ childs' \in [Conn -> [Kind -> SUBSET Viewers]]
      /\ \A d \in Conn : d # conn => childs'[d] = childs[d]
      /\ \A d \in Conn, k \in Kind : childs'[d][k] \subseteq childs[d][k]
  BY <1>1, <1>2, <1>3, StoppedOnly
<1>5. [id |-> moving, conn |-> to] \in [id : Nat, conn : Conn]
  BY <1>1, <1>3 DEF TypeOK
<1>6. TypeOK'
  BY <1>1, <1>2, <1>3, <1>4, <1>5 DEF TypeOK
<1>7. Owned' /\ NoGhost'
  BY <1>1, <1>2, <1>3, <1>4, Connections DEF Owned, NoGhost, Tracks
<1>8. OwnWorkers'
  BY <1>1, <1>2, <1>3 DEF OwnWorkers
<1>9. Fresh'
  <2>1. NoConn <= opened
    BY <1>1, Numbers DEF TypeOK, NoConn
  <2> QED
    BY <1>1, <1>2, <1>3, <2>1 DEF Fresh, Known, Kind, NoKind
<1>10. OneTrack'
  <2>1. \A x \in Viewers : pc[x] = "gettrack" /\ track[x] = to => at[x] \in brings
    BY <1>1, <1>2 DEF Fresh, Known, OneTrack, TypeOK
  <2>2. \A k \in Kind : k \in brings => receiver[k] \in {NoConn, to}
    BY <1>1, <1>2 DEF OneTrack, Kind, NoKind
  <2> QED
    BY <1>2, <2>1, <2>2 DEF OneTrack
<1>11. Locals' /\ Counted' /\ Holding'
  BY <1>1, <1>2 DEF Locals, Local, Playing, Counted, Joining, Holding, Tracks
<1>12. Attached'
  <2> SUFFICES ASSUME NEW x \in Viewers, NEW k \in Kind, sender'[x][k] = "open", <<x, k>> \notin raced'
               PROVE  Hangs(x, k)' /\ (pc'[x] = "on" => state' = "Start")
    BY DEF Attached
  <2>1. Hangs(x, k) /\ k # NoKind
    BY <1>1, <1>2 DEF Attached, Kind, NoKind
  <2>2. receiver[k] = to /\ x \in childs[to][k]
    BY <1>2, <2>1 DEF Hangs
  <2> QED
    BY <1>2, <1>3, <1>4, <2>1, <2>2, Connections DEF Hangs
<1>13. Attaching'
  BY <1>1, <1>2, AttachingRaced
<1>14. Stopping'
  BY <1>1, <1>2 DEF Stopping, Joining
<1>15. Closing'
  <2>1. \A u \in Viewers : pc[u] = "cascade" => track[u] \in Conn /\ at[u] \in Kind
    BY <1>1 DEF Locals, Local, TypeOK
  <2> QED
    BY <1>1, <1>2, <1>4, <2>1, ClosingKept
<1> QED
  BY <1>6, <1>7, <1>8, <1>9, <1>10, <1>11, <1>12, <1>13, <1>14, <1>15 DEF IInv, OwnedInv

(* It holds at first.                                                      *)
LEMMA Beginning == Init => IInv
<1> SUFFICES ASSUME Init PROVE IInv
  OBVIOUS
<1>1. Tracks = {} /\ Joining = {}
  BY DEF Init, Tracks, Joining, JoinSteps
<1>2. TypeOK
  <2>1. /\ state \in {"None", "Medias", "Tracks", "Start"} /\ conn \in Conn \cup {NoConn}
        /\ workerID \in Nat /\ receiver \in [Kind -> Conn \cup {NoConn}] /\ offers \in SUBSET Kind
        /\ workers \in SUBSET [id : Nat, conn : Conn] /\ moving \in Nat /\ to \in Conn \cup {NoConn}
        /\ brings \in SUBSET Kind /\ todo \in SUBSET Kind /\ hand \in Kind \cup {NoKind}
        /\ taken \in SUBSET Viewers
    BY DEF Init
  <2>2. /\ opened \in 0 .. MaxConn /\ status \in [Conn -> {"none", "up", "down", "closed"}]
        /\ childs \in [Conn -> [Kind -> SUBSET Viewers]] /\ deaths \in 0 .. MaxDeaths
        /\ pending \in Int /\ lock \in Viewers \cup {NoViewer} /\ unchecked \in SUBSET Kind
        /\ consumers \in SUBSET Viewers
    BY DEF Init
  <2>3. /\ pc \in [Viewers -> Steps] /\ at \in [Viewers -> Kind]
        /\ track \in [Viewers -> Conn \cup {NoConn}]
    BY DEF Init, Steps, Kind
  <2>4. /\ sender \in [Viewers -> [Kind -> {"none", "open", "closed"}]]
        /\ parent \in [Viewers -> [Kind -> Conn \cup {NoConn}]]
        /\ raced \in SUBSET (Viewers \X Kind) /\ left \in BOOLEAN
    BY DEF Init
  <2> QED
    BY <2>1, <2>2, <2>3, <2>4 DEF TypeOK
<1>3. Owned /\ OwnWorkers /\ NoGhost
  BY <1>1, Connections DEF Init, Owned, OwnWorkers, NoGhost
<1>4. Fresh /\ OneTrack
  BY Connections DEF Init, Fresh, Known, OneTrack, Kind, NoKind, NoConn
<1>5. Locals
  BY DEF Init, Locals, Local, Playing, JoinSteps
<1>6. Counted
  BY <1>1, FS_EmptySet DEF Init, Counted
<1>7. Holding
  BY <1>1 DEF Init, Holding
<1>8. Attached /\ Attaching /\ Stopping /\ Closing
  BY DEF Init, Attached, Attaching, Stopping, Closing
<1> QED
  BY <1>2, <1>3, <1>4, <1>5, <1>6, <1>7, <1>8 DEF IInv, OwnedInv

(* Nothing happens.                                                        *)
LEMMA Stutter ==
  ASSUME IInv, UNCHANGED vars
  PROVE  IInv'
<1>1. OwnedInv' /\ Counted' /\ Holding'
  BY DEF vars, IInv, OwnedInv, TypeOK, Owned, OwnWorkers, NoGhost, Counted, Joining, Holding, Tracks
<1>2. Fresh' /\ OneTrack' /\ Locals'
  BY DEF vars, IInv, Fresh, Known, OneTrack, Locals, Local, Playing
<1>3. Attached' /\ Attaching' /\ Stopping' /\ Closing'
  BY DEF vars, IInv, Attached, Hangs, Attaching, Stopping, Joining, Closing
<1> QED
  BY <1>1, <1>2, <1>3 DEF IInv

(* Every step keeps it.                                                    *)
LEMMA Preserved == IInv /\ [Next]_vars => IInv'
<1> SUFFICES ASSUME IInv, [Next]_vars PROVE IInv'
  OBVIOUS
<1>1. ASSUME NEW v \in Viewers, AddConsumer(v) \/ Joins(v) PROVE IInv'
  BY <1>1, AddConsumerStep, DialStep, GetMediasStep, GetTrackStep, AddTrackStep, MatchedStep,
     RegisterStep, StartStep DEF Joins
<1>2. ASSUME NEW v \in Viewers, RemoveConsumer(v) \/ Leaves(v) PROVE IInv'
  BY <1>2, RemoveConsumerStep, CascadeStep, RemoveStep, LoadPendingStep, CheckSendersStep,
     CheckTrackStep, StopProducerStep DEF Leaves
<1>3. ASSUME NEW c \in Conn, SourceDies(c) PROVE IInv'
  BY <1>3, SourceDiesStep
<1>4. ASSUME NEW w \in workers, Works(w) PROVE IInv'
  BY <1>4, WorkerReturnsStep, ReconnectStep DEF Works
<1>5. CASE Moves
  BY <1>5, TakeStep, GiveStep, SwapStep DEF Moves
<1>6. CASE UNCHANGED vars \/ Finished
  BY <1>6, Stutter DEF Finished
<1> QED
  BY <1>1, <1>2, <1>3, <1>4, <1>5, <1>6 DEF Next

(* The invariant is one.                                                   *)
THEOREM Inductive == Spec => []IInv
BY Beginning, Preserved, PTL DEF Spec

(* Every variable keeps its type.                                          *)
THEOREM TypeCorrect == Spec => []TypeOK
<1>1. IInv => TypeOK
  BY DEF IInv, OwnedInv
<1> QED
  BY <1>1, Inductive, PTL

(* A viewer that AddConsumer accepted is on the producer's track with the  *)
(* video and with the audio it was given, unless that one was raced,       *)
(* whatever the others do.                                                 *)
THEOREM ServedHolds == Spec => []ServedUnlessRaced
<1>1. IInv => ServedUnlessRaced
  BY DEF IInv, Attached, Hangs, ServedUnlessRaced, Served, Playing
<1> QED
  BY <1>1, Inductive, PTL

(* No connection outlives the producer's use of it.                        *)
THEOREM NoGhostHolds == Spec => []NoGhost
<1>1. IInv => NoGhost
  BY DEF IInv, OwnedInv
<1> QED
  BY <1>1, Inductive, PTL

(* A producer that was started has its one worker, whatever stops, starts  *)
(* and reconnections overlapped.                                           *)
THEOREM OneWorkerHolds == Spec => []OneWorker
<1>1. IInv => OneWorker
  <2> SUFFICES ASSUME IInv PROVE OneWorker
    OBVIOUS
  <2>1. \A w \in workers : w = [id |-> w.id, conn |-> w.conn]
    BY DEF IInv, OwnedInv, TypeOK
  <2> QED
    BY <2>1 DEF IInv, OwnedInv, OwnWorkers, OneWorker
<1> QED
  BY <1>1, Inductive, PTL

-----------------------------------------------------------------------------
(* What is left behind when everybody has gone.                            *)

(* A child has its Sender open and is one of its parent only, and nobody is *)
(* both on a track and being moved with it: until a viewer leaves in the    *)
(* middle of a move, there is no child that nobody will ever take off.      *)
Hanging ==
  ~left => \A v \in Viewers :
    /\ v \in taken => hand \in Playing(v)
    /\ \A c \in Conn, k \in Kind : v \in childs[c][k] =>
         /\ k \in Playing(v) /\ parent[v][k] = c
         /\ hand = k => v \notin taken

(* Where children leave their tracks at most.                              *)
LEMMA HangingShrinks ==
  ASSUME Hanging, UNCHANGED <<taken, hand, sender, parent, left>>,
         \A c \in Conn, k \in Kind : childs'[c][k] \subseteq childs[c][k]
  PROVE  Hanging'
BY DEF Hanging, Playing

(* A Sender leaves the track that it hangs on.                             *)
LEMMA CloseSenderHanging ==
  ASSUME IInv, Hanging, NEW v \in Viewers, NEW k \in Kind, sender[v][k] = "open", CloseSender(v, k)
  PROVE  Hanging'
<1>1. /\ childs \in [Conn -> [Kind -> SUBSET Viewers]] /\ left \in BOOLEAN
      /\ sender \in [Viewers -> [Kind -> {"none", "open", "closed"}]]
      /\ parent \in [Viewers -> [Kind -> Conn \cup {NoConn}]]
      /\ parent[v][k] \in Conn
  BY DEF IInv, OwnedInv, TypeOK, Locals, Local, Playing
<1>2. /\ sender' = [sender EXCEPT ![v][k] = "closed"]
      /\ childs' = [childs EXCEPT ![parent[v][k]][k] = @ \ {v}]
      /\ parent' = [parent EXCEPT ![v][k] = NoConn]
      /\ left' = (left \/ (hand = k /\ v \in taken)) /\ UNCHANGED <<hand, taken>>
  BY DEF CloseSender
<1>3. /\ \A c \in Conn, j \in Kind : childs'[c][j] \subseteq childs[c][j]
      /\ v \notin childs'[parent[v][k]][k]
      /\ \A x \in Viewers, j \in Kind : <<x, j>> # <<v, k>> =>
           sender'[x][j] = sender[x][j] /\ parent'[x][j] = parent[x][j]
  BY <1>1, <1>2
<1> SUFFICES ASSUME ~left', ~left, NEW x \in Viewers
             PROVE  /\ x \in taken => sender'[x][hand] = "open" /\ hand \in Kind
                    /\ \A c \in Conn, j \in Kind : x \in childs'[c][j] =>
                         /\ sender'[x][j] = "open" /\ parent'[x][j] = c
                         /\ hand = j => x \notin taken
  BY <1>1, <1>2 DEF Hanging, Playing
<1>4. x \in taken => sender'[x][hand] = "open" /\ hand \in Kind
  <2>1. ~(hand = k /\ v \in taken)
    BY <1>2, Zenon
  <2>2. x \in taken => sender[x][hand] = "open" /\ hand \in Kind
    BY DEF Hanging, Playing
  <2> QED
    BY <1>3, <2>1, <2>2
<1>5. ASSUME NEW c \in Conn, NEW j \in Kind, x \in childs'[c][j]
      PROVE  /\ sender'[x][j] = "open" /\ parent'[x][j] = c
             /\ hand = j => x \notin taken
  <2>1. sender[x][j] = "open" /\ parent[x][j] = c /\ (hand = j => x \notin taken)
    BY <1>3, <1>5 DEF Hanging, Playing
  <2>2. <<x, j>> # <<v, k>>
    BY <1>3, <1>5, <2>1
  <2> QED
    BY <1>3, <2>1, <2>2
<1> QED
  BY <1>4, <1>5

(* Every step keeps it.                                                    *)
LEMMA HangingKept ==
  ASSUME IInv, Hanging, [Next]_vars
  PROVE  Hanging'
<1>1. /\ childs \in [Conn -> [Kind -> SUBSET Viewers]]
      /\ sender \in [Viewers -> [Kind -> {"none", "open", "closed"}]]
      /\ parent \in [Viewers -> [Kind -> Conn \cup {NoConn}]]
      /\ TypeOK /\ Owned /\ Locals /\ Fresh
  BY DEF IInv, OwnedInv, TypeOK
<1>2. CASE UNCHANGED <<childs, taken, hand, sender, parent, left>>
  BY <1>2, HangingShrinks
<1>3. ASSUME NEW v \in Viewers, AddTrack(v) PROVE Hanging'
  <2> DEFINE c == track[v]
             k == at[v]
  <2>1. c \in Conn /\ k \in Kind /\ sender[v][k] = "none"
    BY <1>1, <1>3 DEF AddTrack, TypeOK, Locals, Local, JoinSteps
  <2>2. /\ childs' = [childs EXCEPT ![c][k] = @ \cup {v}]
        /\ parent' = [parent EXCEPT ![v][k] = c]
        /\ sender' = [sender EXCEPT ![v][k] = "open"] /\ UNCHANGED <<taken, hand, left>>
    BY <1>3 DEF AddTrack
  <2> HIDE DEF c, k
  <2>3. /\ \A d \in Conn, j \in Kind, x \in Viewers :
             x \in childs'[d][j] => x \in childs[d][j] \/ (d = c /\ j = k /\ x = v)
        /\ sender'[v][k] = "open" /\ parent'[v][k] = c
        /\ \A x \in Viewers, j \in Kind : <<x, j>> # <<v, k>> =>
             sender'[x][j] = sender[x][j] /\ parent'[x][j] = parent[x][j]
    BY <1>1, <2>1, <2>2
  <2> SUFFICES ASSUME ~left, NEW x \in Viewers
               PROVE  /\ x \in taken => sender'[x][hand] = "open" /\ hand \in Kind
                      /\ \A d \in Conn, j \in Kind : x \in childs'[d][j] =>
                           /\ sender'[x][j] = "open" /\ parent'[x][j] = d
                           /\ hand = j => x \notin taken
    BY <2>2 DEF Hanging, Playing
  <2>4. x \in taken => sender'[x][hand] = "open" /\ hand \in Kind
    BY <2>3 DEF Hanging, Playing
  <2>5. ASSUME NEW d \in Conn, NEW j \in Kind, x \in childs'[d][j]
        PROVE  /\ sender'[x][j] = "open" /\ parent'[x][j] = d
               /\ hand = j => x \notin taken
    <3>1. CASE x \in childs[d][j]
      BY <2>1, <2>3, <3>1 DEF Hanging, Playing
    <3>2. CASE x \notin childs[d][j]
      BY <2>1, <2>3, <2>5, <3>2 DEF Hanging, Playing
    <3> QED
      BY <3>1, <3>2
  <2> QED
    BY <2>4, <2>5
<1>4. ASSUME NEW v \in Viewers, RemoveConsumer(v) \/ CloseNext(v) PROVE Hanging'
  <2>1. PICK k \in Kind : sender[v][k] = "open" /\ CloseSender(v, k)
    <3>1. Playing(v) \in SUBSET Kind /\ Local(v) /\ at[v] \in Kind
      BY <1>1 DEF Playing, Locals, TypeOK
    <3>2. CASE RemoveConsumer(v)
      <4>1. Playing(v) # {}
        BY <3>1, <3>2 DEF RemoveConsumer, Local
      <4> QED
        BY <3>1, <3>2, <4>1, Firsts DEF RemoveConsumer, Playing
    <3>3. CASE CloseNext(v)
      BY <3>1, <3>3 DEF CloseNext, Local
    <3> QED
      BY <1>4, <3>2, <3>3
  <2> QED
    BY <2>1, CloseSenderHanging
<1>5. ASSUME NEW v \in Viewers, Cascade(v) PROVE Hanging'
  <2>1. track[v] \in Conn /\ at[v] \in Kind
    BY <1>1, <1>5 DEF Cascade, TypeOK, Locals, Local
  <2>2. PICK rest \in SUBSET childs[track[v]][at[v]] : childs' = [childs EXCEPT ![track[v]][at[v]] = rest]
    BY <1>5, <2>1 DEF Cascade, Skipped
  <2>3. \A c \in Conn, k \in Kind : childs'[c][k] \subseteq childs[c][k]
    BY <1>1, <2>1, <2>2
  <2> QED
    BY <1>5, <2>3, HangingShrinks DEF Cascade
<1>6. ASSUME NEW v \in Viewers, StopProducer(v) PROVE Hanging'
  <2>1. state # "None" => conn \in Conn /\ Stopped(conn)
    BY <1>1, <1>6 DEF StopProducer, Owned, TypeOK
  <2>2. state = "None" => childs' = childs
    BY <1>6 DEF StopProducer
  <2>3. \A c \in Conn, k \in Kind : childs'[c][k] \subseteq childs[c][k]
    BY <1>1, <2>1, <2>2, StoppedOnly
  <2> QED
    BY <1>6, <2>3, HangingShrinks DEF StopProducer
<1>7. CASE Take
  <2> DEFINE k == FirstOf(todo)
  <2>1. k \in Kind /\ receiver[k] \in Conn /\ hand = NoKind
    <3>1. k \in todo /\ k \in Kind /\ hand = NoKind
      BY <1>1, <1>7, Firsts DEF Take, TypeOK
    <3> HIDE DEF k
    <3> QED
      BY <1>1, <3>1 DEF TypeOK, Fresh
  <2>2. /\ hand' = k /\ taken' = childs[receiver[k]][k]
        /\ childs' = [childs EXCEPT ![receiver[k]][k] = {}]
        /\ UNCHANGED <<sender, parent, left>>
    BY <1>7 DEF Take
  <2> HIDE DEF k
  <2>3. /\ \A d \in Conn, j \in Kind : childs'[d][j] \subseteq childs[d][j]
        /\ childs'[receiver[k]][k] = {}
    BY <1>1, <2>1, <2>2
  <2> QED
    BY <2>1, <2>2, <2>3 DEF Hanging, Playing
<1>8. CASE Give
  <2>1. hand \in Kind /\ to \in Conn /\ NoKind \notin Kind
    BY <1>1, <1>8 DEF Give, TypeOK, Owned, Kind, NoKind
  <2>2. /\ childs' = [childs EXCEPT ![to][hand] = taken]
        /\ parent' = [v \in Viewers |->
                        IF v \in taken /\ hand \in Playing(v)
                        THEN [parent[v] EXCEPT ![hand] = to] ELSE parent[v]]
        /\ hand' = NoKind /\ taken' = {} /\ UNCHANGED <<sender, left>>
    BY <1>8 DEF Give
  <2>3. /\ childs'[to][hand] = taken
        /\ \A d \in Conn, j \in Kind : <<d, j>> # <<to, hand>> => childs'[d][j] = childs[d][j]
        /\ \A x \in Viewers : x \in taken /\ hand \in Playing(x) => parent'[x][hand] = to
        /\ \A x \in Viewers, j \in Kind : j # hand \/ x \notin taken => parent'[x][j] = parent[x][j]
    BY <1>1, <2>1, <2>2
  <2> QED
    BY <2>1, <2>2, <2>3 DEF Hanging, Playing
<1>9. CASE Swap
  <2>1. conn \in Conn
    BY <1>1, <1>9 DEF Swap, Unlocked, Owned, TypeOK
  <2>2. \A c \in Conn, k \in Kind : childs'[c][k] \subseteq childs[c][k]
    BY <1>1, <1>9, <2>1, StoppedOnly DEF Swap
  <2> QED
    BY <1>9, <2>2, HangingShrinks DEF Swap
<1>10. ASSUME NEW v \in Viewers, AddConsumer(v) \/ Joins(v), ~AddTrack(v)
       PROVE  UNCHANGED <<childs, taken, hand, sender, parent, left>>
  BY <1>10 DEF AddConsumer, Joins, Dial, GetMedias, GetTrack, Matched, Register, Start
<1>11. ASSUME NEW v \in Viewers, Remove(v) \/ LoadPending(v) \/ CheckSenders(v) \/ CheckTrack(v)
       PROVE  UNCHANGED <<childs, taken, hand, sender, parent, left>>
  BY <1>11 DEF Remove, LoadPending, CheckSenders, CheckTrack
<1>12. ASSUME NEW w \in workers, Works(w)
       PROVE  UNCHANGED <<childs, taken, hand, sender, parent, left>>
  BY <1>12 DEF Works, WorkerReturns, Reconnect
<1>13. ASSUME NEW c \in Conn, SourceDies(c) PROVE Hanging'
  BY <1>13, <1>2 DEF SourceDies
<1>14. CASE UNCHANGED vars \/ Finished
  BY <1>2, <1>14 DEF Finished, vars
<1> QED
  BY <1>2, <1>3, <1>4, <1>5, <1>6, <1>7, <1>8, <1>9, <1>10, <1>11, <1>12, <1>13, <1>14
     DEF Next, Leaves, Moves

(* A viewer that is on its way in or out.                                  *)
Busy(v) == pc[v] \notin {"idle", "gone", "failed"}

(* While joins are pending, one of them is there.                          *)
LEMMA PendingBusy ==
  ASSUME Counted, pending > 0
  PROVE  \E v \in Viewers : pc[v] \in {"dial", "medias", "gettrack", "addtrack", "done"}
<1>1. Joining # {}
  BY FS_EmptySet DEF Counted
<1> QED
  BY <1>1 DEF Joining, JoinSteps

(* A viewer with an open Sender has not gone.                              *)
LEMMA OpenBusy ==
  ASSUME Locals, NEW v \in Viewers, NEW k \in Kind, sender[v][k] = "open"
  PROVE  Busy(v)
BY DEF Locals, Local, Playing, Busy

(* Whoever is the last to go has stopped the producer: one that does not   *)
(* stop it leaves it to a pending join or to a child of its tracks.        *)
LEMMA IdleReleasedKept ==
  ASSUME IInv, Hanging, IdleReleased, [Next]_vars
  PROVE  IdleReleased'
<1>1. pc \in [Viewers -> Steps] /\ TypeOK /\ Locals
  BY DEF IInv, OwnedInv, TypeOK
<1>2. IdleReleased <=> (state = "None" \/ left \/ \E v \in Viewers : Busy(v))
  BY DEF IdleReleased, Busy
<1>3. IdleReleased' <=> (state' = "None" \/ left' \/ \E v \in Viewers : Busy(v)')
  BY DEF IdleReleased, Busy
<1>4. CASE UNCHANGED <<state, left, pc>>
  BY <1>4, <1>2, <1>3 DEF Busy
<1>5. ASSUME NEW v \in Viewers, NEW next \in Steps \ {"idle", "gone", "failed"}, Step(v, next)
      PROVE  IdleReleased'
  BY <1>1, <1>3, <1>5 DEF Step, Busy
<1>6. ASSUME NEW v \in Viewers, NEW u \in Viewers, u # v, Busy(u), NEW next, Step(v, next)
      PROVE  IdleReleased'
  BY <1>1, <1>3, <1>6 DEF Step, Busy
<1>7. ASSUME NEW v \in Viewers, AddConsumer(v) \/ Joins(v), ~Matched(v) PROVE IdleReleased'
  <2>1. \E next \in {"dial", "medias", "gettrack", "addtrack", "done", "start", "on"} : Step(v, next)
    BY <1>7 DEF AddConsumer, Joins, Dial, GetMedias, GetTrack, AddTrack, Register, Start, Turn
  <2> QED
    BY <2>1, <1>5 DEF Steps
<1>8. ASSUME NEW v \in Viewers, Matched(v) PROVE IdleReleased'
  <2>1. CASE pending = 1
    BY <2>1, <1>5, <1>8 DEF Matched, Steps
  <2>2. CASE pending # 1
    <3>1. pending = Cardinality(Joining) /\ v \in Joining /\ Joining # {v}
      BY <2>2, <1>8, FS_Singleton DEF Matched, Joining, JoinSteps, IInv, Counted
    <3>2. PICK u \in Joining : u # v
      BY <3>1
    <3>3. u \in Viewers /\ Busy(u)
      BY <3>2 DEF Joining, JoinSteps, Busy
    <3>4. \E next : Step(v, next)
      BY <1>8 DEF Matched
    <3> QED
      BY <3>2, <3>3, <3>4, <1>6
  <2> QED
    BY <2>1, <2>2
<1>9. ASSUME NEW v \in Viewers, RemoveConsumer(v) \/ CloseNext(v) \/ Cascade(v) \/ Remove(v)
      PROVE  IdleReleased'
  <2>1. \E next \in {"leave", "cascade", "remove", "load"} : Step(v, next)
    BY <1>9 DEF RemoveConsumer, CloseNext, CloseSender, Cascade, Remove, Turn
  <2> QED
    BY <2>1, <1>5 DEF Steps
<1>10. ASSUME NEW v \in Viewers, LoadPending(v) PROVE IdleReleased'
  <2>1. CASE pending > 0
    <3>1. PICK u \in Viewers : pc[u] \in {"dial", "medias", "gettrack", "addtrack", "done"}
      BY <2>1, PendingBusy DEF IInv
    <3>2. u # v /\ Busy(u) /\ \E next : Step(v, next)
      BY <3>1, <1>10 DEF LoadPending, Busy
    <3> QED
      BY <3>2, <1>6
  <2>2. CASE ~(pending > 0)
    BY <2>2, <1>5, <1>10 DEF LoadPending, Steps
  <2> QED
    BY <2>1, <2>2
<1>11. ASSUME NEW v \in Viewers, CheckSenders(v) PROVE IdleReleased'
  <2>1. Step(v, "stop") \/ Step(v, "senders")
    BY <1>11 DEF CheckSenders
  <2> QED
    BY <2>1, <1>5 DEF Steps
<1>12. ASSUME NEW v \in Viewers, CheckTrack(v) PROVE IdleReleased'
  <2>1. PICK k \in unchecked :
           IF childs[receiver[k]][k] # {} THEN Step(v, Returned(v))
                                          ELSE Step(v, "stop") \/ Step(v, "senders")
    BY <1>12 DEF CheckTrack
  <2>2. k \in Kind /\ receiver[k] \in Conn /\ UNCHANGED left /\ pc[v] = "senders"
    BY <1>1, <1>12 DEF CheckTrack, TypeOK, IInv, Holding, Tracks
  <2>3. CASE childs[receiver[k]][k] = {}
    BY <2>1, <2>3, <1>5 DEF Steps
  <2>4. CASE childs[receiver[k]][k] # {} /\ ~left
    <3>1. PICK u \in childs[receiver[k]][k] : TRUE
      BY <2>4
    <3>2. u \in Viewers
      BY <1>1, <2>2, <3>1 DEF TypeOK
    <3>3. sender[u][k] = "open"
      BY <2>2, <2>4, <3>1, <3>2 DEF Hanging, Playing
    <3>4. Busy(u)
      BY <1>1, <2>2, <3>2, <3>3, OpenBusy
    <3>5. CASE u = v
      <4>1. Playing(v) # {} /\ \A j \in Kind : sender[v][j] # "closed"
        BY <1>1, <2>2, <3>3, <3>5 DEF Locals, Local, Playing
      <4>2. Returned(v) = "register"
        BY <4>1 DEF Returned
      <4> QED
        BY <1>5, <2>1, <2>4, <4>2 DEF Steps
    <3>6. CASE u # v
      BY <1>6, <2>1, <2>4, <3>2, <3>4, <3>6
    <3> QED
      BY <3>5, <3>6
  <2>5. CASE left
    BY <1>3, <2>2, <2>5
  <2> QED
    BY <2>3, <2>4, <2>5
<1>13. ASSUME NEW v \in Viewers, StopProducer(v) PROVE IdleReleased'
  BY <1>3, <1>13 DEF StopProducer
<1>14. ASSUME NEW w \in workers, Works(w) PROVE IdleReleased'
  <2>1. UNCHANGED <<state, left, pc>>
    BY <1>14 DEF Works, WorkerReturns, Reconnect
  <2> QED
    BY <2>1, <1>4
<1>15. CASE UNCHANGED vars \/ Finished \/ Moves
  BY <1>4, <1>15 DEF Finished, Moves, Take, Give, Swap, vars
<1>16. ASSUME NEW c \in Conn, SourceDies(c) PROVE IdleReleased'
  BY <1>4, <1>16 DEF SourceDies
<1> QED
  BY <1>7, <1>8, <1>9, <1>10, <1>11, <1>12, <1>13, <1>14, <1>15, <1>16 DEF Next, Leaves

(* When the last viewer has gone and nobody is coming, the producer is     *)
(* stopped, however joins, leaves and reconnections overlapped, in the     *)
(* video, in the audio or in both, unless a viewer left while one of its   *)
(* tracks was being moved.                                                 *)
THEOREM IdleReleasedHolds == Spec => []IdleReleased
<1>1. Init => Hanging /\ IdleReleased
  BY DEF Init, Hanging, IdleReleased
<1>2. IInv /\ Hanging /\ IdleReleased /\ [Next]_vars => Hanging' /\ IdleReleased'
  BY HangingKept, IdleReleasedKept
<1> QED
  BY <1>1, <1>2, Inductive, PTL DEF Spec

-----------------------------------------------------------------------------
(* Why the calls return: the two locks are never waited for in a circle,   *)
(* and a call has only so many steps.  (That the steps are then taken is   *)
(* fairness, and CallsReturn is checked with TLC.)                         *)

(* What a call that cannot go on waits for: the lock of the stream, or the *)
(* producer's.                                                             *)
AwaitsLock(v) == pc[v] \in {"register", "remove", "check"} /\ lock # NoViewer

AwaitsMove(v) == pc[v] \in {"dial", "medias", "gettrack", "start", "stop"} /\ ~Unlocked

(* A viewer that waits for the stream's lock waits for another, which      *)
(* looks at a track, or is about to stop the producer and waits for a      *)
(* reconnection at most; and a reconnection, which waits for nobody, has   *)
(* its worker, both the connections that it exchanges, and a track to take *)
(* the children from for each kind that it has still to move.              *)
NoCircularWait ==
  /\ \A v \in Viewers : AwaitsLock(v) =>
       /\ lock \in Viewers \ {v} /\ ~AwaitsLock(lock)
       /\ pc[lock] = "stop" \/ (pc[lock] = "senders" /\ unchecked # {})
  /\ ~Unlocked => /\ conn \in Conn /\ to \in Conn \ {conn}
                  /\ [id |-> moving, conn |-> conn] \in workers
                  /\ \A k \in todo : receiver[k] \in Conn \ {to}

(* For any number of viewers, joining, leaving and being reconnected in    *)
(* any order: nobody waits in a circle.  StopProducer takes the producer's *)
(* lock inside the stream's; nothing takes them the other way round.       *)
THEOREM NobodyCircles == Spec => []NoCircularWait
<1>1. IInv => NoCircularWait
  <2> SUFFICES ASSUME IInv PROVE NoCircularWait
    OBVIOUS
  <2>1. TypeOK /\ Owned /\ OwnWorkers /\ Fresh /\ Holding
    BY DEF IInv, OwnedInv
  <2>2. ASSUME NEW v \in Viewers, AwaitsLock(v)
        PROVE  /\ lock \in Viewers \ {v} /\ ~AwaitsLock(lock)
               /\ pc[lock] = "stop" \/ (pc[lock] = "senders" /\ unchecked # {})
    <3>1. lock \in Viewers
      BY <2>1, <2>2 DEF AwaitsLock, TypeOK
    <3> QED
      BY <2>1, <2>2, <3>1 DEF AwaitsLock, Holding
  <2>3. ASSUME moving # 0
        PROVE  /\ conn \in Conn /\ to \in Conn \ {conn} /\ [id |-> moving, conn |-> conn] \in workers
               /\ \A k \in todo : receiver[k] \in Conn \ {to}
    <3>1. state = "Start" /\ moving = workerID /\ to \in Conn /\ conn \in Conn /\ conn # to
      BY <2>1, <2>3 DEF TypeOK, Owned, Fresh
    <3>2. \A k \in todo : receiver[k] \in Conn \ {to}
      BY <2>1 DEF TypeOK, Fresh
    <3> QED
      BY <2>1, <3>1, <3>2 DEF OwnWorkers
  <2> QED
    BY <2>2, <2>3 DEF NoCircularWait, Unlocked
<1> QED
  BY <1>1, Inductive, PTL

(* Once more for the audio, or not.                                        *)
Again(k) == IF k = "video" THEN 1 ELSE 0

(* From a step, for kind k, with n tracks still to be looked at: how many  *)
(* steps there are to the end of the call, at most.                        *)
StepsFrom(s, k, n) ==
  CASE s = "dial" -> 13 + 4 * Again(k)
    [] s = "medias" -> 12 + 4 * Again(k)
    [] s = "gettrack" -> 11 + 4 * Again(k)
    [] s = "addtrack" -> 10 + 4 * Again(k)
    [] s = "leave" -> 11
    [] s = "cascade" -> 10 + 2 * Again(k)
    [] s = "remove" -> 9
    [] s = "done" -> 9
    [] s = "load" -> 8
    [] s = "check" -> 7
    [] s = "senders" -> 4 + n
    [] s = "stop" -> 4
    [] s = "register" -> 3
    [] s = "start" -> 1 + Again(k)
    [] OTHER -> 0

Ahead(v) == StepsFrom(pc[v], at[v], Cardinality(unchecked))

(* Each step of a call brings it nearer to its end, and nobody else's step *)
(* takes it back.                                                          *)
CallsAdvance ==
  \A v \in Viewers :
    /\ AddConsumer(v) => Ahead(v)' = 17
    /\ RemoveConsumer(v) => Ahead(v)' <= 12
    /\ Joins(v) \/ Leaves(v) => Ahead(v)' < Ahead(v)
    /\ Ahead(v)' > Ahead(v) => AddConsumer(v) \/ RemoveConsumer(v)

(* As many kinds as there are.                                             *)
LEMMA Kinds ==
  /\ \A K \in SUBSET Kind : Cardinality(K) \in 0 .. 2
  /\ \A K \in SUBSET Kind : \A k \in K : Cardinality(K \ {k}) = Cardinality(K) - 1
<1>1. Kind = {"video"} \cup {"audio"} /\ IsFiniteSet({"video"}) /\ Cardinality({"video"}) = 1
  BY FS_Singleton DEF Kind
<1>2. IsFiniteSet(Kind) /\ Cardinality(Kind) = 2
  <2>1. "audio" \notin {"video"}
    OBVIOUS
  <2> QED
    BY <1>1, <2>1, FS_AddElement
<1>3. ASSUME NEW K \in SUBSET Kind PROVE IsFiniteSet(K) /\ Cardinality(K) \in Nat /\ Cardinality(K) <= 2
  BY <1>2, FS_Subset, FS_CardinalityType
<1>4. ASSUME NEW K \in SUBSET Kind, NEW k \in K
      PROVE  Cardinality(K \ {k}) = Cardinality(K) - 1
  BY <1>3, FS_RemoveElement
<1>5. \A n \in Nat : n <= 2 => n \in 0 .. 2
  OBVIOUS
<1> QED
  BY <1>3, <1>4, <1>5

(* What comes after each kind.                                             *)
LEMMA KindOrder ==
  \A k \in Kind :
    \/ k = "video" /\ Again(k) = 1 /\ After(k) = {"audio"} /\ FirstOf(After(k)) = "audio"
    \/ k = "audio" /\ Again(k) = 0 /\ After(k) = {}
BY DEF Kind, Again, After, FirstOf

(* The number of each step.                                                *)
LEMMA StepsFromEach ==
  ASSUME NEW k, NEW n
  PROVE  /\ StepsFrom("dial", k, n) = 13 + 4 * Again(k)
         /\ StepsFrom("medias", k, n) = 12 + 4 * Again(k)
         /\ StepsFrom("gettrack", k, n) = 11 + 4 * Again(k)
         /\ StepsFrom("addtrack", k, n) = 10 + 4 * Again(k)
         /\ StepsFrom("leave", k, n) = 11 /\ StepsFrom("cascade", k, n) = 10 + 2 * Again(k)
         /\ StepsFrom("remove", k, n) = 9 /\ StepsFrom("done", k, n) = 9
         /\ StepsFrom("load", k, n) = 8 /\ StepsFrom("check", k, n) = 7
         /\ StepsFrom("senders", k, n) = 4 + n /\ StepsFrom("stop", k, n) = 4
         /\ StepsFrom("register", k, n) = 3 /\ StepsFrom("start", k, n) = 1 + Again(k)
         /\ StepsFrom("on", k, n) = 0 /\ StepsFrom("gone", k, n) = 0
         /\ StepsFrom("failed", k, n) = 0
BY DEF StepsFrom

(* Where a step, or a turn, leads.                                         *)
LEMMA Leads ==
  ASSUME TypeOK, NEW v \in Viewers
  PROVE  /\ at[v] \in Kind
         /\ \A s : Step(v, s) => pc'[v] = s
         /\ at' = at => at'[v] = at[v]
         /\ \A K \in SUBSET Kind : \A next, end : Turn(v, K, next, end) =>
              /\ pc'[v] = IF K = {} THEN end ELSE next
              /\ at'[v] = FirstOf(K)
BY DEF TypeOK, Step, Turn

(* AddConsumer, once it has begun.                                         *)
LEMMA JoinsAdvance ==
  ASSUME IInv, TypeOK', NEW v \in Viewers, Joins(v)
  PROVE  Ahead(v)' < Ahead(v)
<1>1. TypeOK /\ Locals
  BY DEF IInv, OwnedInv
<1> DEFINE n == Cardinality(unchecked)
           m == Cardinality(unchecked')
<1>2. n \in 0 .. 2 /\ m \in 0 .. 2
  BY <1>1, Kinds DEF TypeOK
<1>3. Ahead(v) = StepsFrom(pc[v], at[v], n) /\ Ahead(v)' = StepsFrom(pc'[v], at'[v], m)
  BY DEF Ahead
<1> HIDE DEF n, m
<1>4. at[v] \in Kind
  BY <1>1, Leads
<1>5. ASSUME NEW K \in SUBSET After(at[v]), Turn(v, K, "dial", "done"),
             pc[v] \in {"dial", "medias", "gettrack", "addtrack"}
      PROVE  Ahead(v)' < Ahead(v)
  <2>1. K \in SUBSET Kind
    BY <1>4, Firsts
  <2>2. pc'[v] = (IF K = {} THEN "done" ELSE "dial") /\ at'[v] = FirstOf(K)
    BY <1>1, <1>5, <2>1, Leads
  <2>3. CASE K = {}
    BY <1>3, <1>4, <1>5, <2>2, <2>3, KindOrder, StepsFromEach
  <2>4. CASE K # {}
    <3>1. at[v] = "video" /\ K = {"audio"} /\ Again(at[v]) = 1
      BY <1>4, <2>4, KindOrder
    <3>2. at'[v] = "audio" /\ Again(at'[v]) = 0
      BY <2>2, <3>1 DEF FirstOf, Again
    <3> QED
      BY <1>3, <1>5, <2>2, <2>4, <3>1, <3>2, StepsFromEach
  <2> QED
    BY <2>3, <2>4
<1>6. CASE Dial(v)
  <2>1. pc[v] = "dial" /\ ((Step(v, "medias") /\ at' = at) \/ Turn(v, {}, "dial", "done"))
    BY <1>6 DEF Dial
  <2>2. CASE Step(v, "medias") /\ at' = at
    BY <1>1, <1>3, <1>4, <2>1, <2>2, Leads, KindOrder, StepsFromEach
  <2> QED
    BY <1>5, <2>1, <2>2
<1>7. CASE GetMedias(v)
  <2>1. pc[v] = "medias" /\ ((Step(v, "gettrack") /\ at' = at) \/ Turn(v, After(at[v]), "dial", "done"))
    BY <1>7 DEF GetMedias
  <2>2. CASE Step(v, "gettrack") /\ at' = at
    BY <1>1, <1>3, <1>4, <2>1, <2>2, Leads, KindOrder, StepsFromEach
  <2> QED
    BY <1>5, <2>1, <2>2
<1>8. CASE GetTrack(v)
  <2>1. pc[v] = "gettrack" /\ ((Step(v, "addtrack") /\ at' = at) \/ Turn(v, {}, "dial", "done"))
    BY <1>8 DEF GetTrack
  <2>2. CASE Step(v, "addtrack") /\ at' = at
    BY <1>1, <1>3, <1>4, <2>1, <2>2, Leads, KindOrder, StepsFromEach
  <2> QED
    BY <1>5, <2>1, <2>2
<1>9. CASE AddTrack(v)
  BY <1>5, <1>9 DEF AddTrack
<1>10. CASE Matched(v)
  <2>1. pc[v] = "done" /\ (Step(v, "load") \/ Step(v, Returned(v)))
    BY <1>10 DEF Matched
  <2>2. pc'[v] \in {"load", "gone", "register", "failed"}
    BY <1>1, <2>1, Leads, ReturnedWhere
  <2> QED
    BY <1>3, <2>1, <2>2, StepsFromEach
<1>11. CASE Register(v)
  <2>1. pc[v] = "register" /\ Turn(v, Playing(v), "start", "on") /\ Playing(v) \in SUBSET Kind
    BY <1>11 DEF Register, Playing
  <2>2. pc'[v] \in {"start", "on"}
    BY <1>1, <2>1, Leads
  <2>3. Again(at'[v]) \in {0, 1}
    BY DEF Again
  <2> QED
    BY <1>3, <2>1, <2>2, <2>3, StepsFromEach
<1>12. CASE Start(v)
  <2> DEFINE K == Playing(v) \cap After(at[v])
  <2>1. pc[v] = "start" /\ Turn(v, K, "start", "on") /\ K \in SUBSET Kind
    BY <1>12 DEF Start, Playing
  <2> HIDE DEF K
  <2>2. pc'[v] = (IF K = {} THEN "on" ELSE "start") /\ at'[v] = FirstOf(K)
    BY <1>1, <2>1, Leads
  <2>3. CASE K = {}
    BY <1>3, <1>4, <2>1, <2>2, <2>3, KindOrder, StepsFromEach
  <2>4. CASE K # {}
    <3>1. at[v] = "video" /\ K = {"audio"} /\ Again(at[v]) = 1
      BY <1>4, <2>4, KindOrder DEF K
    <3>2. at'[v] = "audio" /\ Again(at'[v]) = 0
      BY <2>2, <3>1 DEF FirstOf, Again
    <3> QED
      BY <1>3, <2>1, <2>2, <2>4, <3>1, <3>2, StepsFromEach
  <2> QED
    BY <2>3, <2>4
<1> QED
  BY <1>6, <1>7, <1>8, <1>9, <1>10, <1>11, <1>12 DEF Joins

(* RemoveConsumer, once it has begun, and stopProducers.                   *)
LEMMA LeavesAdvance ==
  ASSUME IInv, TypeOK', NEW v \in Viewers, Leaves(v)
  PROVE  Ahead(v)' < Ahead(v)
<1>1. TypeOK /\ Local(v) /\ Holding
  BY DEF IInv, OwnedInv, Locals
<1> DEFINE n == Cardinality(unchecked)
           m == Cardinality(unchecked')
<1>2. n \in 0 .. 2 /\ m \in 0 .. 2
  BY <1>1, Kinds DEF TypeOK
<1>3. Ahead(v) = StepsFrom(pc[v], at[v], n) /\ Ahead(v)' = StepsFrom(pc'[v], at'[v], m)
  BY DEF Ahead
<1>4. at[v] \in Kind /\ Playing(v) \in SUBSET Kind
  BY <1>1, Leads DEF Playing
<1>5. ASSUME Step(v, Returned(v)), pc[v] \in {"load", "senders", "stop"}
      PROVE  Ahead(v)' < Ahead(v)
  <2>1. pc'[v] \in {"gone", "register", "failed"}
    BY <1>1, <1>5, Leads, ReturnedWhere
  <2> HIDE DEF n, m
  <2> QED
    BY <1>2, <1>3, <1>5, <2>1, StepsFromEach
<1>6. CASE CloseNext(v)
  <2>1. pc[v] = "leave" /\ CloseSender(v, at[v]) /\ at[v] \in Playing(v)
    BY <1>1, <1>4, <1>6 DEF CloseNext, Local, Playing
  <2>2. PICK k \in Kind : Playing(v) \subseteq After(k)
    BY <1>1, <2>1 DEF Local
  <2>3. at[v] = "audio" /\ Playing(v) \ {at[v]} = {} /\ Again("audio") = 0
    BY <2>1, <2>2, KindOrder DEF Again
  <2>4. \/ Step(v, "cascade") /\ at' = [at EXCEPT ![v] = at[v]]
        \/ Turn(v, {}, "leave", "remove")
    BY <2>1, <2>3 DEF CloseSender
  <2>5. pc'[v] = "remove" \/ (pc'[v] = "cascade" /\ at'[v] = "audio")
    <3>1. CASE Step(v, "cascade") /\ at' = [at EXCEPT ![v] = at[v]]
      BY <1>1, <2>3, <3>1, Leads DEF TypeOK
    <3>2. CASE Turn(v, {}, "leave", "remove")
      BY <1>1, <3>2, Leads
    <3> QED
      BY <2>4, <3>1, <3>2
  <2> HIDE DEF n, m
  <2> QED
    BY <1>3, <2>1, <2>3, <2>5, StepsFromEach
<1>7. CASE Cascade(v)
  <2>1. pc[v] = "cascade" /\ Turn(v, Playing(v), "leave", "remove") /\ Playing(v) \subseteq After(at[v])
    BY <1>1, <1>4, <1>7 DEF Cascade, Local
  <2>2. pc'[v] = IF Playing(v) = {} THEN "remove" ELSE "leave"
    BY <1>1, <1>4, <2>1, Leads
  <2>3. pc'[v] = "remove" \/ (pc'[v] = "leave" /\ Again(at[v]) = 1)
    BY <1>4, <2>1, <2>2, KindOrder
  <2>4. Again(at[v]) \in {0, 1}
    BY DEF Again
  <2> HIDE DEF n, m
  <2> QED
    BY <1>3, <2>1, <2>3, <2>4, StepsFromEach
<1>8. CASE Remove(v)
  <2>1. pc[v] = "remove" /\ pc'[v] = "load"
    BY <1>1, <1>8, Leads DEF Remove
  <2> HIDE DEF n, m
  <2> QED
    BY <1>3, <2>1, StepsFromEach
<1>9. CASE LoadPending(v)
  <2>1. pc[v] = "load" /\ (Step(v, "check") \/ Step(v, Returned(v)))
    BY <1>9 DEF LoadPending
  <2>2. CASE Step(v, "check")
    <3>1. pc'[v] = "check"
      BY <1>1, <2>2, Leads
    <3> HIDE DEF n, m
    <3> QED
      BY <1>3, <2>1, <3>1, StepsFromEach
  <2> QED
    BY <1>5, <2>1, <2>2
<1>10. CASE CheckSenders(v)
  <2>1. pc[v] = "check" /\ pc'[v] \in {"stop", "senders"}
    BY <1>1, <1>10, Leads DEF CheckSenders
  <2> HIDE DEF n, m
  <2> QED
    BY <1>2, <1>3, <2>1, StepsFromEach
<1>11. CASE CheckTrack(v)
  <2>1. pc[v] = "senders"
    BY <1>11 DEF CheckTrack
  <2>2. PICK k \in unchecked :
           IF childs[receiver[k]][k] # {}
           THEN Step(v, Returned(v))
           ELSE /\ unchecked' = unchecked \ {k}
                /\ Step(v, IF unchecked = {k} THEN "stop" ELSE "senders")
    BY <1>11 DEF CheckTrack
  <2>3. CASE childs[receiver[k]][k] # {}
    BY <1>5, <2>1, <2>2, <2>3
  <2>4. CASE childs[receiver[k]][k] = {}
    <3>1. m = n - 1
      BY <1>1, <2>2, <2>4, Kinds DEF TypeOK
    <3>2. pc'[v] \in {"stop", "senders"}
      BY <1>1, <2>2, <2>4, Leads
    <3> HIDE DEF n, m
    <3> QED
      BY <1>2, <1>3, <2>1, <3>1, <3>2, StepsFromEach
  <2> QED
    BY <2>3, <2>4
<1>12. CASE StopProducer(v)
  BY <1>5, <1>12 DEF StopProducer
<1> QED
  BY <1>6, <1>7, <1>8, <1>9, <1>10, <1>11, <1>12 DEF Leaves

(* A step of another viewer, of a worker or of a source.                   *)
LEMMA OthersWait ==
  ASSUME IInv, [Next]_vars, NEW v \in Viewers,
         ~(AddConsumer(v) \/ RemoveConsumer(v) \/ Joins(v) \/ Leaves(v))
  PROVE  Ahead(v)' = Ahead(v)
<1>1. TypeOK /\ Holding
  BY DEF IInv, OwnedInv
<1>2. ASSUME pc'[v] = pc[v], at'[v] = at[v], unchecked' = unchecked \/ pc[v] # "senders"
      PROVE  Ahead(v)' = Ahead(v)
  BY <1>2 DEF Ahead, StepsFrom
<1>3. ASSUME NEW u \in Viewers, NEW s, Step(u, s), u # v PROVE pc'[v] = pc[v]
  BY <1>1, <1>3 DEF TypeOK, Step
<1>4. ASSUME NEW u \in Viewers, NEW K, NEW s, NEW t, Turn(u, K, s, t), u # v
      PROVE  pc'[v] = pc[v] /\ at'[v] = at[v]
  BY <1>1, <1>4 DEF TypeOK, Turn, Step
<1>5. ASSUME NEW u \in Viewers, u # v, AddConsumer(u) \/ Joins(u) PROVE Ahead(v)' = Ahead(v)
  <2>1. unchecked' = unchecked
    BY <1>5 DEF AddConsumer, Joins, Dial, GetMedias, GetTrack, AddTrack, Matched, Register, Start
  <2>2. \/ \E s : Step(u, s) /\ at' = at
        \/ \E K, s, t : Turn(u, K, s, t)
    BY <1>5 DEF AddConsumer, Joins, Dial, GetMedias, GetTrack, AddTrack, Matched, Register, Start
  <2> QED
    BY <1>2, <1>3, <1>4, <1>5, <2>1, <2>2
<1>6. ASSUME NEW u \in Viewers, u # v, RemoveConsumer(u) \/ CloseNext(u) PROVE Ahead(v)' = Ahead(v)
  <2>1. PICK k : CloseSender(u, k)
    BY <1>6 DEF RemoveConsumer, CloseNext
  <2>2. /\ unchecked' = unchecked
        /\ \/ Step(u, "cascade") /\ at' = [at EXCEPT ![u] = k]
           \/ Turn(u, Playing(u) \ {k}, "leave", "remove")
    BY <2>1 DEF CloseSender
  <2>3. CASE Step(u, "cascade") /\ at' = [at EXCEPT ![u] = k]
    BY <1>1, <1>2, <1>3, <1>6, <2>2, <2>3 DEF TypeOK
  <2> QED
    BY <1>2, <1>4, <1>6, <2>2, <2>3
<1>7. ASSUME NEW u \in Viewers, u # v,
             Cascade(u) \/ Remove(u) \/ LoadPending(u) \/ CheckSenders(u) \/ CheckTrack(u) \/ StopProducer(u)
      PROVE  Ahead(v)' = Ahead(v)
  <2>1. unchecked' = unchecked \/ pc[v] # "senders"
    BY <1>1, <1>7 DEF Holding, Cascade, Remove, LoadPending, CheckSenders, CheckTrack, StopProducer
  <2>2. \/ \E s : Step(u, s) /\ at' = at
        \/ \E K, s, t : Turn(u, K, s, t)
    BY <1>7 DEF Cascade, Remove, LoadPending, CheckSenders, CheckTrack, StopProducer
  <2> QED
    BY <1>2, <1>3, <1>4, <1>7, <2>1, <2>2
<1>8. CASE \/ \E c \in Conn : SourceDies(c)
           \/ \E w \in workers : Works(w)
           \/ Moves \/ Finished \/ UNCHANGED vars
  <2>1. UNCHANGED <<pc, at, unchecked>>
    BY <1>8 DEF SourceDies, Works, WorkerReturns, Reconnect, Moves, Take, Give, Swap, Finished, vars
  <2> QED
    BY <1>2, <2>1
<1> QED
  BY <1>5, <1>6, <1>7, <1>8 DEF Next, Leaves

(* For any number of viewers: no AddConsumer has more than 18 steps and no *)
(* RemoveConsumer more than 13, once for the video and once for the audio, *)
(* whatever the others do meanwhile; no check is repeated.                 *)
THEOREM CallsAreFinite == Spec => [][CallsAdvance]_vars
<1>1. ASSUME IInv, [Next]_vars PROVE CallsAdvance
  <2>1. TypeOK /\ TypeOK' /\ Locals
    BY <1>1, Preserved DEF IInv, OwnedInv
  <2>2. ASSUME NEW v \in Viewers, AddConsumer(v) PROVE Ahead(v)' = 17 /\ Ahead(v)' \in Nat
    <3>1. Turn(v, Kind, "dial", "done") /\ Kind # {} /\ FirstOf(Kind) = "video" /\ Again("video") = 1
      BY <2>2 DEF AddConsumer, Kind, FirstOf, Again
    <3>2. pc'[v] = "dial" /\ at'[v] = "video"
      BY <2>1, <3>1, Leads
    <3> QED
      BY <3>1, <3>2, StepsFromEach DEF Ahead
  <2>3. ASSUME NEW v \in Viewers, RemoveConsumer(v) PROVE Ahead(v)' <= 12
    <3>1. PICK k : CloseSender(v, k)
      BY <2>3 DEF RemoveConsumer
    <3>2. \/ Step(v, "cascade")
          \/ Turn(v, Playing(v) \ {k}, "leave", "remove") /\ Playing(v) \ {k} \in SUBSET Kind
      BY <3>1 DEF CloseSender, Playing
    <3>3. pc'[v] \in {"cascade", "leave", "remove"}
      BY <2>1, <3>2, Leads
    <3>4. Again(at'[v]) \in {0, 1}
      BY DEF Again
    <3>5. Ahead(v)' = StepsFrom(pc'[v], at'[v], Cardinality(unchecked'))
      BY DEF Ahead
    <3> QED
      BY <3>3, <3>4, <3>5, StepsFromEach
  <2>4. ASSUME NEW v \in Viewers, Joins(v) \/ Leaves(v) PROVE Ahead(v)' < Ahead(v)
    BY <1>1, <2>1, <2>4, JoinsAdvance, LeavesAdvance
  <2>5. \A v \in Viewers : Ahead(v) \in Nat /\ Ahead(v)' \in Nat
    <3> SUFFICES ASSUME NEW v \in Viewers PROVE Ahead(v) \in Nat /\ Ahead(v)' \in Nat
      OBVIOUS
    <3>1. Cardinality(unchecked) \in Nat /\ Cardinality(unchecked') \in Nat
      <4>1. unchecked \in SUBSET Kind /\ unchecked' \in SUBSET Kind
        BY <2>1 DEF TypeOK
      <4>2. \A K \in SUBSET Kind : Cardinality(K) \in Nat
        BY Kinds
      <4> QED
        BY <4>1, <4>2
    <3>2. ASSUME NEW s, NEW k, NEW n \in Nat PROVE StepsFrom(s, k, n) \in Nat
      BY DEF StepsFrom, Again
    <3> QED
      BY <3>1, <3>2 DEF Ahead
  <2>6. ASSUME NEW v \in Viewers, Ahead(v)' > Ahead(v) PROVE AddConsumer(v) \/ RemoveConsumer(v)
    BY <1>1, <2>4, <2>5, <2>6, OthersWait
  <2> QED
    BY <2>2, <2>3, <2>4, <2>6 DEF CallsAdvance
<1> QED
  BY <1>1, Inductive, PTL DEF Spec

=============================================================================
